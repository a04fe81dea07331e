---------------------------- MODULE MCRudyDrive ----------------------------
\* One file, one upload worker and one delete worker (as docker-compose starts
\* them), two endpoints.
EXTENDS RudyDrive, TLC

CONSTANTS file1, upload1, delete1, Chunks

MCFiles == {file1}
MCNumChunks == (file1 :> Chunks)
MCUploadWorkers == {upload1}
MCDeleteWorkers == {delete1}
=============================================================================
