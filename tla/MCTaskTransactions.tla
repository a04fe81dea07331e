------------------------ MODULE MCTaskTransactions -------------------------
\* One file of one chunk; three requests beside its upload.
EXTENDS TaskTransactions, TLC

CONSTANTS file

MCFiles == {file}
MCNumChunks == (file :> 1)
=============================================================================
