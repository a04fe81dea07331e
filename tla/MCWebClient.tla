---------------------------- MODULE MCWebClient ------------------------------
\* Two accounts, two files that differ in their id only, and what three clicks
\* can start on a page that may have been left with a token.
EXTENDS WebClient, TLC

CONSTANTS file1, file2, ana, eva

MCFiles == {file1, file2}
MCNumChunks == [f \in MCFiles |-> 1]
MCUsers == {ana, eva}
MCMembers == {ana}

Alike == Permutations(MCFiles)
=============================================================================
