-------------------------- MODULE MCStorageRepair --------------------------
\* One file of two chunks on three endpoints, so that a copy may have to come from
\* the second source, the daemon and one requested repair.
EXTENDS StorageRepair

CONSTANTS f1, daemon, request

MCFiles == {f1}
MCOrder == <<<<f1, 0>>, <<f1, 1>>>>
MCRequests == {request}
=============================================================================
