SPECIFICATION Spec
CONSTANTS
  f1 = f1
  daemon = daemon
  request = request
  StoredFiles <- MCFiles
  ChunkOrder <- MCOrder
  Daemon <- daemon
  Requests <- MCRequests
  NumEndpoints = 2
  MaxErrors = 0
  MaxWipes = 0
INVARIANT
  DeletedStaysDeleted
\* A daemon thread that has died, and requests that have ended, leave nothing to do.
CHECK_DEADLOCK FALSE
