SPECIFICATION Spec
CONSTANTS
  f1 = f1
  daemon = daemon
  request = request
  StoredFiles <- MCFiles
  ChunkOrder <- MCOrder
  Daemon <- daemon
  Requests <- MCRequests
  NumEndpoints = 3
  MaxErrors = 1
  MaxWipes = 1
INVARIANTS
  TypeOK
  OneRoundRestores
PROPERTIES
  OnlyStaleJobsResurrect
  StoreConverges
\* A daemon thread that has died, and requests that have ended, leave nothing to do.
CHECK_DEADLOCK FALSE
