SPECIFICATION Spec
CONSTANTS
  file1 = file1
  upload1 = upload1
  delete1 = delete1
  Chunks = 1
  Files <- MCFiles
  StoredFiles <- MCFiles
  NumChunks <- MCNumChunks
  UploadWorkers <- MCUploadWorkers
  DeleteWorkers <- MCDeleteWorkers
  NumEndpoints = 2
  MaxDeletes = 1
  MaxRetries = 1
  MaxFaults = 0
  MaxErrors = 0
  NoMessage = NoMessage
INVARIANT
  CompletedDeleteLeavesNothing
\* Once every task is settled the workers wait for ever for the next message.
CHECK_DEADLOCK FALSE
