SPECIFICATION Spec
CONSTANTS
  file = file
  Files <- MCFiles
  NumChunks <- MCNumChunks
  MaxDeletes = 1
  MaxCalls = 3
  NoTask = NoTask
PROPERTY
  FailureIsRecorded
\* Once all requests are answered nothing is left to do.
CHECK_DEADLOCK FALSE
