SPECIFICATION Spec
CONSTANTS
  file = file
  MaxCalls = 3
  Files <- MCFiles
  NumChunks <- MCNumChunks
  MaxDeletes = 2
  NoTask = NoTask
INVARIANTS
  RetryCountIsPlausible
  StatusIsReported
  RecordsAgree
PROPERTIES
  RowsNeverReturn
  CommitsAreAtomic
  CallsAreAnswered
\* Once all requests are answered nothing is left to do.
CHECK_DEADLOCK FALSE
