SPECIFICATION Spec
CONSTANTS
  StoredFiles = {f}
  File = f
  NumChunks = 2
  NumEndpoints = 3
  MaxChanges = 2
  MaxErrors = 1
INVARIANTS
  TypeOK
  MissingWasMoved
  BrokenLostItsSource
  ReportMissesOnlyMoved
PROPERTIES
  Answered
\* A request is answered once.
CHECK_DEADLOCK FALSE
