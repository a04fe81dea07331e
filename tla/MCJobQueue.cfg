SPECIFICATION Spec
CONSTANTS
  j1 = j1
  j2 = j2
  w1 = w1
  w2 = w2
  uploads = uploads
  Jobs <- MCJobs
  Queues <- MCQueues
  QueueOf <- MCQueueOf
  Workers <- MCWorkers
  Consumes <- MCConsumes
  MaxRetries = 1
  MaxFaults = 2
  NoMessage = NoMessage
INVARIANTS
  TypeOK
  NoJobLost
  RetriesAreEarned
  ExhaustedAfterEveryRetry
  DuplicatesNeedFaults
PROPERTIES
  ImplementsContract
  QueuesDrain
\* Once every job is settled the workers wait for ever for the next message.
CHECK_DEADLOCK FALSE
