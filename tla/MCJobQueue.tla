----------------------------- MODULE MCJobQueue -----------------------------
\* Two workers compete for one queue of two messages.
EXTENDS JobQueue, TLC

CONSTANTS j1, j2, w1, w2, uploads

MCJobs == {j1, j2}
MCWorkers == {w1, w2}
MCQueues == {uploads}
MCQueueOf == [j \in MCJobs |-> uploads]
MCConsumes == [w \in MCWorkers |-> uploads]
=============================================================================
