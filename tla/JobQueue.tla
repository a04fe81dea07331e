------------------------------ MODULE JobQueue ------------------------------
(***************************************************************************)
(* The RabbitMQ queues and the QueueWorker loops that consume them         *)
(* (distributed/workers/shared/queue_worker.py): delivery with prefetch 1, *)
(* manual acknowledgement, retry by publishing a copy that carries         *)
(* _retry_count + 1, discard at QUEUE_MAX_RETRIES, and recovery by the     *)
(* broker when a connection breaks or a worker process dies.  What the     *)
(* handler does is left open: it returns or it raises.                     *)
(*                                                                         *)
(* The broker is external.  It keeps what it has accepted (durable queues, *)
(* persistent messages) and puts an unacknowledged delivery back at the    *)
(* head of its queue when the connection that held it is gone.             *)
(***************************************************************************)
EXTENDS Integers, Sequences, FiniteSets, Functions

CONSTANTS Jobs,         \* the messages the backend may publish, one per task
          Queues,       \* "upload.chunk", "delete.chunk"
          QueueOf,      \* Jobs -> Queues: the routing key of each message
          Workers,      \* the QueueWorker processes
          Consumes,     \* Workers -> Queues: the queue_name each was built with
          MaxRetries,   \* QUEUE_MAX_RETRIES
          MaxFaults,    \* bound on broken connections, crashes, failed republishes
          NoMessage     \* held by a worker that has no delivery

ASSUME QueueOfAssumption == QueueOf \in [Jobs -> Queues]
ASSUME ConsumesAssumption == Consumes \in [Workers -> Queues]
ASSUME FinitenessAssumption == IsFiniteSet(Queues) /\ IsFiniteSet(Workers)
ASSUME MaxRetriesAssumption == MaxRetries \in Nat
ASSUME MaxFaultsAssumption == MaxFaults \in Nat

Message == [job : Jobs, retry : 0..MaxRetries]

ASSUME NoMessageAssumption == NoMessage \notin Message

VARIABLES queue,        \* per queue, the messages ready for delivery
          pc,           \* per worker, where its loop stands
          held,         \* per worker, the delivery it has not settled yet
          open,         \* per worker, whether its channel is still open
          faults,       \* broken connections, crashes, failed republishes so far
          published, succeeded, exhausted, failedAt   \* history, see JobContract

workerVars == <<pc, held, open>>
historyVars == <<published, succeeded, exhausted, failedAt>>
queueVars == <<queue, workerVars, faults, historyVars>>

Contract == INSTANCE JobContract

\* A worker is "down" when it has no connection, "idle" when it waits in
\* start_consuming, "handling" inside the handler, "failed" once the handler
\* has raised, "handled" and "republished" when only the acknowledgement is left.
Places == {"down", "idle", "handling", "failed", "handled", "republished"}

TypeOK == /\ queue \in [Queues -> Seq(Message)]
          /\ pc \in [Workers -> Places]
          /\ held \in [Workers -> Message \union {NoMessage}]
          /\ \A w \in Workers : held[w] = NoMessage <=> pc[w] \in {"down", "idle"}
          /\ open \in [Workers -> BOOLEAN]
          /\ \A w \in Workers : pc[w] = "idle" => open[w]
          /\ faults \in 0..MaxFaults
          /\ published \in SUBSET Jobs
          /\ succeeded \in SUBSET published
          /\ exhausted \in SUBSET published
          /\ failedAt \in [Jobs -> SUBSET (0..MaxRetries)]

Init == /\ queue = [q \in Queues |-> <<>>]
        /\ pc = [w \in Workers |-> "down"]
        /\ held = [w \in Workers |-> NoMessage]
        /\ open = [w \in Workers |-> FALSE]
        /\ faults = 0
        /\ Contract!Init

-----------------------------------------------------------------------------
(* The broker. *)

Enqueued(q, m) == [queue EXCEPT ![q] = Append(@, m)]

\* The broker takes back the delivery of worker w.
Requeued(w) == [queue EXCEPT ![Consumes[w]] = <<held[w]>> \o @]

\* The backend's basic_publish of a new message has reached the broker.
Publish(j) == /\ j \notin published
              /\ published' = published \union {j}
              /\ queue' = Enqueued(QueueOf[j], [job |-> j, retry |-> 0])
              /\ UNCHANGED <<workerVars, faults, succeeded, exhausted, failedAt>>

-----------------------------------------------------------------------------
(* One turn of QueueWorker.run for worker w. *)

\* The end of on_message: a worker whose channel is gone finds out when it goes
\* back to start_consuming, which raises; it sleeps and connects again.
Finish(w) == /\ pc' = [pc EXCEPT ![w] = IF open[w] THEN "idle" ELSE "down"]
             /\ held' = [held EXCEPT ![w] = NoMessage]
             /\ UNCHANGED open

\* Mutant: the loop ends at its first exception.
ConnectOnce(w) == /\ pc[w] = "down"
                  /\ faults = 0
                  /\ pc' = [pc EXCEPT ![w] = "idle"]
                  /\ open' = [open EXCEPT ![w] = TRUE]
                  /\ UNCHANGED <<queue, held, faults, historyVars>>

Connect(w) == /\ pc[w] = "down"
              /\ pc' = [pc EXCEPT ![w] = "idle"]
              /\ open' = [open EXCEPT ![w] = TRUE]
              /\ UNCHANGED <<queue, held, faults, historyVars>>

\* Prefetch 1: only a worker with no delivery gets the head of its queue.
Deliver(w) == /\ pc[w] = "idle"
              /\ queue[Consumes[w]] # <<>>
              /\ held' = [held EXCEPT ![w] = Head(queue[Consumes[w]])]
              /\ queue' = [queue EXCEPT ![Consumes[w]] = Tail(@)]
              /\ pc' = [pc EXCEPT ![w] = "handling"]
              /\ UNCHANGED <<open, faults, historyVars>>

HandlerReturns(w) == /\ pc[w] = "handling"
                     /\ pc' = [pc EXCEPT ![w] = "handled"]
                     /\ succeeded' = succeeded \union {held[w].job}
                     /\ UNCHANGED <<queue, held, open, faults, published, exhausted, failedAt>>

HandlerRaises(w) == /\ pc[w] = "handling"
                    /\ pc' = [pc EXCEPT ![w] = "failed"]
                    /\ failedAt' = [failedAt EXCEPT ![held[w].job] = @ \union {held[w].retry}]
                    /\ UNCHANGED <<queue, held, open, faults, published, succeeded, exhausted>>

\* basic_ack.  On a closed channel it raises, which is only logged: the broker
\* has the delivery back already.
Acknowledge(w) == /\ pc[w] \in {"handled", "republished"}
                  /\ Finish(w)
                  /\ UNCHANGED <<queue, faults, historyVars>>

\* Mutant: the copy keeps its count.
RetriedForEver(m) == m

Retried(m) == [m EXCEPT !.retry = @ + 1]

\* Mutants: one retry too many; a copy also after success; the delivery is
\* requeued beside its copy.
RepublishOnceMore(w) == /\ pc[w] = "failed"
                        /\ held[w].retry <= MaxRetries
                        /\ queue' = Enqueued(Consumes[w], Retried(held[w]))
                        /\ pc' = [pc EXCEPT ![w] = "republished"]
                        /\ UNCHANGED <<held, open, faults, historyVars>>
RepublishAlways(w) == /\ pc[w] \in {"failed", "handled"}
                      /\ held[w].retry < MaxRetries
                      /\ queue' = Enqueued(Consumes[w], Retried(held[w]))
                      /\ pc' = [pc EXCEPT ![w] = "republished"]
                      /\ UNCHANGED <<held, open, faults, historyVars>>
RepublishAndRequeue(w) ==
    /\ pc[w] = "failed"
    /\ held[w].retry < MaxRetries
    /\ open[w]
    /\ queue' = [queue EXCEPT ![Consumes[w]] = <<held[w]>> \o Append(@, Retried(held[w]))]
    /\ Finish(w)
    /\ UNCHANGED <<faults, historyVars>>

\* The retry copy goes through a connection of its own, so it does not matter
\* here whether the worker's channel is still open.
Republish(w) == /\ pc[w] = "failed"
                /\ held[w].retry < MaxRetries
                /\ queue' = Enqueued(Consumes[w], Retried(held[w]))
                /\ pc' = [pc EXCEPT ![w] = "republished"]
                /\ UNCHANGED <<held, open, faults, historyVars>>

\* Mutant: the delivery is rejected with requeue=False.
RepublishFailsDropping(w) ==
    /\ pc[w] = "failed"
    /\ held[w].retry < MaxRetries
    /\ faults < MaxFaults
    /\ faults' = faults + 1
    /\ UNCHANGED queue
    /\ Finish(w)
    /\ UNCHANGED historyVars

\* publish raises, before or after the copy has reached the broker (closing the
\* connection is part of it); the delivery is returned with requeue=True.
RepublishFails(w) ==
    /\ pc[w] = "failed"
    /\ held[w].retry < MaxRetries
    /\ faults < MaxFaults
    /\ faults' = faults + 1
    /\ \E reached \in BOOLEAN :
         LET copy == IF reached THEN <<Retried(held[w])>> ELSE <<>>
             back == IF open[w] THEN <<held[w]>> ELSE <<>>
         IN  queue' = [queue EXCEPT ![Consumes[w]] = back \o @ \o copy]
    /\ Finish(w)
    /\ UNCHANGED historyVars

\* Mutant: the message is given up one retry early.
DiscardEarly(w) == /\ pc[w] = "failed"
                   /\ held[w].retry + 1 >= MaxRetries
                   /\ exhausted' = IF open[w] THEN exhausted \union {held[w].job} ELSE exhausted
                   /\ Finish(w)
                   /\ UNCHANGED <<queue, faults, published, succeeded, failedAt>>

\* The last retry has failed: requeue=False drops the message for good, unless
\* the channel is gone and the broker has it back.
Discard(w) == /\ pc[w] = "failed"
              /\ held[w].retry >= MaxRetries
              /\ exhausted' = IF open[w] THEN exhausted \union {held[w].job} ELSE exhausted
              /\ Finish(w)
              /\ UNCHANGED <<queue, faults, published, succeeded, failedAt>>

-----------------------------------------------------------------------------
(* Faults.  MaxFaults bounds them. *)

\* The broker sees the connection of w go away.  A worker inside its handler
\* does not notice before its next use of the channel.
LoseConnection(w) ==
    /\ open[w]
    /\ faults < MaxFaults
    /\ faults' = faults + 1
    /\ open' = [open EXCEPT ![w] = FALSE]
    /\ pc' = [pc EXCEPT ![w] = IF @ = "idle" THEN "down" ELSE @]
    /\ queue' = IF held[w] = NoMessage THEN queue ELSE Requeued(w)
    /\ UNCHANGED <<held, historyVars>>

\* The worker process dies; its container is started again.
Crash(w) ==
    /\ pc[w] # "down"
    /\ faults < MaxFaults
    /\ faults' = faults + 1
    /\ open' = [open EXCEPT ![w] = FALSE]
    /\ pc' = [pc EXCEPT ![w] = "down"]
    /\ held' = [held EXCEPT ![w] = NoMessage]
    /\ queue' = IF open[w] /\ held[w] # NoMessage THEN Requeued(w) ELSE queue
    /\ UNCHANGED historyVars

-----------------------------------------------------------------------------

\* What the loop of w does by itself, faults aside.
Step(w) == \/ Connect(w) \/ Deliver(w) \/ HandlerReturns(w) \/ HandlerRaises(w)
           \/ Acknowledge(w) \/ Republish(w) \/ Discard(w)

Fault(w) == RepublishFails(w) \/ LoseConnection(w) \/ Crash(w)

Next == \/ \E j \in Jobs : Publish(j)
        \/ \E w \in Workers : Step(w) \/ Fault(w)

\* Every worker's loop keeps running: "while True" in run, "restart:
\* unless-stopped" on its container, timeouts on all it waits for.
Fairness == \A w \in Workers : WF_queueVars(Step(w))

Spec == Init /\ [][Next]_queueVars /\ Fairness

-----------------------------------------------------------------------------
(* Safety. *)

Waiting(j) == \E q \in Queues : \E m \in Range(queue[q]) : m.job = j

\* w must still settle j with the broker: its death would put j back.
Owns(w, j) == /\ pc[w] \in {"handling", "failed"}
              /\ open[w]
              /\ held[w].job = j

\* However acknowledgements, retry copies, lost connections and crashes
\* interleave, an accepted job is in a queue, in the hands of a worker the
\* broker still waits for, done, or given up: never just gone
\* (queue_worker.py acknowledges only after the copy is published).
NoJobLost == \A j \in published : \/ Waiting(j)
                                  \/ \E w \in Workers : Owns(w, j)
                                  \/ j \in succeeded \union exhausted

\* Message m has been accepted, and every attempt before its retry number raised.
Earned(m) == m.job \in published /\ 0..m.retry - 1 \subseteq failedAt[m.job]

\* _retry_count never runs ahead of the attempts that failed, in no copy of a
\* message that requeues and republishes have multiplied
\* (queue_worker.py counts in the payload and not in the broker).
RetriesAreEarned ==
    /\ \A q \in Queues : \A m \in Range(queue[q]) : Earned(m)
    /\ \A w \in Workers : held[w] # NoMessage => Earned(held[w])
    /\ \A w \in Workers : pc[w] \in {"failed", "republished"} =>
                              held[w].retry \in failedAt[held[w].job]

\* A job is dropped only after an attempt has failed at every retry number from
\* 0 to QUEUE_MAX_RETRIES: duplicates never use up another copy's retries.
ExhaustedAfterEveryRetry == \A j \in exhausted : failedAt[j] = 0..MaxRetries

\* Executions of j that are queued or under way.
Pending(j) ==
    Cardinality({p \in UNION {{q} \X DOMAIN queue[q] : q \in Queues} :
                     queue[p[1]][p[2]].job = j})
    + Cardinality({w \in Workers : pc[w] \in {"handling", "failed"} /\ held[w].job = j})

\* A second execution of a job, at the same time or after it was done, is always
\* paid for by a fault: retries alone never duplicate a job (the copy is
\* published, then the original acknowledged).
DuplicatesNeedFaults ==
    \A j \in Jobs :
        Pending(j) <= faults + (IF j \in published \ (succeeded \union exhausted) THEN 1 ELSE 0)

\* The safety part of the contract: accepted, attempted, done, given up, each
\* only when JobContract allows it.
ContractSafety == Contract!Init /\ [][Contract!Next]_(Contract!contractVars)

\* The at-least-once contract, safety and progress.
ImplementsContract == Contract!Spec

\* Redelivery ends: once the faults are over every queue drains for good and
\* every worker rests, whatever the handlers do.
QueuesDrain == <>[](/\ \A q \in Queues : queue[q] = <<>>
                    /\ \A w \in Workers : pc[w] = "idle")
=============================================================================
