--------------------------- MODULE JobQueueProofs ---------------------------
(***************************************************************************)
(* Theorems about JobQueue for any number of jobs, queues and workers, any *)
(* QUEUE_MAX_RETRIES and any number of faults.                             *)
(*                                                                         *)
(* The lemmas QueueAfter... say once what each action does to the messages *)
(* of each queue; the invariants then only speak of sets of messages.      *)
(***************************************************************************)
EXTENDS JobQueue, SequenceTheorems, FiniteSetTheorems, TLAPS

-----------------------------------------------------------------------------
(* Sequences and their ranges. *)

\* Appending adds one element to the range of a sequence.
LEMMA RangeAppend ==
    ASSUME NEW S, NEW s \in Seq(S), NEW e \in S
    PROVE  /\ Append(s, e) \in Seq(S)
           /\ Range(Append(s, e)) = Range(s) \union {e}
<1>1. <<e>> \in Seq(S) /\ Append(s, e) = s \o <<e>>
  BY AppendIsConcat
<1>2. Range(<<e>>) = {e}
  BY DEF Range
<1>3. Range(s \o <<e>>) = Range(s) \union Range(<<e>>)
  <2> DEFINE t == <<e>>
  <2>1. t \in Seq(S)
    BY <1>1
  <2> HIDE DEF t
  <2>2. Range(s \o t) = Range(s) \union Range(t)
    BY <2>1, RangeConcatenation
  <2> QED
    BY <2>2 DEF t
<1>4. s \o <<e>> \in Seq(S)
  BY <1>1, ConcatProperties
<1> QED
  BY <1>1, <1>2, <1>3, <1>4

\* So does putting an element at the head.
LEMMA RangeCons ==
    ASSUME NEW S, NEW s \in Seq(S), NEW e \in S
    PROVE  /\ <<e>> \o s \in Seq(S)
           /\ Range(<<e>> \o s) = Range(s) \union {e}
<1>1. <<e>> \in Seq(S)
  OBVIOUS
<1>2. Range(<<e>>) = {e}
  BY DEF Range
<1>3. Range(<<e>> \o s) = Range(<<e>>) \union Range(s)
  <2> DEFINE t == <<e>>
  <2>1. t \in Seq(S)
    BY <1>1
  <2> HIDE DEF t
  <2>2. Range(t \o s) = Range(t) \union Range(s)
    BY <2>1, RangeConcatenation
  <2> QED
    BY <2>2 DEF t
<1>4. <<e>> \o s \in Seq(S)
  BY <1>1, ConcatProperties
<1> QED
  BY <1>2, <1>3, <1>4

\* Taking the head away loses no other element.
LEMMA RangeTail ==
    ASSUME NEW S, NEW s \in Seq(S), s # <<>>
    PROVE  /\ Head(s) \in S
           /\ Tail(s) \in Seq(S)
           /\ Range(s) = Range(Tail(s)) \union {Head(s)}
<1>1. Head(s) \in S /\ Tail(s) \in Seq(S) /\ Head(s) = s[1] /\ Len(s) \in Nat \ {0}
  BY HeadTailProperties, EmptySeq, LenProperties
<1>2. Len(Tail(s)) = Len(s) - 1 /\ \A i \in 1..Len(Tail(s)) : Tail(s)[i] = s[i + 1]
  BY HeadTailProperties
<1>3. Range(s) = {s[i] : i \in 1..Len(s)}
  BY RangeEquality
<1>4. Range(Tail(s)) = {Tail(s)[i] : i \in 1..Len(Tail(s))}
  BY <1>1, RangeEquality
<1>5. \A x : x \in Range(s) => x \in Range(Tail(s)) \union {Head(s)}
  <2> SUFFICES ASSUME NEW i \in 1..Len(s)
               PROVE  s[i] \in Range(Tail(s)) \union {Head(s)}
    BY <1>3
  <2>1. CASE i = 1
    BY <2>1, <1>1
  <2>2. CASE i # 1
    <3>1. i - 1 \in 1..Len(Tail(s)) /\ Tail(s)[i - 1] = s[i]
      BY <2>2, <1>1, <1>2
    <3> QED
      BY <3>1, <1>4
  <2> QED
    BY <2>1, <2>2
<1>6. \A x : x \in Range(Tail(s)) \union {Head(s)} => x \in Range(s)
  <2>1. Head(s) \in Range(s)
    BY <1>1, <1>3
  <2>2. ASSUME NEW i \in 1..Len(Tail(s)) PROVE Tail(s)[i] \in Range(s)
    <3>1. i + 1 \in 1..Len(s) /\ Tail(s)[i] = s[i + 1]
      BY <1>1, <1>2
    <3> QED
      BY <3>1, <1>3
  <2> QED
    BY <2>1, <2>2, <1>4
<1> QED
  BY <1>1, <1>5, <1>6

-----------------------------------------------------------------------------
(* What the queue operations do to the messages of each queue. *)

QueueType == queue \in [Queues -> Seq(Message)]

\* Only queue q changes: it gains the messages of the set new.
Gains(newQueue, q, new) ==
    /\ newQueue \in [Queues -> Seq(Message)]
    /\ \A r \in Queues : Range(newQueue[r]) = Range(queue[r]) \union (IF r = q THEN new ELSE {})

\* Enqueueing m adds m and nothing else.
LEMMA EnqueuedGains ==
    ASSUME QueueType, NEW q \in Queues, NEW m \in Message
    PROVE  Gains(Enqueued(q, m), q, {m})
<1>1. queue[q] \in Seq(Message)
  BY DEF QueueType
<1>2. Append(queue[q], m) \in Seq(Message) /\ Range(Append(queue[q], m)) = Range(queue[q]) \union {m}
  BY <1>1, RangeAppend
<1> QED
  BY <1>2 DEF Gains, Enqueued, QueueType

\* Requeueing adds the held message and nothing else.
LEMMA RequeuedGains ==
    ASSUME QueueType, NEW w \in Workers, held[w] \in Message
    PROVE  Gains(Requeued(w), Consumes[w], {held[w]})
<1>1. Consumes[w] \in Queues
  BY ConsumesAssumption
<1>2. queue[Consumes[w]] \in Seq(Message)
  BY <1>1 DEF QueueType
<1>3. /\ <<held[w]>> \o queue[Consumes[w]] \in Seq(Message)
      /\ Range(<<held[w]>> \o queue[Consumes[w]]) = Range(queue[Consumes[w]]) \union {held[w]}
  BY <1>2, RangeCons
<1> QED
  BY <1>1, <1>3 DEF Gains, Requeued, QueueType

\* A failed republish adds what was returned and what had reached the broker.
LEMMA ReturnedGains ==
    ASSUME QueueType, NEW q \in Queues,
           NEW back \in Seq(Message), NEW copy \in Seq(Message)
    PROVE  Gains([queue EXCEPT ![q] = back \o @ \o copy], q, Range(back) \union Range(copy))
<1> DEFINE old == queue[q]
           front == back \o old
<1>1. old \in Seq(Message)
  BY DEF QueueType
<1> HIDE DEF old
<1>2. front \in Seq(Message)
  BY <1>1, ConcatProperties
<1>3. Range(front) = Range(back) \union Range(old)
  BY <1>1, RangeConcatenation
<1> HIDE DEF front
<1>4. front \o copy \in Seq(Message)
  BY <1>2, ConcatProperties
<1>5. Range(front \o copy) = Range(front) \union Range(copy)
  BY <1>2, RangeConcatenation
<1> USE DEF old, front
<1> QED
  BY <1>3, <1>4, <1>5 DEF Gains, QueueType

\* The next message of a retry, as long as the limit is not reached.
LEMMA RetriedType ==
    ASSUME NEW m \in Message, m.retry < MaxRetries
    PROVE  Retried(m) \in Message /\ Retried(m).job = m.job /\ Retried(m).retry = m.retry + 1
BY MaxRetriesAssumption DEF Message, Retried

\* A delivery moves one message from the queue to the worker.
LEMMA DeliverMoves ==
    ASSUME TypeOK, NEW w \in Workers, Deliver(w)
    PROVE  /\ queue' \in [Queues -> Seq(Message)]
           /\ held'[w] \in Message
           /\ \A r \in Queues : Range(queue[r]) = Range(queue'[r])
                                   \union (IF r = Consumes[w] THEN {held'[w]} ELSE {})
<1>1. Consumes[w] \in Queues
  BY ConsumesAssumption
<1>2. queue[Consumes[w]] \in Seq(Message) /\ queue[Consumes[w]] # <<>>
  BY <1>1 DEF TypeOK, Deliver
<1> DEFINE s == queue[Consumes[w]]
<1>3. Head(s) \in Message /\ Tail(s) \in Seq(Message) /\ Range(s) = Range(Tail(s)) \union {Head(s)}
  BY <1>2, RangeTail
<1>4. held'[w] = Head(s) /\ queue' = [queue EXCEPT ![Consumes[w]] = Tail(s)]
  BY DEF Deliver, TypeOK
<1>5. queue \in [Queues -> Seq(Message)]
  BY DEF TypeOK
<1> HIDE DEF s
<1>6. queue[Consumes[w]] = s
  BY DEF s
<1> QED
  BY <1>1, <1>3, <1>4, <1>5, <1>6

\* What RepublishFails(w) leaves in the queue of w: the original if its channel
\* was still open, and perhaps the copy.
LEMMA RepublishFailsGains ==
    ASSUME TypeOK, NEW w \in Workers, RepublishFails(w)
    PROVE  /\ held[w] \in Message
           /\ Retried(held[w]) \in Message
           /\ \E new \in SUBSET {held[w], Retried(held[w])} :
                 /\ open[w] => held[w] \in new
                 /\ Gains(queue', Consumes[w], new)
<1>1. held[w] \in Message /\ Consumes[w] \in Queues
  BY ConsumesAssumption DEF TypeOK, RepublishFails
<1>2. Retried(held[w]) \in Message
  BY <1>1, RetriedType DEF RepublishFails
<1>3. PICK reached \in BOOLEAN :
        queue' = [queue EXCEPT ![Consumes[w]] =
                    (IF open[w] THEN <<held[w]>> ELSE <<>>) \o @
                      \o (IF reached THEN <<Retried(held[w])>> ELSE <<>>)]
  BY DEF RepublishFails
<1> DEFINE back == IF open[w] THEN <<held[w]>> ELSE <<>>
           copy == IF reached THEN <<Retried(held[w])>> ELSE <<>>
<1>4. back \in Seq(Message) /\ copy \in Seq(Message)
  BY <1>1, <1>2
<1>5. /\ Range(back) = IF open[w] THEN {held[w]} ELSE {}
      /\ Range(copy) = IF reached THEN {Retried(held[w])} ELSE {}
  BY DEF Range
<1>6. queue' = [queue EXCEPT ![Consumes[w]] = back \o @ \o copy]
  BY <1>3
<1>7. QueueType
  BY DEF QueueType, TypeOK
<1> HIDE DEF back, copy
<1>8. Gains(queue', Consumes[w], Range(back) \union Range(copy))
  BY <1>1, <1>4, <1>6, <1>7, ReturnedGains
<1> QED
  BY <1>1, <1>2, <1>5, <1>8

-----------------------------------------------------------------------------
(* The inductive invariant.  NoJobLost needs no strengthening beyond the     *)
(* types; ExhaustedAfterEveryRetry rests on RetriesAreEarned, and so does    *)
(* the part of the types that says only accepted jobs are handled.           *)

IInv == TypeOK /\ NoJobLost /\ RetriesAreEarned /\ ExhaustedAfterEveryRetry

\* Nothing is queued or held at the start.
LEMMA InitIInv == Init => IInv
<1> SUFFICES ASSUME Init PROVE IInv
  OBVIOUS
<1>1. /\ published = {} /\ succeeded = {} /\ exhausted = {}
      /\ failedAt = [j \in Jobs |-> {}]
  BY DEF Init, Contract!Init
<1>2. \A q \in Queues : queue[q] = <<>> /\ Range(queue[q]) = {}
  BY DEF Init, Range
<1>3. \A w \in Workers : held[w] = NoMessage /\ pc[w] = "down" /\ ~open[w]
  BY DEF Init
<1>4. TypeOK
  <2>1. queue \in [Queues -> Seq(Message)]
    BY DEF Init
  <2>2. /\ pc \in [Workers -> Places]
        /\ held \in [Workers -> Message \union {NoMessage}]
        /\ open \in [Workers -> BOOLEAN]
        /\ faults \in 0..MaxFaults
    BY MaxFaultsAssumption DEF Init, Places
  <2> QED
    BY <1>1, <1>3, <2>1, <2>2 DEF TypeOK
<1>5. NoJobLost /\ ExhaustedAfterEveryRetry
  BY <1>1 DEF NoJobLost, ExhaustedAfterEveryRetry
<1>6. RetriesAreEarned
  BY <1>2, <1>3 DEF RetriesAreEarned
<1> QED
  BY <1>4, <1>5, <1>6 DEF IInv

\* A worker that is neither down nor idle holds a message of an accepted job.
LEMMA HeldMessage ==
    ASSUME IInv, NEW w \in Workers, pc[w] \notin {"down", "idle"}
    PROVE  /\ held[w] \in Message
           /\ held[w].job \in published
           /\ held[w].job \in Jobs
           /\ held[w].retry \in 0..MaxRetries
           /\ 0..held[w].retry - 1 \subseteq failedAt[held[w].job]
BY DEF IInv, TypeOK, RetriesAreEarned, Earned, Message

\* The types are preserved by every step.
LEMMA StepTypeOK == IInv /\ [Next]_queueVars => TypeOK'
<1> SUFFICES ASSUME IInv, [Next]_queueVars PROVE TypeOK'
  OBVIOUS
<1> USE DEF Finish, workerVars, historyVars
<1>0. TypeOK /\ QueueType
  BY DEF IInv, TypeOK, QueueType
<1>1. ASSUME NEW j \in Jobs, Publish(j) PROVE TypeOK'
  <2>1. QueueOf[j] \in Queues /\ [job |-> j, retry |-> 0] \in Message
    BY QueueOfAssumption, MaxRetriesAssumption DEF Message
  <2>2. queue' \in [Queues -> Seq(Message)]
    BY <1>0, <1>1, <2>1, EnqueuedGains DEF Publish, Gains
  <2> QED
    BY <1>0, <1>1, <2>2 DEF TypeOK, Publish
<1>2. ASSUME NEW w \in Workers, Connect(w) PROVE TypeOK'
  BY <1>0, <1>2 DEF TypeOK, Connect, Places
<1>3. ASSUME NEW w \in Workers, Deliver(w) PROVE TypeOK'
  <2>1. queue' \in [Queues -> Seq(Message)] /\ held'[w] \in Message
    BY <1>0, <1>3, DeliverMoves
  <2> QED
    BY <1>0, <1>3, <2>1, NoMessageAssumption DEF TypeOK, Deliver, Places
<1>4. ASSUME NEW w \in Workers, HandlerReturns(w) PROVE TypeOK'
  <2>1. held[w].job \in published
    BY <1>4, HeldMessage DEF HandlerReturns
  <2> QED
    BY <1>0, <1>4, <2>1 DEF TypeOK, HandlerReturns, Places
<1>5. ASSUME NEW w \in Workers, HandlerRaises(w) PROVE TypeOK'
  <2>1. held[w].job \in Jobs /\ held[w].retry \in 0..MaxRetries
    BY <1>5, HeldMessage DEF HandlerRaises
  <2> QED
    BY <1>0, <1>5, <2>1 DEF TypeOK, HandlerRaises, Places
<1>6. ASSUME NEW w \in Workers, Acknowledge(w) PROVE TypeOK'
  BY <1>0, <1>6 DEF TypeOK, Acknowledge, Places
<1>7. ASSUME NEW w \in Workers, Republish(w) PROVE TypeOK'
  <2>1. held[w] \in Message /\ Consumes[w] \in Queues
    BY <1>7, HeldMessage, ConsumesAssumption DEF Republish
  <2>2. queue' \in [Queues -> Seq(Message)]
    BY <1>0, <1>7, <2>1, RetriedType, EnqueuedGains DEF Republish, Gains
  <2> QED
    BY <1>0, <1>7, <2>2 DEF TypeOK, Republish, Places
<1>8. ASSUME NEW w \in Workers, RepublishFails(w) PROVE TypeOK'
  <2>1. queue' \in [Queues -> Seq(Message)]
    BY <1>0, <1>8, RepublishFailsGains DEF Gains
  <2> QED
    BY <1>0, <1>8, <2>1, MaxFaultsAssumption DEF TypeOK, RepublishFails, Places
<1>9. ASSUME NEW w \in Workers, Discard(w) PROVE TypeOK'
  <2>1. held[w].job \in published
    BY <1>9, HeldMessage DEF Discard
  <2> QED
    BY <1>0, <1>9, <2>1 DEF TypeOK, Discard, Places
<1>10. ASSUME NEW w \in Workers, LoseConnection(w) PROVE TypeOK'
  <2>1. queue' \in [Queues -> Seq(Message)]
    BY <1>0, <1>10, RequeuedGains DEF TypeOK, LoseConnection, Gains
  <2> QED
    BY <1>0, <1>10, <2>1, MaxFaultsAssumption DEF TypeOK, LoseConnection, Places
<1>11. ASSUME NEW w \in Workers, Crash(w) PROVE TypeOK'
  <2>1. queue' \in [Queues -> Seq(Message)]
    BY <1>0, <1>11, RequeuedGains DEF TypeOK, Crash, Gains
  <2> QED
    BY <1>0, <1>11, <2>1, MaxFaultsAssumption DEF TypeOK, Crash, Places
<1>12. CASE UNCHANGED queueVars
  BY <1>0, <1>12 DEF TypeOK, queueVars
<1> QED
  BY <1>1, <1>2, <1>3, <1>4, <1>5, <1>6, <1>7, <1>8, <1>9, <1>10, <1>11, <1>12
     DEF Next, Step, Fault

-----------------------------------------------------------------------------
(* Retries are earned. *)

\* Acceptance and failed attempts are never taken back.
HistoryGrows == /\ published \subseteq published'
                /\ \A j \in Jobs : failedAt[j] \subseteq failedAt'[j]

\* No step takes back acceptance or a failed attempt.
LEMMA StepHistoryGrows == IInv /\ [Next]_queueVars => HistoryGrows
<1> SUFFICES ASSUME IInv, [Next]_queueVars PROVE HistoryGrows
  OBVIOUS
<1> USE DEF historyVars, workerVars, HistoryGrows
<1>1. ASSUME NEW j \in Jobs, Publish(j) PROVE HistoryGrows
  BY <1>1 DEF Publish
<1>2. ASSUME NEW w \in Workers, HandlerReturns(w) PROVE HistoryGrows
  BY <1>2 DEF HandlerReturns
<1>3. ASSUME NEW w \in Workers, HandlerRaises(w) PROVE HistoryGrows
  <2>1. held[w].job \in Jobs
    BY <1>3, HeldMessage DEF HandlerRaises
  <2> QED
    BY <1>3, <2>1 DEF HandlerRaises, IInv, TypeOK
<1>4. ASSUME NEW w \in Workers, Discard(w) PROVE HistoryGrows
  BY <1>4 DEF Discard
<1>5. ASSUME NEW w \in Workers, Connect(w) \/ Deliver(w) \/ Acknowledge(w) \/ Republish(w) \/ Fault(w)
      PROVE  HistoryGrows
  BY <1>5 DEF Connect, Deliver, Acknowledge, Republish, Fault, RepublishFails, LoseConnection, Crash
<1>6. CASE UNCHANGED queueVars
  BY <1>6 DEF queueVars
<1> QED
  BY <1>1, <1>2, <1>3, <1>4, <1>5, <1>6 DEF Next, Step

\* What a message has earned it keeps.
LEMMA EarnedIsKept ==
    ASSUME HistoryGrows, NEW m \in Message, Earned(m)
    PROVE  Earned(m)'
BY DEF HistoryGrows, Earned, Message

\* A step that only moves messages about, or adds earned ones, keeps the invariant.
LEMMA EarnedByParts ==
    ASSUME IInv, TypeOK', HistoryGrows,
           \A q \in Queues : \A m \in Range(queue'[q]) :
               m \in Message /\ (Earned(m) \/ Earned(m)'),
           \A w \in Workers : held'[w] \in {held[w], NoMessage} \/ Earned(held'[w]),
           \A w \in Workers : pc'[w] \in {"failed", "republished"} =>
               held'[w].retry \in failedAt'[held'[w].job]
    PROVE  RetriesAreEarned'
<1>1. ASSUME NEW w \in Workers, held'[w] # NoMessage, NEW m \in Message, m = held'[w]
      PROVE  Earned(m)'
  <2>1. Earned(m)
    BY <1>1 DEF IInv, RetriesAreEarned
  <2> QED
    BY <2>1, EarnedIsKept
<1>2. ASSUME NEW q \in Queues, NEW m \in Range(queue'[q]) PROVE Earned(m)'
  BY EarnedIsKept
<1>3. \A w \in Workers : held'[w] # NoMessage => held'[w] \in Message
  BY DEF TypeOK
<1> QED
  BY <1>1, <1>2, <1>3 DEF RetriesAreEarned, Earned

\* Every step keeps retry counts behind the failed attempts.
LEMMA StepRetriesAreEarned == IInv /\ [Next]_queueVars => RetriesAreEarned'
<1> SUFFICES ASSUME IInv, [Next]_queueVars PROVE RetriesAreEarned'
  OBVIOUS
<1> USE DEF Finish, workerVars, historyVars
<1>a. TypeOK' /\ HistoryGrows
  BY StepTypeOK, StepHistoryGrows
<1>b. /\ TypeOK /\ QueueType
      /\ \A q \in Queues : \A m \in Range(queue[q]) : m \in Message /\ Earned(m)
      /\ \A w \in Workers : pc[w] \in {"failed", "republished"} =>
             held[w].retry \in failedAt[held[w].job]
  <2>1. TypeOK /\ QueueType /\ RetriesAreEarned
    BY DEF IInv, TypeOK, QueueType
  <2>2. \A q \in Queues : queue[q] \in Seq(Message)
    BY <2>1 DEF QueueType
  <2>3. \A q \in Queues : Range(queue[q]) \in SUBSET Message
    BY <2>2, RangeOfSeq
  <2> QED
    BY <2>1, <2>3 DEF RetriesAreEarned
<1>1. ASSUME NEW j \in Jobs, Publish(j) PROVE RetriesAreEarned'
  <2> DEFINE m == [job |-> j, retry |-> 0]
  <2>1. QueueOf[j] \in Queues /\ m \in Message
    BY QueueOfAssumption, MaxRetriesAssumption DEF Message
  <2>2. Gains(queue', QueueOf[j], {m})
    BY <1>b, <1>1, <2>1, EnqueuedGains DEF Publish
  <2>3. Earned(m)'
    BY <1>1 DEF Publish, Earned
  <2>4. \A q \in Queues : \A x \in Range(queue'[q]) : x \in Message /\ (Earned(x) \/ Earned(x)')
    <3> HIDE DEF m
    <3> QED
      BY <1>b, <2>1, <2>2, <2>3 DEF Gains
  <2>5. UNCHANGED <<held, pc, failedAt>>
    BY <1>1 DEF Publish
  <2> QED
    BY <1>a, <1>b, <2>4, <2>5, EarnedByParts
<1>2. ASSUME NEW w \in Workers, Connect(w) PROVE RetriesAreEarned'
  <2>1. UNCHANGED <<queue, held, failedAt>> /\ pc' = [pc EXCEPT ![w] = "idle"]
    BY <1>2 DEF Connect
  <2> QED
    BY <1>a, <1>b, <2>1, EarnedByParts DEF TypeOK
<1>3. ASSUME NEW w \in Workers, Deliver(w) PROVE RetriesAreEarned'
  <2>1. \A r \in Queues : Range(queue[r]) = Range(queue'[r])
                             \union (IF r = Consumes[w] THEN {held'[w]} ELSE {})
    BY <1>b, <1>3, DeliverMoves
  <2>2. Earned(held'[w])
    BY <1>b, <2>1, ConsumesAssumption
  <2>3. /\ pc' = [pc EXCEPT ![w] = "handling"]
        /\ \A v \in Workers : v # w => held'[v] = held[v]
        /\ failedAt' = failedAt
    BY <1>b, <1>3 DEF Deliver, TypeOK
  <2> QED
    BY <1>a, <1>b, <2>1, <2>2, <2>3, EarnedByParts DEF TypeOK
<1>4. ASSUME NEW w \in Workers, HandlerReturns(w) PROVE RetriesAreEarned'
  <2>1. UNCHANGED <<queue, held, failedAt>> /\ pc' = [pc EXCEPT ![w] = "handled"]
    BY <1>4 DEF HandlerReturns
  <2> QED
    BY <1>a, <1>b, <2>1, EarnedByParts DEF TypeOK
<1>5. ASSUME NEW w \in Workers, HandlerRaises(w) PROVE RetriesAreEarned'
  <2>1. /\ UNCHANGED <<queue, held>>
        /\ pc' = [pc EXCEPT ![w] = "failed"]
        /\ failedAt' = [failedAt EXCEPT ![held[w].job] = @ \union {held[w].retry}]
    BY <1>5 DEF HandlerRaises
  <2>2. held[w].job \in Jobs
    BY <1>5, HeldMessage DEF HandlerRaises
  <2>3. ASSUME NEW v \in Workers, pc'[v] \in {"failed", "republished"}
        PROVE  held'[v].retry \in failedAt'[held'[v].job]
    <3>1. CASE v = w
      BY <1>b, <2>1, <2>2, <3>1 DEF TypeOK
    <3>2. CASE v # w
      <4>1. pc[v] \in {"failed", "republished"}
        BY <1>b, <2>1, <2>3, <3>2 DEF TypeOK
      <4>2. held[v].retry \in failedAt[held[v].job] /\ held[v].job \in Jobs
        BY <1>b, <4>1, HeldMessage
      <4> QED
        BY <1>a, <2>1, <4>2 DEF HistoryGrows
    <3> QED
      BY <3>1, <3>2
  <2> QED
    BY <1>a, <1>b, <2>1, <2>3, EarnedByParts
<1>6. ASSUME NEW w \in Workers, Acknowledge(w) \/ Discard(w) PROVE RetriesAreEarned'
  <2>1. /\ UNCHANGED <<queue, failedAt>>
        /\ \A v \in Workers : held'[v] \in {held[v], NoMessage}
        /\ pc' = [pc EXCEPT ![w] = IF open[w] THEN "idle" ELSE "down"]
        /\ \A v \in Workers : v # w => held'[v] = held[v]
    BY <1>b, <1>6 DEF Acknowledge, Discard, TypeOK
  <2>2. \A v \in Workers : pc'[v] \in {"failed", "republished"} =>
            v # w /\ pc'[v] = pc[v]
    BY <1>b, <2>1 DEF TypeOK
  <2> QED
    BY <1>a, <1>b, <2>1, <2>2, EarnedByParts
<1>7. ASSUME NEW w \in Workers, Republish(w) PROVE RetriesAreEarned'
  <2>1. held[w] \in Message /\ Consumes[w] \in Queues /\ Earned(held[w])
    BY <1>7, HeldMessage, ConsumesAssumption DEF Republish, Earned
  <2>2. Retried(held[w]) \in Message /\ Gains(queue', Consumes[w], {Retried(held[w])})
    BY <1>b, <1>7, <2>1, RetriedType, EnqueuedGains DEF Republish
  <2>3. Earned(Retried(held[w]))
    <3>1. held[w].retry \in failedAt[held[w].job] /\ held[w].retry \in Nat
      BY <1>b, <1>7, <2>1 DEF Republish, Message
    <3> QED
      BY <1>7, <2>1, <3>1, RetriedType DEF Republish, Earned
  <2>4. \A q \in Queues : \A x \in Range(queue'[q]) : x \in Message /\ (Earned(x) \/ Earned(x)')
    BY <1>b, <2>1, <2>2, <2>3 DEF Gains
  <2>5. UNCHANGED <<held, failedAt>> /\ pc' = [pc EXCEPT ![w] = "republished"] /\ pc[w] = "failed"
    BY <1>7 DEF Republish
  <2>6. \A v \in Workers : pc'[v] \in {"failed", "republished"} =>
            pc[v] \in {"failed", "republished"}
    BY <1>b, <2>5 DEF TypeOK
  <2> QED
    BY <1>a, <1>b, <2>4, <2>5, <2>6, EarnedByParts
<1>8. ASSUME NEW w \in Workers, RepublishFails(w) PROVE RetriesAreEarned'
  <2>1. held[w] \in Message /\ Consumes[w] \in Queues /\ Earned(held[w])
    BY <1>8, HeldMessage, ConsumesAssumption DEF RepublishFails, Earned
  <2>2. Retried(held[w]) \in Message /\ Earned(Retried(held[w]))
    <3>1. held[w].retry \in failedAt[held[w].job] /\ held[w].retry \in Nat
      BY <1>b, <1>8, <2>1 DEF RepublishFails, Message
    <3> QED
      BY <1>8, <2>1, <3>1, RetriedType DEF RepublishFails, Earned
  <2>3. PICK new \in SUBSET {held[w], Retried(held[w])} : Gains(queue', Consumes[w], new)
    BY <1>b, <1>8, RepublishFailsGains
  <2>4. \A q \in Queues : \A x \in Range(queue'[q]) : x \in Message /\ (Earned(x) \/ Earned(x)')
    BY <1>b, <2>1, <2>2, <2>3 DEF Gains
  <2>5. /\ UNCHANGED failedAt
        /\ pc' = [pc EXCEPT ![w] = IF open[w] THEN "idle" ELSE "down"]
        /\ held' = [held EXCEPT ![w] = NoMessage]
    BY <1>8 DEF RepublishFails
  <2>6. \A v \in Workers : pc'[v] \in {"failed", "republished"} =>
            pc[v] \in {"failed", "republished"} /\ held'[v] = held[v]
    BY <1>b, <2>5 DEF TypeOK
  <2> QED
    BY <1>a, <1>b, <2>4, <2>5, <2>6, EarnedByParts DEF TypeOK
<1>9. ASSUME NEW w \in Workers, LoseConnection(w) \/ Crash(w) PROVE RetriesAreEarned'
  <2>1. \/ queue' = queue
        \/ held[w] \in Message /\ Earned(held[w]) /\ queue' = Requeued(w)
    BY <1>b, <1>9 DEF LoseConnection, Crash, TypeOK, IInv, RetriesAreEarned
  <2>2. \A q \in Queues : \A x \in Range(queue'[q]) : x \in Message /\ (Earned(x) \/ Earned(x)')
    <3>1. CASE queue' = queue
      BY <1>b, <3>1
    <3>2. CASE held[w] \in Message /\ Earned(held[w]) /\ queue' = Requeued(w)
      <4>1. Gains(queue', Consumes[w], {held[w]})
        BY <1>b, <3>2, RequeuedGains
      <4> QED
        BY <1>b, <3>2, <4>1 DEF Gains
    <3> QED
      BY <2>1, <3>1, <3>2
  <2>3. /\ UNCHANGED failedAt
        /\ \A v \in Workers : held'[v] \in {held[v], NoMessage}
        /\ \A v \in Workers : pc'[v] \in {"failed", "republished"} =>
               pc[v] \in {"failed", "republished"} /\ held'[v] = held[v]
    BY <1>b, <1>9 DEF LoseConnection, Crash, TypeOK
  <2> QED
    BY <1>a, <1>b, <2>2, <2>3, EarnedByParts
<1>10. CASE UNCHANGED queueVars
  <2>1. UNCHANGED <<queue, held, pc, failedAt>>
    BY <1>10 DEF queueVars
  <2> QED
    BY <1>a, <1>b, <2>1, EarnedByParts
<1> QED
  BY <1>1, <1>2, <1>3, <1>4, <1>5, <1>6, <1>7, <1>8, <1>9, <1>10 DEF Next, Step, Fault

-----------------------------------------------------------------------------
(* No job is lost. *)

Done(j) == j \in succeeded \union exhausted

\* NoJobLost speaks of each job apart.
Alive(j) == Waiting(j) \/ (\E w \in Workers : Owns(w, j)) \/ Done(j)

\* A queue that only gains messages keeps the jobs that wait in it, and a
\* message among the gains makes its job wait.
LEMMA GainsKeepWaiting ==
    ASSUME NEW q \in Queues, NEW new, Gains(queue', q, new)
    PROVE  /\ \A j : Waiting(j) => Waiting(j)'
           /\ \A m \in new : Waiting(m.job)'
BY DEF Gains, Waiting

\* A job its worker w no longer answers for must be alive for another reason;
\* nothing else changes hands.
LEMMA AliveByParts ==
    ASSUME NEW w \in Workers,
           \A j : Waiting(j) => Waiting(j)' \/ Owns(w, j)' \/ Done(j)',
           \A j : Owns(w, j) => Waiting(j)' \/ Owns(w, j)' \/ Done(j)',
           \A v \in Workers \ {w} : pc'[v] = pc[v] /\ held'[v] = held[v] /\ open'[v] = open[v],
           succeeded \subseteq succeeded', exhausted \subseteq exhausted'
    PROVE  \A j : Alive(j) => Alive(j)'
<1>1. ASSUME NEW j, NEW v \in Workers \ {w}, Owns(v, j) PROVE Owns(v, j)'
  BY <1>1 DEF Owns
<1> QED
  BY <1>1 DEF Alive, Done

\* Every step keeps every accepted job alive.
LEMMA StepNoJobLost == IInv /\ [Next]_queueVars => NoJobLost'
<1> SUFFICES ASSUME IInv, [Next]_queueVars PROVE NoJobLost'
  OBVIOUS
<1> USE DEF Finish, workerVars, historyVars
<1>a. TypeOK /\ QueueType /\ \A j \in published : Alive(j)
  BY DEF IInv, TypeOK, QueueType, NoJobLost, Alive, Done
<1>b. SUFFICES \A j \in published' : Alive(j)'
  BY DEF NoJobLost, Alive, Done
<1>1. ASSUME NEW j \in Jobs, Publish(j) PROVE \A i \in published' : Alive(i)'
  <2> DEFINE m == [job |-> j, retry |-> 0]
  <2>1. QueueOf[j] \in Queues /\ m \in Message
    BY QueueOfAssumption, MaxRetriesAssumption DEF Message
  <2>2. Gains(queue', QueueOf[j], {m})
    BY <1>a, <1>1, <2>1, EnqueuedGains DEF Publish
  <2>3. Waiting(m.job)' /\ \A i : Waiting(i) => Waiting(i)'
    <3> HIDE DEF m
    <3> QED
      BY <2>1, <2>2, GainsKeepWaiting
  <2>4. /\ UNCHANGED <<pc, held, open, succeeded, exhausted>>
        /\ published' = published \union {j}
    BY <1>1 DEF Publish
  <2>5. ASSUME NEW i, NEW v \in Workers, Owns(v, i) PROVE Owns(v, i)'
    BY <2>4, <2>5 DEF Owns
  <2>6. m.job = j
    OBVIOUS
  <2> HIDE DEF m
  <2> QED
    BY <1>a, <2>3, <2>4, <2>5, <2>6 DEF Alive, Done
<1>2. ASSUME NEW w \in Workers, Step(w) \/ Fault(w), \A j : Alive(j) => Alive(j)'
      PROVE  \A i \in published' : Alive(i)'
  <2>1. published' = published
    BY <1>2 DEF Step, Fault, Connect, Deliver, HandlerReturns, HandlerRaises, Acknowledge,
                Republish, Discard, RepublishFails, LoseConnection, Crash
  <2> QED
    BY <1>a, <1>2, <2>1
<1>3. ASSUME NEW w \in Workers, Connect(w) PROVE \A j : Alive(j) => Alive(j)'
  <2>1. /\ UNCHANGED <<queue, held, succeeded, exhausted>>
        /\ pc[w] = "down"
        /\ \A v \in Workers \ {w} : pc'[v] = pc[v] /\ open'[v] = open[v]
    BY <1>a, <1>3 DEF Connect, TypeOK
  <2>2. \A j : (Waiting(j) => Waiting(j)') /\ ~Owns(w, j)
    BY <2>1 DEF Waiting, Owns
  <2> QED
    BY <2>1, <2>2, AliveByParts
<1>4. ASSUME NEW w \in Workers, Deliver(w) PROVE \A j : Alive(j) => Alive(j)'
  <2>1. \A r \in Queues : Range(queue[r]) = Range(queue'[r])
                             \union (IF r = Consumes[w] THEN {held'[w]} ELSE {})
    BY <1>a, <1>4, DeliverMoves
  <2>2. /\ UNCHANGED <<open, succeeded, exhausted>>
        /\ pc[w] = "idle" /\ open[w] /\ pc'[w] = "handling"
        /\ \A v \in Workers \ {w} : pc'[v] = pc[v] /\ held'[v] = held[v]
    BY <1>a, <1>4 DEF Deliver, TypeOK
  <2>3. \A j : Waiting(j) => Waiting(j)' \/ held'[w].job = j
    BY <2>1 DEF Waiting
  <2>4. \A j : ~Owns(w, j) /\ (held'[w].job = j => Owns(w, j)')
    BY <2>2 DEF Owns
  <2> QED
    BY <2>2, <2>3, <2>4, AliveByParts
<1>5. ASSUME NEW w \in Workers, HandlerReturns(w) PROVE \A j : Alive(j) => Alive(j)'
  <2>1. /\ UNCHANGED <<queue, held, open, exhausted>>
        /\ succeeded' = succeeded \union {held[w].job}
        /\ \A v \in Workers \ {w} : pc'[v] = pc[v]
    BY <1>a, <1>5 DEF HandlerReturns, TypeOK
  <2>2. \A j : (Waiting(j) => Waiting(j)') /\ (Owns(w, j) => Done(j)')
    BY <2>1 DEF Waiting, Owns, Done
  <2> QED
    BY <2>1, <2>2, AliveByParts
<1>6. ASSUME NEW w \in Workers, HandlerRaises(w) PROVE \A j : Alive(j) => Alive(j)'
  <2>1. /\ UNCHANGED <<queue, held, open, succeeded, exhausted>>
        /\ pc'[w] = "failed"
        /\ \A v \in Workers \ {w} : pc'[v] = pc[v]
    BY <1>a, <1>6 DEF HandlerRaises, TypeOK
  <2>2. \A j : (Waiting(j) => Waiting(j)') /\ (Owns(w, j) => Owns(w, j)')
    BY <2>1 DEF Waiting, Owns
  <2> QED
    BY <2>1, <2>2, AliveByParts
<1>7. ASSUME NEW w \in Workers, Acknowledge(w) PROVE \A j : Alive(j) => Alive(j)'
  <2>1. /\ UNCHANGED <<queue, open, succeeded, exhausted>>
        /\ pc[w] \in {"handled", "republished"}
        /\ \A v \in Workers \ {w} : pc'[v] = pc[v] /\ held'[v] = held[v]
    BY <1>a, <1>7 DEF Acknowledge, TypeOK
  <2>2. \A j : (Waiting(j) => Waiting(j)') /\ ~Owns(w, j)
    BY <2>1 DEF Waiting, Owns
  <2> QED
    BY <2>1, <2>2, AliveByParts
<1>8. ASSUME NEW w \in Workers, Republish(w) PROVE \A j : Alive(j) => Alive(j)'
  <2>1. held[w] \in Message /\ Consumes[w] \in Queues
    BY <1>8, HeldMessage, ConsumesAssumption DEF Republish
  <2>2. /\ Gains(queue', Consumes[w], {Retried(held[w])})
        /\ Retried(held[w]).job = held[w].job
    BY <1>a, <1>8, <2>1, RetriedType, EnqueuedGains DEF Republish
  <2>3. \A j : (Waiting(j) => Waiting(j)') /\ (Owns(w, j) => Waiting(j)')
    BY <2>1, <2>2, GainsKeepWaiting DEF Owns
  <2>4. /\ UNCHANGED <<held, open, succeeded, exhausted>>
        /\ \A v \in Workers \ {w} : pc'[v] = pc[v]
    BY <1>a, <1>8 DEF Republish, TypeOK
  <2> QED
    BY <2>3, <2>4, AliveByParts
<1>9. ASSUME NEW w \in Workers, RepublishFails(w) PROVE \A j : Alive(j) => Alive(j)'
  <2>1. PICK new \in SUBSET {held[w], Retried(held[w])} :
            (open[w] => held[w] \in new) /\ Gains(queue', Consumes[w], new)
    BY <1>a, <1>9, RepublishFailsGains
  <2>2. \A j : (Waiting(j) => Waiting(j)') /\ (Owns(w, j) => Waiting(j)')
    BY <2>1, GainsKeepWaiting, ConsumesAssumption DEF Owns
  <2>3. /\ UNCHANGED <<open, succeeded, exhausted>>
        /\ \A v \in Workers \ {w} : pc'[v] = pc[v] /\ held'[v] = held[v]
    BY <1>a, <1>9 DEF RepublishFails, TypeOK
  <2> QED
    BY <2>2, <2>3, AliveByParts
<1>10. ASSUME NEW w \in Workers, Discard(w) PROVE \A j : Alive(j) => Alive(j)'
  <2>1. /\ UNCHANGED <<queue, open, succeeded>>
        /\ exhausted' = IF open[w] THEN exhausted \union {held[w].job} ELSE exhausted
        /\ \A v \in Workers \ {w} : pc'[v] = pc[v] /\ held'[v] = held[v]
    BY <1>a, <1>10 DEF Discard, TypeOK
  <2>2. \A j : (Waiting(j) => Waiting(j)') /\ (Owns(w, j) => Done(j)')
    BY <2>1 DEF Waiting, Owns, Done
  <2> QED
    BY <2>1, <2>2, AliveByParts
<1>11. ASSUME NEW w \in Workers, LoseConnection(w) \/ Crash(w) PROVE \A j : Alive(j) => Alive(j)'
  <2>1. \/ queue' = queue /\ \A j : ~Owns(w, j)
        \/ held[w] \in Message /\ queue' = Requeued(w)
    BY <1>a, <1>11 DEF LoseConnection, Crash, TypeOK, Owns
  <2>2. \A j : (Waiting(j) => Waiting(j)') /\ (Owns(w, j) => Waiting(j)')
    <3>1. CASE queue' = queue /\ \A j : ~Owns(w, j)
      BY <3>1 DEF Waiting
    <3>2. CASE held[w] \in Message /\ queue' = Requeued(w)
      <4>1. Gains(queue', Consumes[w], {held[w]})
        BY <1>a, <3>2, RequeuedGains
      <4> QED
        BY <4>1, GainsKeepWaiting, ConsumesAssumption DEF Owns
    <3> QED
      BY <2>1, <3>1, <3>2
  <2>3. /\ UNCHANGED <<succeeded, exhausted>>
        /\ \A v \in Workers \ {w} : pc'[v] = pc[v] /\ held'[v] = held[v] /\ open'[v] = open[v]
    BY <1>a, <1>11 DEF LoseConnection, Crash, TypeOK
  <2> QED
    BY <2>2, <2>3, AliveByParts
<1>12. ASSUME UNCHANGED queueVars PROVE \A i \in published' : Alive(i)'
  BY <1>a, <1>12 DEF queueVars, Alive, Waiting, Owns, Done
<1> QED
  BY <1>1, <1>2, <1>3, <1>4, <1>5, <1>6, <1>7, <1>8, <1>9, <1>10, <1>11, <1>12
     DEF Next, Step, Fault

-----------------------------------------------------------------------------
(* The theorems. *)

\* A drop is recorded only for a message that has failed on every retry.
LEMMA StepExhausted == IInv /\ [Next]_queueVars => ExhaustedAfterEveryRetry'
<1> SUFFICES ASSUME IInv, [Next]_queueVars PROVE ExhaustedAfterEveryRetry'
  OBVIOUS
<1>1. TypeOK' /\ HistoryGrows
  BY StepTypeOK, StepHistoryGrows
<1>2. ASSUME NEW j \in exhausted PROVE failedAt'[j] = 0..MaxRetries
  <2>1. j \in Jobs /\ failedAt[j] = 0..MaxRetries
    BY DEF IInv, TypeOK, ExhaustedAfterEveryRetry
  <2> QED
    BY <1>1, <2>1 DEF HistoryGrows, TypeOK
<1>3. ASSUME NEW w \in Workers, Discard(w) PROVE failedAt'[held[w].job] = 0..MaxRetries
  <2>1. /\ held[w].job \in Jobs
        /\ held[w].retry = MaxRetries
        /\ 0..held[w].retry - 1 \subseteq failedAt[held[w].job]
    BY <1>3, HeldMessage, MaxRetriesAssumption DEF Discard
  <2>2. held[w].retry \in failedAt[held[w].job]
    BY <1>3 DEF Discard, IInv, RetriesAreEarned
  <2>3. 0..MaxRetries \subseteq failedAt[held[w].job]
    BY <2>1, <2>2, MaxRetriesAssumption
  <2>4. failedAt[held[w].job] \subseteq 0..MaxRetries
    BY <2>1 DEF IInv, TypeOK
  <2> QED
    BY <1>3, <2>3, <2>4 DEF Discard
<1>4. \/ exhausted' = exhausted
      \/ \E w \in Workers : Discard(w)
  BY DEF Next, Step, Fault, Publish, Connect, Deliver, HandlerReturns, HandlerRaises, Acknowledge,
         Republish, RepublishFails, LoseConnection, Crash, queueVars, historyVars
<1>5. ASSUME NEW w \in Workers, Discard(w) PROVE exhausted' \subseteq exhausted \union {held[w].job}
  BY <1>5 DEF Discard
<1> QED
  BY <1>2, <1>3, <1>4, <1>5 DEF ExhaustedAfterEveryRetry

\* The strengthened invariant holds throughout.
THEOREM IInvariant == Spec => []IInv
<1>1. IInv /\ [Next]_queueVars => IInv'
  BY StepTypeOK, StepNoJobLost, StepRetriesAreEarned, StepExhausted DEF IInv
<1> QED
  BY <1>1, InitIInv, PTL DEF Spec

\* The queue's variables stay in their types: in particular no copy ever carries
\* a retry count above QUEUE_MAX_RETRIES.
THEOREM TypeInvariant == Spec => []TypeOK
<1>1. IInv => TypeOK
  BY DEF IInv
<1> QED
  BY <1>1, IInvariant, PTL

\* No accepted job disappears, whatever breaks (queue_worker.py, on_message).
THEOREM NoJobIsLost == Spec => []NoJobLost
<1>1. IInv => NoJobLost
  BY DEF IInv
<1> QED
  BY <1>1, IInvariant, PTL

\* The retry count of every copy is backed by failed attempts.
THEOREM RetriesEarned == Spec => []RetriesAreEarned
<1>1. IInv => RetriesAreEarned
  BY DEF IInv
<1> QED
  BY <1>1, IInvariant, PTL

\* A job is discarded only after an attempt failed at every retry number.
THEOREM DiscardIsLastResort == Spec => []ExhaustedAfterEveryRetry
<1>1. IInv => ExhaustedAfterEveryRetry
  BY DEF IInv
<1> QED
  BY <1>1, IInvariant, PTL

-----------------------------------------------------------------------------
(* Messages keep to their queues.                                            *)

OwnQueue(m, q) == QueueOf[m.job] = q

\* Every message is in the queue its job was published to, and a worker holds only
\* messages of the queue it consumes.
InTheirQueues ==
    /\ \A q \in Queues : \A m \in Range(queue[q]) : OwnQueue(m, q)
    /\ \A w \in Workers : held[w] # NoMessage => OwnQueue(held[w], Consumes[w])

\* A step that adds only messages of the right queue, and hands out only those,
\* keeps it so.
LEMMA InTheirQueuesByParts ==
    ASSUME InTheirQueues,
           \A q \in Queues : \A m \in Range(queue'[q]) : m \in Range(queue[q]) \/ OwnQueue(m, q),
           \A w \in Workers : \/ held'[w] \in {held[w], NoMessage}
                              \/ OwnQueue(held'[w], Consumes[w])
    PROVE  InTheirQueues'
BY DEF InTheirQueues, OwnQueue

\* Publishing, requeueing and republishing all keep to the queue of the job.
LEMMA StepInTheirQueues == IInv /\ InTheirQueues /\ [Next]_queueVars => InTheirQueues'
<1> SUFFICES ASSUME IInv, InTheirQueues, [Next]_queueVars PROVE InTheirQueues'
  OBVIOUS
<1> USE DEF Finish, workerVars, historyVars
<1>a. TypeOK /\ QueueType
  BY DEF IInv, TypeOK, QueueType
<1>1. ASSUME NEW j \in Jobs, Publish(j) PROVE InTheirQueues'
  <2> DEFINE m == [job |-> j, retry |-> 0]
  <2>1. QueueOf[j] \in Queues /\ m \in Message /\ OwnQueue(m, QueueOf[j])
    BY QueueOfAssumption, MaxRetriesAssumption DEF Message, OwnQueue
  <2>2. Gains(queue', QueueOf[j], {m})
    BY <1>a, <1>1, <2>1, EnqueuedGains DEF Publish
  <2> HIDE DEF m
  <2>3. held' = held
    BY <1>1 DEF Publish
  <2> QED
    BY <2>1, <2>2, <2>3, InTheirQueuesByParts DEF Gains
<1>2. ASSUME NEW w \in Workers, Deliver(w) PROVE InTheirQueues'
  <2>1. \A r \in Queues : Range(queue[r]) = Range(queue'[r])
                             \union (IF r = Consumes[w] THEN {held'[w]} ELSE {})
    BY <1>a, <1>2, DeliverMoves
  <2>2. Consumes[w] \in Queues
    BY ConsumesAssumption
  <2>3. OwnQueue(held'[w], Consumes[w])
    BY <2>1, <2>2 DEF InTheirQueues
  <2>4. \A v \in Workers : v # w => held'[v] = held[v]
    BY <1>a, <1>2 DEF Deliver, TypeOK
  <2> QED
    BY <2>1, <2>3, <2>4, InTheirQueuesByParts
<1>3. ASSUME NEW w \in Workers, Connect(w) \/ HandlerReturns(w) \/ HandlerRaises(w)
                                \/ Acknowledge(w) \/ Discard(w)
      PROVE  InTheirQueues'
  <2>1. queue' = queue /\ \A v \in Workers : held'[v] \in {held[v], NoMessage}
    BY <1>a, <1>3 DEF Connect, HandlerReturns, HandlerRaises, Acknowledge, Discard, TypeOK
  <2> QED
    BY <2>1, InTheirQueuesByParts
<1>4. ASSUME NEW w \in Workers, NEW new, Gains(queue', Consumes[w], new),
             \A m \in new : m.job = held[w].job, held[w] # NoMessage,
             \A v \in Workers : held'[v] \in {held[v], NoMessage}
      PROVE  InTheirQueues'
  <2>1. \A m \in new : OwnQueue(m, Consumes[w])
    BY <1>4 DEF InTheirQueues, OwnQueue
  <2> QED
    BY <1>4, <2>1, InTheirQueuesByParts DEF Gains
<1>5. ASSUME NEW w \in Workers, Republish(w) PROVE InTheirQueues'
  <2>1. held[w] \in Message /\ Consumes[w] \in Queues /\ held[w] # NoMessage
    BY <1>5, HeldMessage, ConsumesAssumption, NoMessageAssumption DEF Republish
  <2>2. /\ Gains(queue', Consumes[w], {Retried(held[w])})
        /\ Retried(held[w]).job = held[w].job
    BY <1>a, <1>5, <2>1, RetriedType, EnqueuedGains DEF Republish
  <2>3. held' = held
    BY <1>5 DEF Republish
  <2> QED
    BY <1>4, <2>1, <2>2, <2>3
<1>6. ASSUME NEW w \in Workers, RepublishFails(w) PROVE InTheirQueues'
  <2>1. held[w] \in Message /\ held[w] # NoMessage
    BY <1>6, HeldMessage, NoMessageAssumption DEF RepublishFails
  <2>2. Retried(held[w]).job = held[w].job
    BY <1>6, <2>1, RetriedType DEF RepublishFails
  <2>3. PICK new \in SUBSET {held[w], Retried(held[w])} : Gains(queue', Consumes[w], new)
    BY <1>a, <1>6, RepublishFailsGains
  <2>4. \A v \in Workers : held'[v] \in {held[v], NoMessage}
    BY <1>a, <1>6 DEF RepublishFails, TypeOK
  <2> QED
    BY <1>4, <2>1, <2>2, <2>3, <2>4
<1>7. ASSUME NEW w \in Workers, LoseConnection(w) \/ Crash(w) PROVE InTheirQueues'
  <2>1. queue' = queue \/ (held[w] \in Message /\ queue' = Requeued(w))
    BY <1>a, <1>7 DEF LoseConnection, Crash, TypeOK
  <2>2. \A v \in Workers : held'[v] \in {held[v], NoMessage}
    BY <1>a, <1>7 DEF LoseConnection, Crash, TypeOK
  <2>3. CASE queue' = queue
    BY <2>2, <2>3, InTheirQueuesByParts
  <2>4. CASE held[w] \in Message /\ queue' = Requeued(w)
    <3>1. Gains(queue', Consumes[w], {held[w]}) /\ held[w] # NoMessage
      BY <1>a, <2>4, RequeuedGains, NoMessageAssumption
    <3> QED
      BY <1>4, <2>2, <3>1
  <2> QED
    BY <2>1, <2>3, <2>4
<1>8. CASE UNCHANGED queueVars
  BY <1>8, InTheirQueuesByParts DEF queueVars
<1> QED
  BY <1>1, <1>2, <1>3, <1>5, <1>6, <1>7, <1>8 DEF Next, Step, Fault

\* There are no messages at the start.
LEMMA InitInTheirQueues == Init => InTheirQueues
BY DEF Init, InTheirQueues, Range

\* No interleaving of retries and requeues puts a message in another queue, so no
\* worker ever gets a job that is not for it (QueueWorker.queue_name).
THEOREM MessagesKeepToTheirQueues == Spec => []InTheirQueues
BY StepInTheirQueues, InitInTheirQueues, IInvariant, PTL DEF Spec

-----------------------------------------------------------------------------
(* Counting: the copies of a job that are queued or under way.               *)

\* The positions at which the queues Q have a message of job j.
SlotsOf(Q, j) == {p \in UNION {{q} \X DOMAIN Q[q] : q \in Queues} : Q[p[1]][p[2]].job = j}

\* The workers at work on job j.
Hands(j) == {w \in Workers : pc[w] \in {"handling", "failed"} /\ held[w].job = j}

\* What one message and one worker count for.
Copy(m, j) == IF m.job = j THEN 1 ELSE 0
Hand(w, j) == IF w \in Hands(j) THEN 1 ELSE 0

\* Whether an execution of j is still owed.
Due(j) == IF j \in published \ (succeeded \union exhausted) THEN 1 ELSE 0

\* What it is to be such a position, and there are finitely many.
LEMMA SlotFacts ==
    ASSUME NEW Q \in [Queues -> Seq(Message)], NEW j
    PROVE  /\ IsFiniteSet(SlotsOf(Q, j))
           /\ Cardinality(SlotsOf(Q, j)) \in Nat
           /\ \A q \in Queues : \A i \in 1..Len(Q[q]) :
                  Q[q][i].job = j => <<q, i>> \in SlotsOf(Q, j)
           /\ \A p \in SlotsOf(Q, j) : /\ p[1] \in Queues
                                       /\ p[2] \in 1..Len(Q[p[1]])
                                       /\ p = <<p[1], p[2]>>
                                       /\ Q[p[1]][p[2]].job = j
<1> DEFINE Parts == {{q} \X DOMAIN Q[q] : q \in Queues}
<1>1. \A q \in Queues : DOMAIN Q[q] = 1..Len(Q[q]) /\ Len(Q[q]) \in Nat
  BY LenProperties
<1>2. \A q \in Queues : IsFiniteSet({q} \X DOMAIN Q[q])
  <2> SUFFICES ASSUME NEW q \in Queues PROVE IsFiniteSet({q} \X DOMAIN Q[q])
    OBVIOUS
  <2>1. IsFiniteSet({q})
    BY FS_Singleton
  <2>2. IsFiniteSet(1..Len(Q[q]))
    <3>1. 1 \in Int /\ Len(Q[q]) \in Int
      BY <1>1
    <3> QED
      BY <3>1, FS_Interval
  <2> QED
    BY <1>1, <2>1, <2>2, FS_Product
<1>3. IsFiniteSet(Parts)
  <2> DEFINE f == [q \in Queues |-> {q} \X DOMAIN Q[q]]
  <2>1. f \in Surjection(Queues, Parts)
    BY DEF Surjection
  <2> QED
    BY <2>1, FS_Surjection, FinitenessAssumption
<1>4. IsFiniteSet(UNION Parts)
  BY <1>2, <1>3, FS_UNION
<1>5. SlotsOf(Q, j) \in SUBSET (UNION Parts)
  BY DEF SlotsOf
<1>6. IsFiniteSet(SlotsOf(Q, j)) /\ Cardinality(SlotsOf(Q, j)) \in Nat
  BY <1>4, <1>5, FS_Subset, FS_CardinalityType
<1>7. ASSUME NEW q \in Queues, NEW i \in 1..Len(Q[q]), Q[q][i].job = j
      PROVE  <<q, i>> \in SlotsOf(Q, j)
  <2>1. <<q, i>> \in {q} \X DOMAIN Q[q]
    BY <1>1
  <2> QED
    BY <1>7, <2>1 DEF SlotsOf
<1>8. ASSUME NEW p \in SlotsOf(Q, j)
      PROVE  /\ p[1] \in Queues
             /\ p[2] \in 1..Len(Q[p[1]])
             /\ p = <<p[1], p[2]>>
             /\ Q[p[1]][p[2]].job = j
  <2>1. Q[p[1]][p[2]].job = j
    BY <1>8 DEF SlotsOf
  <2>2. PICK q \in Queues : p \in {q} \X DOMAIN Q[q]
    BY <1>8 DEF SlotsOf
  <2>3. p[1] = q /\ p[2] \in DOMAIN Q[q] /\ p = <<p[1], p[2]>>
    BY <2>2
  <2> QED
    BY <1>1, <2>1, <2>3
<1> QED
  BY <1>6, <1>7, <1>8

\* The same of one position.
LEMMA SlotIs ==
    ASSUME NEW Q \in [Queues -> Seq(Message)], NEW j, NEW p \in SlotsOf(Q, j)
    PROVE  /\ p[1] \in Queues
           /\ p[2] \in 1..Len(Q[p[1]])
           /\ p = <<p[1], p[2]>>
           /\ Q[p[1]][p[2]].job = j
BY SlotFacts

\* R holds the messages of Q and m besides.
Adds(Q, R, m) == \A j : Cardinality(SlotsOf(R, j)) = Cardinality(SlotsOf(Q, j)) + Copy(m, j)

\* R is Q with m put at the head of queue q.
Consed(Q, R, q, m) ==
    /\ Len(R[q]) = Len(Q[q]) + 1
    /\ R[q][1] = m
    /\ \A i \in 1..Len(Q[q]) : R[q][i + 1] = Q[q][i]
    /\ \A r \in Queues \ {q} : R[r] = Q[r]

\* A message put at the head counts for its job and moves all the others up.
LEMMA SlotsConsed ==
    ASSUME NEW Q \in [Queues -> Seq(Message)], NEW R \in [Queues -> Seq(Message)],
           NEW q \in Queues, NEW m \in Message, Consed(Q, R, q, m)
    PROVE  Adds(Q, R, m)
<1> SUFFICES ASSUME NEW j
             PROVE  Cardinality(SlotsOf(R, j)) = Cardinality(SlotsOf(Q, j)) + Copy(m, j)
  BY DEF Adds
<1> DEFINE S == SlotsOf(Q, j)
           T == SlotsOf(R, j) \ {<<q, 1>>}
           f == [p \in S |-> IF p[1] = q THEN <<q, p[2] + 1>> ELSE p]
<1>a. \A p \in SlotsOf(Q, j) : /\ p[1] \in Queues /\ p[2] \in 1..Len(Q[p[1]])
                               /\ p = <<p[1], p[2]>> /\ Q[p[1]][p[2]].job = j
  BY SlotIs
<1>b. \A p \in SlotsOf(R, j) : /\ p[1] \in Queues /\ p[2] \in 1..Len(R[p[1]])
                               /\ p = <<p[1], p[2]>> /\ R[p[1]][p[2]].job = j
  BY SlotIs
<1>1. \A r \in Queues : Len(Q[r]) \in Nat /\ Len(R[r]) \in Nat
  BY LenProperties
<1>2. \A p \in S : f[p] \in T
  <2> SUFFICES ASSUME NEW p \in S PROVE f[p] \in T
    OBVIOUS
  <2>1. /\ p[1] \in Queues /\ p[2] \in 1..Len(Q[p[1]])
        /\ p = <<p[1], p[2]>> /\ Q[p[1]][p[2]].job = j
    BY <1>a
  <2>2. CASE p[1] = q
    <3>1. /\ p[2] + 1 \in 1..Len(R[q]) /\ p[2] + 1 # 1
          /\ R[q][p[2] + 1].job = j
      BY <1>1, <2>1, <2>2 DEF Consed
    <3>2. <<q, p[2] + 1>> \in SlotsOf(R, j)
      BY <3>1, SlotFacts
    <3> QED
      BY <2>2, <3>1, <3>2
  <2>3. CASE p[1] # q
    <3>1. p[2] \in 1..Len(R[p[1]]) /\ R[p[1]][p[2]].job = j
      BY <2>1, <2>3 DEF Consed
    <3>2. <<p[1], p[2]>> \in SlotsOf(R, j)
      BY <2>1, <3>1, SlotFacts
    <3>3. p \in SlotsOf(R, j)
      BY <2>1, <3>2
    <3>5. p # <<q, 1>>
      BY <2>3
    <3>4. f[p] = p
      BY <2>3
    <3> QED
      BY <3>3, <3>4, <3>5
  <2> QED
    BY <2>2, <2>3
<1>3. \A p, o \in S : f[p] = f[o] => p = o
  <2> SUFFICES ASSUME NEW p \in S, NEW o \in S, f[p] = f[o] PROVE p = o
    OBVIOUS
  <2>1. /\ p = <<p[1], p[2]>> /\ o = <<o[1], o[2]>>
        /\ p[1] \in Queues /\ o[1] \in Queues
        /\ p[2] \in 1..Len(Q[p[1]]) /\ o[2] \in 1..Len(Q[o[1]])
    BY <1>a
  <2>2. p[2] \in Nat /\ o[2] \in Nat
    BY <1>1, <2>1
  <2>3. f[p][1] = p[1] /\ f[o][1] = o[1]
    BY <2>1
  <2>4. p[1] = o[1]
    BY <2>3
  <2>5. p[2] = o[2]
    BY <2>1, <2>2, <2>4
  <2> QED
    BY <2>1, <2>4, <2>5
<1>4. \A o \in T : \E p \in S : f[p] = o
  <2> SUFFICES ASSUME NEW o \in T PROVE \E p \in S : f[p] = o
    OBVIOUS
  <2>1. /\ o[1] \in Queues /\ o[2] \in 1..Len(R[o[1]])
        /\ o = <<o[1], o[2]>> /\ R[o[1]][o[2]].job = j /\ o # <<q, 1>>
    BY <1>b
  <2>2. CASE o[1] = q
    <3> DEFINE i == o[2] - 1
    <3>1. i \in 1..Len(Q[q]) /\ i + 1 = o[2]
      BY <1>1, <2>1, <2>2 DEF Consed
    <3>2. Q[q][i].job = j
      BY <2>1, <2>2, <3>1 DEF Consed
    <3> HIDE DEF i
    <3>3. <<q, i>> \in S
      BY <3>1, <3>2, SlotFacts
    <3>4. f[<<q, i>>] = <<q, i + 1>>
      BY <3>3
    <3> QED
      BY <2>1, <2>2, <3>1, <3>3, <3>4
  <2>3. CASE o[1] # q
    <3>1. o[2] \in 1..Len(Q[o[1]]) /\ Q[o[1]][o[2]].job = j
      BY <2>1, <2>3 DEF Consed
    <3>2. <<o[1], o[2]>> \in S
      BY <2>1, <3>1, SlotFacts
    <3>3. o \in S
      BY <2>1, <3>2
    <3>4. f[o] = o
      BY <2>3, <3>3
    <3> QED
      BY <3>3, <3>4
  <2> QED
    BY <2>2, <2>3
<1>5. f \in Bijection(S, T)
  <2>1. f \in [S -> T]
    BY <1>2
  <2> QED
    BY <1>3, <1>4, <2>1 DEF Bijection, Injection, Surjection, IsInjective
<1>6. IsFiniteSet(S) /\ IsFiniteSet(SlotsOf(R, j))
  BY SlotFacts
<1>7. Cardinality(T) = Cardinality(S)
  BY <1>5, <1>6, FS_Bijection DEF ExistsBijection
<1>8. <<q, 1>> \in SlotsOf(R, j) <=> m.job = j
  <2>1. 1 \in 1..Len(R[q]) /\ R[q][1] = m
    BY <1>1 DEF Consed
  <2>2. m.job = j => <<q, 1>> \in SlotsOf(R, j)
    BY <2>1, SlotFacts
  <2>3. <<q, 1>> \in SlotsOf(R, j) => m.job = j
    BY <2>1, <1>b
  <2> QED
    BY <2>2, <2>3
<1>9. Cardinality(T) = IF <<q, 1>> \in SlotsOf(R, j) THEN Cardinality(SlotsOf(R, j)) - 1
                       ELSE Cardinality(SlotsOf(R, j))
  BY <1>6, FS_RemoveElement
<1>10. Cardinality(SlotsOf(R, j)) \in Nat /\ Cardinality(S) \in Nat
  BY SlotFacts
<1> HIDE DEF S, T
<1> QED
  BY <1>7, <1>8, <1>9, <1>10 DEF Copy, S

\* A message put at the end counts for its job and leaves the others in place.
LEMMA SlotsAppended ==
    ASSUME NEW Q \in [Queues -> Seq(Message)], NEW q \in Queues, NEW m \in Message
    PROVE  LET R == [Q EXCEPT ![q] = Append(@, m)]
           IN  R \in [Queues -> Seq(Message)] /\ Adds(Q, R, m)
<1> SUFFICES ASSUME NEW j
             PROVE  LET R == [Q EXCEPT ![q] = Append(@, m)]
                    IN  /\ R \in [Queues -> Seq(Message)]
                        /\ Cardinality(SlotsOf(R, j)) = Cardinality(SlotsOf(Q, j)) + Copy(m, j)
  BY DEF Adds
<1> DEFINE s == Q[q]
           R == [Q EXCEPT ![q] = Append(@, m)]
           n == <<q, Len(s) + 1>>
<1>1. s \in Seq(Message)
  OBVIOUS
<1>2. /\ Append(s, m) \in Seq(Message)
      /\ Len(Append(s, m)) = Len(s) + 1
      /\ \A i \in 1..Len(s) : Append(s, m)[i] = s[i]
      /\ Append(s, m)[Len(s) + 1] = m
      /\ Len(s) \in Nat
  BY <1>1, AppendProperties, LenProperties
<1>3. /\ R \in [Queues -> Seq(Message)]
      /\ R[q] = Append(s, m)
      /\ \A r \in Queues \ {q} : R[r] = Q[r]
  BY <1>2
<1>4. \A r \in Queues : Len(Q[r]) \in Nat
  BY LenProperties
<1> HIDE DEF s, R
<1>5. s = Q[q]
  BY DEF s
<1>6. n \notin SlotsOf(Q, j)
  <2> SUFFICES ASSUME n \in SlotsOf(Q, j) PROVE FALSE
    OBVIOUS
  <2>1. n[1] = q /\ n[2] = Len(s) + 1
    OBVIOUS
  <2>2. n[2] \in 1..Len(Q[n[1]])
    BY SlotFacts
  <2> QED
    BY <1>2, <1>5, <2>1, <2>2
<1>7. ASSUME NEW p \in SlotsOf(Q, j) PROVE p \in SlotsOf(R, j)
  <2>1. /\ p[1] \in Queues /\ p[2] \in 1..Len(Q[p[1]])
        /\ p = <<p[1], p[2]>> /\ Q[p[1]][p[2]].job = j
    BY SlotFacts
  <2>2. p[2] \in 1..Len(R[p[1]]) /\ R[p[1]][p[2]].job = j
    <3>1. CASE p[1] = q
      BY <1>2, <1>3, <1>5, <2>1, <3>1
    <3>2. CASE p[1] # q
      BY <1>3, <2>1, <3>2
    <3> QED
      BY <3>1, <3>2
  <2>3. <<p[1], p[2]>> \in SlotsOf(R, j)
    BY <1>3, <2>1, <2>2, SlotFacts
  <2> QED
    BY <2>1, <2>3
<1>8. ASSUME NEW p \in SlotsOf(R, j) PROVE p \in SlotsOf(Q, j) \/ (p = n /\ m.job = j)
  <2>1. /\ p[1] \in Queues /\ p[2] \in 1..Len(R[p[1]])
        /\ p = <<p[1], p[2]>> /\ R[p[1]][p[2]].job = j
    BY <1>3, SlotFacts
  <2>2. CASE p[1] = q /\ p[2] = Len(s) + 1
    BY <1>2, <1>3, <2>1, <2>2
  <2>3. CASE ~(p[1] = q /\ p[2] = Len(s) + 1)
    <3>1. p[2] \in 1..Len(Q[p[1]]) /\ Q[p[1]][p[2]].job = j
      BY <1>2, <1>3, <1>4, <1>5, <2>1, <2>3
    <3> QED
      BY <2>1, <3>1, SlotFacts
  <2> QED
    BY <2>2, <2>3
<1>9. m.job = j => n \in SlotsOf(R, j)
  <2>1. Len(s) + 1 \in 1..Len(R[q]) /\ R[q][Len(s) + 1] = m
    BY <1>2, <1>3
  <2> QED
    BY <1>3, <2>1, SlotFacts
<1>10. SlotsOf(R, j) = IF m.job = j THEN SlotsOf(Q, j) \union {n} ELSE SlotsOf(Q, j)
  BY <1>7, <1>8, <1>9
<1>11. IsFiniteSet(SlotsOf(Q, j)) /\ Cardinality(SlotsOf(Q, j)) \in Nat
  BY SlotFacts
<1>12. Cardinality(SlotsOf(Q, j) \union {n}) = Cardinality(SlotsOf(Q, j)) + 1
  BY <1>6, <1>11, FS_AddElement
<1>13. Cardinality(SlotsOf(R, j)) = Cardinality(SlotsOf(Q, j)) + Copy(m, j)
  BY <1>10, <1>11, <1>12 DEF Copy
<1> QED
  BY <1>3, <1>13 DEF R

\* One worker changes hands: it counts for j before, after, both or neither.
LEMMA HandsChange ==
    ASSUME NEW w \in Workers, NEW j,
           \A v \in Workers \ {w} : pc'[v] = pc[v] /\ held'[v] = held[v]
    PROVE  /\ Cardinality(Hands(j)) \in Nat
           /\ Cardinality(Hands(j)') = Cardinality(Hands(j)) - Hand(w, j) + Hand(w, j)'
<1> DEFINE H == Hands(j)
           G == Hands(j)'
           rest == H \ {w}
<1>1. IsFiniteSet(H)
  <2>1. H \in SUBSET Workers
    BY DEF Hands
  <2> QED
    BY <2>1, FS_Subset, FinitenessAssumption
<1>2. G \ {w} = rest
  BY DEF Hands
<1>3. G = IF w \in G THEN rest \union {w} ELSE rest
  BY <1>2
<1>4. IsFiniteSet(rest) /\ Cardinality(rest) = Cardinality(H) - Hand(w, j)
  <2>1. /\ IsFiniteSet(H \ {w})
        /\ Cardinality(H \ {w}) = IF w \in H THEN Cardinality(H) - 1 ELSE Cardinality(H)
    BY <1>1, FS_RemoveElement
  <2>2. Cardinality(H) \in Nat
    BY <1>1, FS_CardinalityType
  <2>3. Hand(w, j) = IF w \in H THEN 1 ELSE 0
    BY DEF Hand
  <2> HIDE DEF H
  <2> QED
    BY <2>1, <2>2, <2>3
<1>5. Cardinality(rest \union {w}) = Cardinality(rest) + 1
  <2>1. w \notin rest
    OBVIOUS
  <2> HIDE DEF rest
  <2> QED
    BY <1>4, <2>1, FS_AddElement
<1>6. Cardinality(H) \in Nat /\ Cardinality(rest) \in Nat
  BY <1>1, <1>4, FS_CardinalityType
<1> HIDE DEF H, G, rest
<1>7. Cardinality(G) = Cardinality(rest) + Hand(w, j)'
  <2>1. CASE w \in G
    <3>1. G = rest \union {w} /\ Hand(w, j)' = 1
      BY <1>3, <2>1 DEF Hand, G
    <3> QED
      BY <1>5, <3>1
  <2>2. CASE w \notin G
    <3>1. G = rest /\ Hand(w, j)' = 0
      BY <1>3, <2>2 DEF Hand, G
    <3> QED
      BY <1>6, <3>1
  <2> QED
    BY <2>1, <2>2
<1>8. Cardinality(G) = Cardinality(H) - Hand(w, j) + Hand(w, j)'
  BY <1>4, <1>7
<1> QED
  BY <1>6, <1>8 DEF H, G

\* DuplicatesNeedFaults with its two counts named.
Paid(j) == Cardinality(SlotsOf(queue, j)) + Cardinality(Hands(j)) <= faults + Due(j)

\* A step of worker w that puts at most more copies of j into the queues and counts
\* cost faults, as far as j is concerned.
Costs(w, j, more, cost) ==
    /\ \A v \in Workers \ {w} : pc'[v] = pc[v] /\ held'[v] = held[v]
    /\ Cardinality(SlotsOf(queue', j)) <= Cardinality(SlotsOf(queue, j)) + more
    /\ faults' = faults + cost
    /\ more + Hand(w, j)' - Hand(w, j) <= cost + Due(j)' - Due(j)

\* It is enough to say how much the step of one worker w adds to each count.
LEMMA PaidByParts ==
    ASSUME TypeOK, TypeOK', NEW w \in Workers, NEW j, Paid(j),
           NEW more \in Int, NEW cost \in Int, Costs(w, j, more, cost)
    PROVE  Paid(j)'
<1>1. /\ queue \in [Queues -> Seq(Message)] /\ queue' \in [Queues -> Seq(Message)]
      /\ faults \in Nat /\ faults' \in Nat
  BY MaxFaultsAssumption DEF TypeOK
<1>2. Cardinality(SlotsOf(queue, j)) \in Nat /\ Cardinality(SlotsOf(queue', j)) \in Nat
  BY <1>1, SlotFacts
<1>3. /\ Cardinality(Hands(j)) \in Nat
      /\ Cardinality(Hands(j)') = Cardinality(Hands(j)) - Hand(w, j) + Hand(w, j)'
  BY HandsChange DEF Costs
<1> DEFINE s == Cardinality(SlotsOf(queue, j))
           t == Cardinality(SlotsOf(queue', j))
           h == Cardinality(Hands(j))
           g == Cardinality(Hands(j)')
           x == Hand(w, j)
           y == Hand(w, j)'
           d == Due(j)
           e == Due(j)'
<1>4. x \in Int /\ y \in Int /\ d \in Int /\ e \in Int
  BY DEF Hand, Due
<1>5. s + h <= faults + d
  BY DEF Paid
<1> HIDE DEF s, t, h, g, x, y, d, e
<1>6. s \in Nat /\ t \in Nat /\ h \in Nat /\ g = h - x + y /\ t <= s + more
  BY <1>2, <1>3 DEF s, t, h, g, x, y, Costs
<1>7. more + y - x <= cost + e - d /\ faults' = faults + cost
  BY DEF x, y, d, e, Costs
<1>8. t + g <= faults' + e
  BY <1>1, <1>4, <1>5, <1>6, <1>7
<1> QED
  BY <1>8 DEF t, g, e, Paid

\* What each change of the queue of worker w adds.
LEMMA StepAdds ==
    ASSUME TypeOK, NEW w \in Workers
    PROVE  /\ Consumes[w] \in Queues
           /\ \A q \in Queues : \A m \in Message : Adds(queue, Enqueued(q, m), m)
           /\ held[w] \in Message => Adds(queue, Requeued(w), held[w])
<1> DEFINE q == Consumes[w]
<1>1. q \in Queues /\ queue \in [Queues -> Seq(Message)] /\ queue[q] \in Seq(Message)
  BY ConsumesAssumption DEF TypeOK
<1>2. \A r \in Queues : \A m \in Message : Adds(queue, Enqueued(r, m), m)
  BY <1>1, SlotsAppended DEF Enqueued
<1>3. ASSUME held[w] \in Message PROVE Adds(queue, Requeued(w), held[w])
  <2> DEFINE R == Requeued(w)
  <2>1. R \in [Queues -> Seq(Message)] /\ R[q] = <<held[w]>> \o queue[q]
    BY <1>1, <1>3, RangeCons DEF Requeued
  <2>2. Consed(queue, R, q, held[w])
    BY <1>1, <1>3, <2>1, ConcatProperties, LenProperties DEF Consed, Requeued
  <2> HIDE DEF R
  <2>3. Adds(queue, R, held[w])
    BY <1>1, <1>3, <2>1, <2>2, SlotsConsed
  <2> QED
    BY <2>3 DEF R
<1> QED
  BY <1>1, <1>2, <1>3

\* A delivery takes one copy out of the queue.
LEMMA DeliveryAdds ==
    ASSUME TypeOK, NEW w \in Workers, Deliver(w)
    PROVE  Adds(queue', queue, held'[w])
<1> DEFINE q == Consumes[w]
           s == queue[q]
<1>1. /\ q \in Queues /\ queue \in [Queues -> Seq(Message)]
      /\ s \in Seq(Message) /\ s # <<>>
  BY ConsumesAssumption DEF TypeOK, Deliver
<1>2. /\ queue' \in [Queues -> Seq(Message)]
      /\ held'[w] \in Message
      /\ held'[w] = Head(s)
      /\ queue' = [queue EXCEPT ![q] = Tail(s)]
  BY <1>1, DeliverMoves DEF Deliver, TypeOK
<1> HIDE DEF q, s
<1>3. /\ Len(s) \in Nat \ {0}
      /\ Head(s) = s[1]
      /\ Len(Tail(s)) = Len(s) - 1
      /\ \A i \in 1..Len(Tail(s)) : Tail(s)[i] = s[i + 1]
  BY <1>1, HeadTailProperties, EmptySeq, LenProperties
<1>4. Consed(queue', queue, q, held'[w])
  <2>1. queue[q] = s /\ queue'[q] = Tail(s) /\ \A r \in Queues \ {q} : queue'[r] = queue[r]
    BY <1>1, <1>2 DEF s
  <2> QED
    BY <1>2, <1>3, <2>1 DEF Consed
<1> QED
  BY <1>1, <1>2, <1>4, SlotsConsed

\* A failed republish puts back at most the delivery and its copy.
LEMMA SlotsOfRepublishFails ==
    ASSUME TypeOK, NEW w \in Workers, NEW j, RepublishFails(w)
    PROVE  Cardinality(SlotsOf(queue', j)) <= Cardinality(SlotsOf(queue, j)) + 2 * Copy(held[w], j)
<1> DEFINE q == Consumes[w]
           s == queue[q]
           h == held[w]
           c == Retried(h)
<1>1. /\ q \in Queues /\ queue \in [Queues -> Seq(Message)] /\ s \in Seq(Message)
      /\ h \in Message /\ c \in Message /\ c.job = h.job
  BY ConsumesAssumption, RepublishFailsGains, RetriedType DEF TypeOK, RepublishFails
<1>2. PICK reached \in BOOLEAN :
        queue' = [queue EXCEPT ![q] = (IF open[w] THEN <<h>> ELSE <<>>) \o @
                                        \o (IF reached THEN <<c>> ELSE <<>>)]
  BY DEF RepublishFails
<1> HIDE DEF q, s, h, c
<1> DEFINE middle == IF open[w] THEN <<h>> \o s ELSE s
           M == [queue EXCEPT ![q] = middle]
<1>3. middle \in Seq(Message) /\ M \in [Queues -> Seq(Message)] /\ M[q] = middle
  <2>1. <<h>> \o s \in Seq(Message)
    BY <1>1, RangeCons
  <2> QED
    BY <1>1, <2>1
<1>4. queue' = IF reached THEN [M EXCEPT ![q] = Append(@, c)] ELSE M
  <2>1. queue[q] = s
    BY DEF s
  <2>2. (IF open[w] THEN <<h>> ELSE <<>>) \o s = middle
    BY <1>1
  <2>3. middle \o <<c>> = Append(middle, c) /\ middle \o <<>> = middle
    BY <1>1, <1>3, AppendIsConcat, ConcatEmptySeq
  <2> QED
    BY <1>1, <1>2, <1>3, <2>1, <2>2, <2>3
<1>5. M = queue \/ Adds(queue, M, h)
  <2>1. CASE open[w]
    <3>1. M = Requeued(w)
      BY <2>1 DEF Requeued, q, s, h
    <3>2. held[w] \in Message
      BY <1>1 DEF h
    <3>3. Adds(queue, Requeued(w), held[w])
      BY <3>2, StepAdds
    <3> QED
      BY <3>1, <3>3 DEF h
  <2>2. CASE ~open[w]
    BY <1>1, <2>2 DEF s
  <2> QED
    BY <2>1, <2>2
<1> HIDE DEF M, middle
<1>6. queue' = M \/ Adds(M, queue', c)
  BY <1>1, <1>3, <1>4, SlotsAppended
<1>7. /\ Cardinality(SlotsOf(queue, j)) \in Nat /\ Cardinality(SlotsOf(M, j)) \in Nat
      /\ Copy(h, j) \in Nat /\ Copy(c, j) = Copy(h, j)
  BY <1>1, <1>3, SlotFacts DEF Copy
<1>8. Cardinality(SlotsOf(queue', j)) \in Nat
  BY <1>1, <1>3, <1>4, SlotFacts, SlotsAppended
<1>9. Cardinality(SlotsOf(M, j)) <= Cardinality(SlotsOf(queue, j)) + Copy(h, j)
  BY <1>5, <1>7 DEF Adds
<1>10. Cardinality(SlotsOf(queue', j)) <= Cardinality(SlotsOf(M, j)) + Copy(h, j)
  BY <1>6, <1>7, <1>8 DEF Adds
<1>11. Cardinality(SlotsOf(queue', j)) <= Cardinality(SlotsOf(queue, j)) + 2 * Copy(h, j)
  BY <1>7, <1>8, <1>9, <1>10
<1> QED
  BY <1>11 DEF h

\* Every step pays for the copies it adds.
LEMMA StepPaid == IInv /\ (\A j \in Jobs : Paid(j)) /\ [Next]_queueVars => \A j \in Jobs : Paid(j)'
<1> SUFFICES ASSUME IInv, [Next]_queueVars, NEW j \in Jobs, Paid(j) PROVE Paid(j)'
  OBVIOUS
<1> USE DEF Finish, workerVars, historyVars
<1>a. TypeOK /\ TypeOK' /\ faults \in Nat /\ faults' \in Nat
  BY StepTypeOK, MaxFaultsAssumption DEF IInv, TypeOK
<1>b. /\ queue \in [Queues -> Seq(Message)] /\ queue' \in [Queues -> Seq(Message)]
      /\ Cardinality(SlotsOf(queue, j)) \in Nat
      /\ Cardinality(SlotsOf(queue', j)) \in Nat
  <2>1. queue \in [Queues -> Seq(Message)] /\ queue' \in [Queues -> Seq(Message)]
    BY <1>a DEF TypeOK
  <2> QED
    BY <2>1, SlotFacts
<1>1. ASSUME NEW i \in Jobs, Publish(i) PROVE Paid(j)'
  <2> DEFINE m == [job |-> i, retry |-> 0]
  <2>1. QueueOf[i] \in Queues /\ m \in Message /\ m.job = i
    BY QueueOfAssumption, MaxRetriesAssumption DEF Message
  <2>2. queue' = Enqueued(QueueOf[i], m)
    BY <1>1 DEF Publish
  <2> HIDE DEF m
  <2>3. Adds(queue, queue', m)
    BY <1>b, <2>1, <2>2, SlotsAppended DEF Enqueued
  <2>4. /\ Hands(j)' = Hands(j) /\ faults' = faults
        /\ Due(j)' = IF i = j THEN Due(j) + 1 ELSE Due(j)
    BY <1>1, <1>a DEF Publish, Hands, Due, TypeOK
  <2>5. Copy(m, j) = IF i = j THEN 1 ELSE 0
    BY <2>1 DEF Copy
  <2>6. Cardinality(Hands(j)) \in Nat /\ Due(j) \in Nat
    <3>1. Hands(j) \in SUBSET Workers
      BY DEF Hands
    <3> QED
      BY <3>1, FinitenessAssumption, FS_Subset, FS_CardinalityType DEF Due
  <2>7. Cardinality(SlotsOf(queue', j)) = Cardinality(SlotsOf(queue, j)) + Copy(m, j)
    BY <2>3 DEF Adds
  <2> QED
    BY <1>a, <1>b, <2>4, <2>5, <2>6, <2>7 DEF Paid
<1>2. ASSUME NEW w \in Workers, Connect(w) \/ Acknowledge(w) PROVE Paid(j)'
  <2>1. /\ queue' = queue /\ faults' = faults + 0
        /\ Due(j)' = Due(j)
        /\ \A v \in Workers \ {w} : pc'[v] = pc[v] /\ held'[v] = held[v]
    BY <1>2, <1>a DEF Connect, Acknowledge, TypeOK, Due
  <2>2. Hand(w, j) = 0 /\ Hand(w, j)' = 0
    BY <1>2, <1>a DEF Connect, Acknowledge, TypeOK, Hand, Hands
  <2>3. 0 + Hand(w, j)' - Hand(w, j) <= 0 + Due(j)' - Due(j)
    BY <2>1, <2>2 DEF Due
  <2>4. Costs(w, j, 0, 0)
    BY <1>b, <2>1, <2>3 DEF Costs
  <2> QED
    BY <1>a, <2>4, PaidByParts
<1>3. ASSUME NEW w \in Workers, Deliver(w) PROVE Paid(j)'
  <2>1. /\ faults' = faults + 0
        /\ Due(j)' = Due(j)
        /\ \A v \in Workers \ {w} : pc'[v] = pc[v] /\ held'[v] = held[v]
    BY <1>3, <1>a DEF Deliver, TypeOK, Due
  <2>2. Hand(w, j) = 0 /\ Hand(w, j)' = Copy(held'[w], j)
    BY <1>3, <1>a DEF Deliver, TypeOK, Hand, Hands, Copy
  <2>3. Cardinality(SlotsOf(queue, j)) = Cardinality(SlotsOf(queue', j)) + Copy(held'[w], j)
    BY <1>a, <1>3, DeliveryAdds DEF Adds
  <2> DEFINE c == Copy(held'[w], j)
             more == 0 - c
  <2>4. c \in Int /\ more \in Int
    BY DEF Copy
  <2>5. more + Hand(w, j)' - Hand(w, j) <= 0 + Due(j)' - Due(j)
    BY <2>1, <2>2, <2>4 DEF Due
  <2>6. Cardinality(SlotsOf(queue', j)) <= Cardinality(SlotsOf(queue, j)) + more
    BY <1>b, <2>3, <2>4
  <2> HIDE DEF more, c
  <2>7. Costs(w, j, more, 0)
    BY <2>1, <2>5, <2>6 DEF Costs
  <2> QED
    BY <1>a, <2>4, <2>7, PaidByParts
<1>4. ASSUME NEW w \in Workers, HandlerReturns(w) \/ HandlerRaises(w) PROVE Paid(j)'
  <2>1. /\ queue' = queue /\ faults' = faults + 0
        /\ \A v \in Workers \ {w} : pc'[v] = pc[v] /\ held'[v] = held[v]
    BY <1>4, <1>a DEF HandlerReturns, HandlerRaises, TypeOK
  <2>2. Hand(w, j)' - Hand(w, j) <= Due(j)' - Due(j)
    <3>1. CASE HandlerReturns(w)
      BY <3>1, <1>a DEF HandlerReturns, TypeOK, Hand, Hands, Due
    <3>2. CASE HandlerRaises(w)
      BY <3>2, <1>a DEF HandlerRaises, TypeOK, Hand, Hands, Due
    <3> QED
      BY <1>4, <3>1, <3>2
  <2>3. 0 + Hand(w, j)' - Hand(w, j) <= 0 + Due(j)' - Due(j)
    BY <2>2 DEF Hand, Due
  <2>4. Costs(w, j, 0, 0)
    BY <1>b, <2>1, <2>3 DEF Costs
  <2> QED
    BY <1>a, <2>4, PaidByParts
<1>5. ASSUME NEW w \in Workers, Republish(w) PROVE Paid(j)'
  <2>1. /\ faults' = faults + 0 /\ Due(j)' = Due(j)
        /\ \A v \in Workers \ {w} : pc'[v] = pc[v] /\ held'[v] = held[v]
    BY <1>5, <1>a DEF Republish, TypeOK, Due
  <2>2. held[w] \in Message /\ Retried(held[w]) \in Message /\ Retried(held[w]).job = held[w].job
    BY <1>5, HeldMessage, RetriedType DEF Republish
  <2>3. Adds(queue, queue', Retried(held[w]))
    BY <1>5, <1>a, <2>2, StepAdds DEF Republish
  <2> DEFINE c == Copy(Retried(held[w]), j)
  <2>4. c \in Int /\ Hand(w, j) = c /\ Hand(w, j)' = 0
    BY <1>5, <1>a, <2>2 DEF Republish, TypeOK, Hand, Hands, Copy
  <2>5. c + Hand(w, j)' - Hand(w, j) <= 0 + Due(j)' - Due(j)
    BY <2>1, <2>4 DEF Due
  <2>6. Cardinality(SlotsOf(queue', j)) <= Cardinality(SlotsOf(queue, j)) + c
    BY <1>b, <2>3, <2>4 DEF Adds
  <2> HIDE DEF c
  <2>7. Costs(w, j, c, 0)
    BY <2>1, <2>5, <2>6 DEF Costs
  <2> QED
    BY <1>a, <2>4, <2>7, PaidByParts
<1>6. ASSUME NEW w \in Workers, Discard(w) PROVE Paid(j)'
  <2>1. /\ queue' = queue /\ faults' = faults + 0
        /\ \A v \in Workers \ {w} : pc'[v] = pc[v] /\ held'[v] = held[v]
    BY <1>6, <1>a DEF Discard, TypeOK
  <2>2. 0 + Hand(w, j)' - Hand(w, j) <= 0 + Due(j)' - Due(j)
    BY <1>6, <1>a DEF Discard, TypeOK, Hand, Hands, Due
  <2>3. Costs(w, j, 0, 0)
    BY <1>b, <2>1, <2>2 DEF Costs
  <2> QED
    BY <1>a, <2>3, PaidByParts
<1>7. ASSUME NEW w \in Workers, RepublishFails(w) PROVE Paid(j)'
  <2>1. /\ faults' = faults + 1 /\ Due(j)' = Due(j)
        /\ \A v \in Workers \ {w} : pc'[v] = pc[v] /\ held'[v] = held[v]
    BY <1>7, <1>a DEF RepublishFails, TypeOK, Due
  <2> DEFINE c == Copy(held[w], j)
  <2>2. c \in 0..1 /\ Hand(w, j) = c /\ Hand(w, j)' = 0
    BY <1>7, <1>a DEF RepublishFails, TypeOK, Hand, Hands, Copy
  <2>3. 2 * c + Hand(w, j)' - Hand(w, j) <= 1 + Due(j)' - Due(j)
    BY <2>1, <2>2 DEF Due
  <2>4. Cardinality(SlotsOf(queue', j)) <= Cardinality(SlotsOf(queue, j)) + 2 * c
    BY <1>7, <1>a, SlotsOfRepublishFails
  <2> HIDE DEF c
  <2>5. Costs(w, j, 2 * c, 1)
    BY <2>1, <2>3, <2>4 DEF Costs
  <2>6. 2 * c \in Int
    BY <2>2
  <2> QED
    BY <1>a, <2>5, <2>6, PaidByParts
<1>8. ASSUME NEW w \in Workers, LoseConnection(w) \/ Crash(w) PROVE Paid(j)'
  <2>1. /\ faults' = faults + 1 /\ Due(j)' = Due(j)
        /\ \A v \in Workers \ {w} : pc'[v] = pc[v] /\ held'[v] = held[v]
    BY <1>8, <1>a DEF LoseConnection, Crash, TypeOK, Due
  <2>2. queue' = queue \/ (held[w] \in Message /\ queue' = Requeued(w))
    BY <1>8, <1>a DEF LoseConnection, Crash, TypeOK
  <2>3. queue' = queue \/ Adds(queue, queue', held[w])
    BY <1>a, <2>2, StepAdds
  <2>4. Cardinality(SlotsOf(queue', j)) <= Cardinality(SlotsOf(queue, j)) + 1
    <3>1. Copy(held[w], j) \in 0..1
      BY DEF Copy
    <3> QED
      BY <1>b, <2>3, <3>1 DEF Adds
  <2>5. Hand(w, j)' <= Hand(w, j)
    BY <1>8, <1>a DEF LoseConnection, Crash, TypeOK, Hand, Hands
  <2>6. 1 + Hand(w, j)' - Hand(w, j) <= 1 + Due(j)' - Due(j)
    BY <2>1, <2>5 DEF Due, Hand
  <2>7. Costs(w, j, 1, 1)
    BY <2>1, <2>4, <2>6 DEF Costs
  <2> QED
    BY <1>a, <2>7, PaidByParts
<1>9. CASE UNCHANGED queueVars
  BY <1>9 DEF queueVars, Paid, Hands, Due, SlotsOf
<1> QED
  BY <1>1, <1>2, <1>3, <1>4, <1>5, <1>6, <1>7, <1>8, <1>9 DEF Next, Step, Fault

\* Nothing is queued or under way at the start.
LEMMA InitPaid == Init => \A j \in Jobs : Paid(j)
<1> SUFFICES ASSUME Init, NEW j \in Jobs PROVE Paid(j)
  OBVIOUS
<1>1. /\ \A q \in Queues : queue[q] = <<>> /\ DOMAIN queue[q] = {}
      /\ \A w \in Workers : pc[w] = "down"
      /\ faults = 0
  BY DEF Init
<1>2. SlotsOf(queue, j) = {}
  BY <1>1 DEF SlotsOf
<1>3. Hands(j) = {}
  BY <1>1 DEF Hands
<1>4. Due(j) \in 0..1
  BY DEF Due
<1> QED
  BY <1>1, <1>2, <1>3, <1>4, FS_EmptySet DEF Paid

\* Before the first fault nobody is at work on a job that is done.
LEMMA DoneIsOver ==
    ASSUME TypeOK, NEW j, Paid(j), faults = 0, j \in succeeded,
           NEW w \in Workers, pc[w] = "handling"
    PROVE  held[w].job # j
<1> SUFFICES ASSUME held[w].job = j PROVE FALSE
  OBVIOUS
<1>1. Hands(j) \in SUBSET Workers /\ w \in Hands(j)
  BY DEF Hands
<1>2. IsFiniteSet(Hands(j)) /\ Cardinality(Hands(j)) \in Nat
  BY <1>1, FinitenessAssumption, FS_Subset, FS_CardinalityType
<1>3. Cardinality(Hands(j)) # 0
  BY <1>1, <1>2, FS_EmptySet
<1>4. queue \in [Queues -> Seq(Message)]
  BY DEF TypeOK
<1>5. Cardinality(SlotsOf(queue, j)) \in Nat
  BY <1>4, SlotFacts
<1>6. Due(j) = 0
  BY DEF Due
<1> QED
  BY <1>2, <1>3, <1>5, <1>6 DEF Paid

\* A second execution of a job is always paid for by a fault, however many
\* queues, workers and retries there are.
THEOREM DuplicatesArePaidFor == Spec => []DuplicatesNeedFaults
<1>1. (\A j \in Jobs : Paid(j)) => DuplicatesNeedFaults
  BY DEF Paid, DuplicatesNeedFaults, Pending, SlotsOf, Hands, Due
<1>2. IInv /\ (\A j \in Jobs : Paid(j)) /\ [Next]_queueVars => (\A j \in Jobs : Paid(j))'
  BY StepPaid
<1> QED
  BY <1>1, <1>2, InitPaid, IInvariant, PTL DEF Spec

-----------------------------------------------------------------------------
(* The queue implements the safety part of the contract.                     *)

\* Every step of the queue is a step of the contract, or leaves it alone.
LEMMA StepImplementsContract ==
    IInv /\ [Next]_queueVars => [Contract!Next]_(Contract!contractVars)
<1> SUFFICES ASSUME IInv, [Next]_queueVars PROVE [Contract!Next]_(Contract!contractVars)
  OBVIOUS
<1> USE DEF historyVars, Contract!contractVars
<1>1. ASSUME NEW j \in Jobs, Publish(j) PROVE Contract!Next
  <2>1. Contract!Accept(j)
    BY <1>1 DEF Publish, Contract!Accept
  <2> QED
    BY <2>1 DEF Contract!Next
<1>2. ASSUME NEW w \in Workers, HandlerReturns(w) PROVE Contract!Next
  <2>1. held[w].job \in published /\ held[w].job \in Jobs
    BY <1>2, HeldMessage DEF HandlerReturns
  <2>2. Contract!Succeed(held[w].job)
    BY <1>2, <2>1 DEF HandlerReturns, Contract!Succeed
  <2> QED
    BY <2>1, <2>2 DEF Contract!Next, Contract!Attempt
<1>3. ASSUME NEW w \in Workers, HandlerRaises(w) PROVE Contract!Next
  <2>1. /\ held[w].job \in published /\ held[w].job \in Jobs
        /\ held[w].retry \in 0..MaxRetries
        /\ 0..held[w].retry - 1 \subseteq failedAt[held[w].job]
    BY <1>3, HeldMessage DEF HandlerRaises
  <2>2. Contract!AttemptFails(held[w].job, held[w].retry)
    BY <1>3, <2>1 DEF HandlerRaises, Contract!AttemptFails
  <2> QED
    BY <2>1, <2>2 DEF Contract!Next, Contract!Attempt
<1>4. ASSUME NEW w \in Workers, Discard(w) PROVE [Contract!Next]_(Contract!contractVars)
  <2>1. held[w].job \in published /\ held[w].job \in Jobs
    BY <1>4, HeldMessage DEF Discard
  <2>2. CASE open[w]
    <3>1. exhausted' = exhausted \union {held[w].job} /\ UNCHANGED <<published, succeeded, failedAt>>
      BY <1>4, <2>2 DEF Discard
    <3>2. failedAt[held[w].job] = 0..MaxRetries
      <4>1. held[w].job \in exhausted' /\ ExhaustedAfterEveryRetry'
        BY <3>1, StepExhausted
      <4> QED
        BY <3>1, <4>1 DEF ExhaustedAfterEveryRetry
    <3>3. Contract!GiveUp(held[w].job)
      BY <2>1, <3>1, <3>2 DEF Contract!GiveUp
    <3> QED
      BY <2>1, <3>3 DEF Contract!Next, Contract!Attempt
  <2>3. CASE ~open[w]
    BY <1>4, <2>3 DEF Discard
  <2> QED
    BY <2>2, <2>3
<1>5. ASSUME NEW w \in Workers, Connect(w) \/ Deliver(w) \/ Acknowledge(w) \/ Republish(w) \/ Fault(w)
      PROVE  UNCHANGED Contract!contractVars
  BY <1>5 DEF Connect, Deliver, Acknowledge, Republish, Fault, RepublishFails, LoseConnection, Crash
<1>6. CASE UNCHANGED queueVars
  BY <1>6 DEF queueVars
<1> QED
  BY <1>1, <1>2, <1>3, <1>4, <1>5, <1>6 DEF Next, Step

\* The queue and its workers never do what the at-least-once contract forbids:
\* its safety part holds for every configuration (progress is left to TLC).
THEOREM QueueImplementsContract == Spec => ContractSafety
<1>1. Init => Contract!Init
  BY DEF Init
<1>2. IInv /\ [Next]_queueVars => [Contract!Next]_(Contract!contractVars)
  BY StepImplementsContract
<1> QED
  BY <1>1, <1>2, IInvariant, PTL DEF Spec, ContractSafety
=============================================================================
