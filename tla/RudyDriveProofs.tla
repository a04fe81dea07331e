-------------------------- MODULE RudyDriveProofs --------------------------
(***************************************************************************)
(* Theorems about RudyDrive, the whole system, for any number of files,    *)
(* chunks, endpoints, workers, delete requests, retries, faults and failed *)
(* calls.                                                                  *)
(*                                                                         *)
(* Every step of the system is a step of Backend and a step of JobQueue,   *)
(* so what BackendProofs and JobQueueProofs show of those two holds here;  *)
(* what is added are the handlers, the reports and the object store.       *)
(***************************************************************************)
EXTENDS RudyDrive, BackendProofs, FiniteSetTheorems

QP == INSTANCE JobQueueProofs
      WITH Jobs <- Tasks,
           Queues <- {"upload.chunk", "delete.chunk"},
           QueueOf <- [t \in Tasks |-> IF t.type = "upload" THEN "upload.chunk"
                                                            ELSE "delete.chunk"],
           Consumes <- [w \in Workers |-> IF w \in UploadWorkers THEN "upload.chunk"
                                                                 ELSE "delete.chunk"]

-----------------------------------------------------------------------------
(* The inductive invariant. *)

\* The two parts, each with the invariant of its own proofs.
PartsInv == /\ BackendInv
            /\ QP!IInv
            /\ \A t \in Tasks : QP!Paid(t)

\* The handler of w stands where its task can have led it.
WorkerType(w) ==
    /\ progress[w] \in Progress
    /\ progress[w].stage = "none" <=> pc[w] # "handling"
    /\ progress[w].stage = "storing" => task(w).type = "upload"
    /\ progress[w].stage = "removing" => task(w).type = "delete"

HandlerInv == /\ progress \in [Workers -> Progress]
              /\ \A w \in Workers : WorkerType(w)
              /\ late \subseteq Reports
              /\ seen \in [UnderWay -> SUBSET Items]
              /\ errors \in 0..MaxErrors
              /\ early \subseteq Files
              /\ StoreTypeOK

\* Nothing is sent, queued or reported of a task before its commit.
NamedInv == /\ ReportsNameTasks
            /\ \A t \in toPublish : taskStatus[t] # "none"

AllStored(f) == \A c \in 0..NumChunks[f] - 1 : Stored(f, c)

\* What an upload handler of f that stands at p has gone past is stored.
Passed(p, f) ==
    /\ p.stage = "storing" => /\ \A c \in 0..p.chunk - 1 : Stored(f, c)
                              /\ p.stored => Stored(f, p.chunk)
    /\ p.stage = "reporting" => AllStored(f)

\* This is so for w as long as nobody asks for the deletion of its file.
WorkerStored(w) ==
    \A f \in Files :
        progress[w].stage # "none" /\ task(w) = UploadOf(f) /\ ~DeleteRequested(f) =>
            Passed(progress[w], f)

\* The chunk rows of a created file are there until a delete.
RowsExist(f) ==
    creating[f] \in {"rows", "done"} /\ NumChunks[f] > 0 /\ ~DeleteRequested(f) =>
        rowStatus[f] # "none"

StoredInv ==
    /\ \A w \in Workers : WorkerStored(w)
    /\ \A r \in late : r.success /\ r.task.type = "upload" /\ ~DeleteRequested(r.task.file) =>
                           AllStored(r.task.file)
    /\ \A f \in Files : fileStatus[f] = "ready" /\ ~DeleteRequested(f) => AllStored(f)
    /\ \A f \in Files : RowsExist(f)

\* No call has failed and no fault has happened yet.
Calm == errors = 0 /\ faults = 0

CleanUpTo(f, e) == \A i \in Endpoints : i < e => OfFile(i, f) = {}
Clean(f) == \A i \in Endpoints : OfFile(i, f) = {}

\* The delete handler of w has left nothing on the endpoints it has gone through.
WorkerCleans(w) ==
    progress[w].stage # "none" /\ task(w).type = "delete" /\ file(w) \notin early =>
        /\ progress[w].stage = "removing" => CleanUpTo(file(w), progress[w].endpoint)
        /\ progress[w].stage = "reporting" => Clean(file(w))

CalmInv ==
    Calm =>
        /\ late = {}
        /\ \A w \in Workers : progress[w].stage # "failing" /\ WorkerCleans(w)
        /\ \A t \in Tasks : /\ Report(t, FALSE) \notin reported
                            /\ Report(t, TRUE) \in reported => t \in succeeded
        /\ \A f \in Files \ early :
               /\ DeleteRequested(f) => taskStatus[UploadOf(f)] = "completed"
               /\ fileStatus[f] = "deleted" => Clean(f)

DriveInv == PartsInv /\ HandlerInv /\ NamedInv /\ StoredInv /\ CalmInv

-----------------------------------------------------------------------------
(* Backend and JobQueue as parts of the system. *)

\* The two queues, the workers and the tasks are what JobQueue assumes of its constants.
LEMMA QueueAssumptions ==
    /\ QP!QueueOfAssumption
    /\ QP!ConsumesAssumption
    /\ QP!FinitenessAssumption
    /\ QP!MaxRetriesAssumption
    /\ QP!MaxFaultsAssumption
    /\ QP!NoMessageAssumption
<1>1. IsFiniteSet({"upload.chunk", "delete.chunk"})
  <2>1. IsFiniteSet({"upload.chunk"})
    BY FS_Singleton
  <2>2. IsFiniteSet({"upload.chunk"} \union {"delete.chunk"})
    BY <2>1, FS_AddElement
  <2>3. {"upload.chunk"} \union {"delete.chunk"} = {"upload.chunk", "delete.chunk"}
    OBVIOUS
  <2> QED
    BY <2>2, <2>3
<1>2. QP!FinitenessAssumption
  BY <1>1, WorkersAssumption DEF QP!FinitenessAssumption, QP!IsFiniteSet, IsFiniteSet
<1>3. QP!QueueOfAssumption /\ QP!ConsumesAssumption
  BY DEF QP!QueueOfAssumption, QP!ConsumesAssumption
<1>4. QP!MaxRetriesAssumption /\ QP!MaxFaultsAssumption /\ QP!NoMessageAssumption
  BY RetriesAssumption, FaultsAssumption, MessageAssumption
     DEF QP!MaxRetriesAssumption, QP!MaxFaultsAssumption, QP!NoMessageAssumption, QP!Message
<1> QED
  BY <1>2, <1>3, <1>4

\* Queue, which the model uses, and QP, which the proofs use, are one module.
LEMMA SameQueue ==
    /\ Queue!Init <=> QP!Init
    /\ Queue!TypeOK <=> QP!TypeOK
    /\ \A t \in Tasks : Queue!Publish(t) => QP!Publish(t)
    /\ \A w \in Workers : Queue!Connect(w) => QP!Connect(w)
    /\ \A w \in Workers : Queue!Deliver(w) => QP!Deliver(w)
    /\ \A w \in Workers : Queue!HandlerReturns(w) => QP!HandlerReturns(w)
    /\ \A w \in Workers : Queue!HandlerRaises(w) => QP!HandlerRaises(w)
    /\ \A w \in Workers : Queue!Acknowledge(w) => QP!Acknowledge(w)
    /\ \A w \in Workers : Queue!Republish(w) => QP!Republish(w)
    /\ \A w \in Workers : Queue!Discard(w) => QP!Discard(w)
    /\ \A w \in Workers : Queue!RepublishFails(w) => QP!RepublishFails(w)
    /\ \A w \in Workers : Queue!LoseConnection(w) => QP!LoseConnection(w)
    /\ \A w \in Workers : Queue!Crash(w) => QP!Crash(w)
<1> USE DEF Queue!workerVars, QP!workerVars, Queue!historyVars, QP!historyVars,
            Queue!Finish, QP!Finish, Queue!Enqueued, QP!Enqueued, Queue!Requeued, QP!Requeued,
            Queue!Retried, QP!Retried
<1>1. Queue!Init <=> QP!Init
  BY DEF Queue!Init, QP!Init, Queue!Contract!Init, QP!Contract!Init
<1>2. Queue!TypeOK <=> QP!TypeOK
  BY DEF Queue!TypeOK, QP!TypeOK, Queue!Message, QP!Message, Queue!Places, QP!Places
<1>3. \A t \in Tasks : Queue!Publish(t) => QP!Publish(t)
  BY DEF Queue!Publish, QP!Publish
<1>4. \A w \in Workers : Queue!Connect(w) => QP!Connect(w)
  BY DEF Queue!Connect, QP!Connect
<1>5. \A w \in Workers : Queue!Deliver(w) => QP!Deliver(w)
  BY DEF Queue!Deliver, QP!Deliver
<1>6. \A w \in Workers : Queue!HandlerReturns(w) => QP!HandlerReturns(w)
  BY DEF Queue!HandlerReturns, QP!HandlerReturns
<1>7. \A w \in Workers : Queue!HandlerRaises(w) => QP!HandlerRaises(w)
  BY DEF Queue!HandlerRaises, QP!HandlerRaises
<1>8. \A w \in Workers : Queue!Acknowledge(w) => QP!Acknowledge(w)
  BY DEF Queue!Acknowledge, QP!Acknowledge
<1>9. \A w \in Workers : Queue!Republish(w) => QP!Republish(w)
  BY DEF Queue!Republish, QP!Republish
<1>10. \A w \in Workers : Queue!Discard(w) => QP!Discard(w)
  BY DEF Queue!Discard, QP!Discard
<1>11. \A w \in Workers : Queue!RepublishFails(w) => QP!RepublishFails(w)
  BY DEF Queue!RepublishFails, QP!RepublishFails
<1>12. \A w \in Workers : Queue!LoseConnection(w) => QP!LoseConnection(w)
  BY DEF Queue!LoseConnection, QP!LoseConnection
<1>13. \A w \in Workers : Queue!Crash(w) => QP!Crash(w)
  BY DEF Queue!Crash, QP!Crash
<1> QED
  BY <1>1, <1>2, <1>3, <1>4, <1>5, <1>6, <1>7, <1>8, <1>9, <1>10, <1>11, <1>12, <1>13

\* What the queue's own invariant gives the rest of the system.
LEMMA QueueFacts ==
    ASSUME QP!IInv
    PROVE  /\ published \in SUBSET Tasks /\ succeeded \subseteq published
           /\ faults \in 0..MaxFaults
           /\ pc \in [Workers -> QP!Places]
           /\ held \in [Workers -> QP!Message \union {NoMessage}]
           /\ \A w \in Workers : pc[w] \notin {"down", "idle"} =>
                  held[w] \in QP!Message /\ task(w) \in published /\ task(w) \in Tasks
<1>1. QP!TypeOK
  BY DEF QP!IInv
<1>2. \A w \in Workers : pc[w] \notin {"down", "idle"} =>
          held[w] \in QP!Message /\ held[w].job \in published /\ held[w].job \in Tasks
  BY QP!HeldMessage, QueueAssumptions
<1> QED
  BY <1>1, <1>2 DEF QP!TypeOK, task

\* The whole queue stands still.
LEMMA QueueStands == UNCHANGED queueVars => UNCHANGED QP!queueVars
BY DEF queueVars, QP!queueVars, QP!workerVars, QP!historyVars

\* Every step of the system is a step of the queue, or leaves it alone.
LEMMA StepIsQueueStep == Next => [QP!Next]_(QP!queueVars)
<1> SUFFICES ASSUME Next PROVE [QP!Next]_(QP!queueVars)
  OBVIOUS
<1>1. ASSUME NEW t \in Tasks, PublishTask(t) PROVE QP!Next
  <2>1. QP!Publish(t)
    BY <1>1, SameQueue DEF PublishTask
  <2> QED
    BY <2>1 DEF QP!Next
<1>2. ASSUME NEW w \in Workers,
             \/ TakeMessage(w) \/ ReportSuccess(w) \/ ReportFailure(w) \/ ReportFailureFails(w)
             \/ LoopStep(w) \/ LoopFault(w) \/ Crash(w) \/ CrashDuringReport(w)
      PROVE  QP!Next
  <2>1. QP!Step(w) \/ QP!Fault(w)
    BY <1>2, SameQueue DEF TakeMessage, ReportSuccess, ReportFailure, ReportFailureFails,
                           LoopStep, LoopFault, Crash, CrashDuringReport, QP!Step, QP!Fault
  <2> QED
    BY <2>1 DEF QP!Next
<1>3. ASSUME NEW w \in Workers,
             \/ StoreChunk(w) \/ StoreChunkFails(w) \/ RemoveChunks(w) \/ RemoveChunksFails(w)
             \/ ReportSuccessFails(w)
      PROVE  UNCHANGED QP!queueVars
  BY <1>3, QueueStands DEF StoreChunk, StoreChunkFails, RemoveChunks, RemoveChunksFails,
                           ReportSuccessFails
<1>4. ASSUME NEW f \in Files, NEW n \in 1..MaxDeletes, CreateStep(f) \/ DeleteRequest(f, n)
      PROVE  UNCHANGED QP!queueVars
  BY <1>4, QueueStands DEF CreateStep, DeleteRequest
<1>5. ASSUME NEW f \in Files, CreateStep(f) PROVE UNCHANGED QP!queueVars
  BY <1>5, QueueStands DEF CreateStep
<1>6. ASSUME NEW t \in Tasks, PublishFails(t) PROVE UNCHANGED QP!queueVars
  BY <1>6, QueueStands DEF PublishFails
<1>7. ASSUME NEW r \in late, LateReport(r) PROVE UNCHANGED QP!queueVars
  BY <1>7, QueueStands DEF LateReport
<1> QED
  BY <1>1, <1>2, <1>3, <1>4, <1>5, <1>6, <1>7 DEF Next, DriveStep, WorkerStep, WorkerFault

\* A worker inside its handler has a committed task.
LEMMA TaskAtWork ==
    ASSUME PartsInv, HandlerInv, NEW w \in Workers, progress[w].stage # "none"
    PROVE  /\ pc[w] = "handling"
           /\ held[w] \in QP!Message
           /\ task(w) \in Tasks
           /\ task(w) \in published
           /\ file(w) \in Files
           /\ task(w).type \in {"upload", "delete"}
           /\ task(w).type = "upload" => task(w) = UploadOf(file(w))
           /\ task(w).type = "delete" => task(w) \in DeletesOf(file(w))
<1>1. pc[w] = "handling"
  BY DEF HandlerInv, WorkerType
<1>2. held[w] \in QP!Message /\ task(w) \in published /\ task(w) \in Tasks
  BY <1>1, QueueFacts DEF PartsInv
<1> QED
  BY <1>1, <1>2, TaskFacts DEF file

\* A worker in a call to the backend reports its own task.
LEMMA CallingFacts ==
    ASSUME PartsInv, HandlerInv, NEW w \in Calling
    PROVE  /\ w \in Workers
           /\ progress[w].stage \in {"reporting", "failing"}
           /\ ReportOf(w) \in Reports
           /\ ReportOf(w).task = task(w)
           /\ ReportOf(w).success <=> progress[w].stage = "reporting"
<1>1. w \in Workers /\ progress[w].stage \in {"reporting", "failing"}
  BY DEF Calling
<1>2. task(w) \in Tasks
  BY <1>1, TaskAtWork
<1> QED
  BY <1>1, <1>2, ReportFacts DEF ReportOf

\* A report that reaches the backend is a callback, whatever has been read of it.
LEMMA ReachesCallback ==
    ASSUME NEW r, Reaches(r)
    PROVE  \E left \in SUBSET MayLeave(r) : Callback(r, left)
BY DEF Reaches

\* Every step of the system is a step of the backend, or leaves it alone.
LEMMA StepIsBackendStep == PartsInv /\ HandlerInv /\ Next => [BackendNext]_backendVars
<1> SUFFICES ASSUME PartsInv, HandlerInv, Next PROVE [BackendNext]_backendVars
  OBVIOUS
<1>1. ASSUME NEW f \in Files, CreateStep(f) PROVE BackendNext
  BY <1>1 DEF CreateStep, BackendNext, Request
<1>2. ASSUME NEW f \in Files, NEW n \in 1..MaxDeletes, DeleteRequest(f, n) PROVE BackendNext
  BY <1>2 DEF DeleteRequest, BackendNext, Request
<1>3. ASSUME NEW t \in Tasks, PublishTask(t) \/ PublishFails(t) PROVE BackendNext
  BY <1>3 DEF PublishTask, PublishFails, BackendNext
<1>4. ASSUME NEW w \in Workers, ReportSuccess(w) \/ ReportFailure(w) PROVE BackendNext
  <2>1. ReportOf(w) \in Reports /\ Reaches(ReportOf(w))
    BY <1>4, CallingFacts DEF ReportSuccess, ReportFailure, Calling
  <2> QED
    BY <2>1, ReachesCallback DEF BackendNext
<1>5. ASSUME NEW r \in late, LateReport(r) PROVE BackendNext
  <2>1. r \in Reports /\ Reaches(r)
    BY <1>5 DEF HandlerInv, LateReport
  <2> QED
    BY <2>1, ReachesCallback DEF BackendNext
<1>6. ASSUME NEW w \in Workers,
             \/ TakeMessage(w) \/ StoreChunk(w) \/ RemoveChunks(w) \/ LoopStep(w)
             \/ WorkerFault(w)
      PROVE  UNCHANGED backendVars
  BY <1>6 DEF TakeMessage, StoreChunk, RemoveChunks, LoopStep, WorkerFault, StoreChunkFails,
              RemoveChunksFails, ReportSuccessFails, ReportFailureFails, LoopFault, Crash,
              CrashDuringReport
<1> QED
  BY <1>1, <1>2, <1>3, <1>4, <1>5, <1>6 DEF Next, DriveStep, WorkerStep

\* Both parts keep their invariants.
LEMMA StepParts == PartsInv /\ HandlerInv /\ [Next]_vars => PartsInv'
<1> SUFFICES ASSUME PartsInv, HandlerInv, [Next]_vars PROVE PartsInv'
  OBVIOUS
<1>1. [BackendNext]_backendVars /\ [QP!Next]_(QP!queueVars)
  <2>1. CASE Next
    BY <2>1, StepIsBackendStep, StepIsQueueStep
  <2>2. CASE UNCHANGED vars
    BY <2>2, QueueStands DEF vars
  <2> QED
    BY <2>1, <2>2
<1>2. BackendInv'
  BY <1>1, BackendStepType, BackendStepFiles DEF PartsInv, BackendInv
<1>3. QP!IInv'
  BY <1>1, QueueAssumptions, QP!StepTypeOK, QP!StepNoJobLost, QP!StepRetriesAreEarned,
     QP!StepExhausted DEF PartsInv, QP!IInv
<1>4. \A t \in Tasks : QP!Paid(t)'
  BY <1>1, QueueAssumptions, QP!StepPaid DEF PartsInv
<1> QED
  BY <1>2, <1>3, <1>4 DEF PartsInv

\* The same after a step.
LEMMA QueueHandsOut ==
    QP!IInv' => \A w \in Workers : pc'[w] \notin {"down", "idle"} =>
                    held'[w].job \in published' /\ held'[w].job \in Tasks
<1> SUFFICES ASSUME QP!IInv', NEW w \in Workers, pc'[w] \notin {"down", "idle"}
             PROVE  held'[w].job \in published' /\ held'[w].job \in Tasks
  OBVIOUS
<1>1. held'[w] # NoMessage /\ held'[w] \in QP!Message \union {NoMessage}
  BY DEF QP!IInv, QP!TypeOK
<1>2. held'[w].job \in published'
  BY <1>1 DEF QP!IInv, QP!RetriesAreEarned, QP!Earned
<1> QED
  BY <1>1, <1>2 DEF QP!Message

-----------------------------------------------------------------------------
(* One worker at a time. *)

\* The handler of v, or its absence, is not affected by a step.
Stays(v) == /\ progress'[v] = progress[v]
            /\ pc'[v] = "handling" <=> pc[v] = "handling"
            /\ pc[v] = "handling" => held'[v] = held[v]

\* Only worker w moves, to p, and keeps its delivery.
GoesTo(w, p) == /\ progress' = [progress EXCEPT ![w] = p]
                /\ UNCHANGED <<pc, held>>

\* Worker w leaves its handler.
Rests(w) == /\ progress' = [progress EXCEPT ![w] = Resting]
            /\ pc'[w] # "handling"
            /\ \A v \in Workers \ {w} : pc'[v] = pc[v] /\ held'[v] = held[v]

\* The types of the variables the queue and the handlers keep per worker.
WorkerTypes == /\ pc \in [Workers -> QP!Places]
               /\ held \in [Workers -> QP!Message \union {NoMessage}]
               /\ progress \in [Workers -> Progress]

\* They follow from the invariants.
LEMMA TypesOfWorkers == PartsInv /\ HandlerInv => WorkerTypes
BY QueueFacts DEF PartsInv, HandlerInv, WorkerTypes

\* What each step does to the handlers, one line per kind of step.
LEMMA LoopKeepsHandlers ==
    ASSUME WorkerTypes, NEW w \in Workers, LoopStep(w) \/ LoopFault(w)
    PROVE  progress' = progress /\ \A v \in Workers : Stays(v)
BY DEF WorkerTypes, LoopStep, LoopFault, Queue!Connect, Queue!Acknowledge, Queue!Republish,
       Queue!Discard, Queue!RepublishFails, Queue!LoseConnection, Queue!Finish, handlerVars, Stays

\* Requests, publications and late reports concern no worker.
LEMMA OthersKeepHandlers ==
    /\ \A f \in Files : CreateStep(f) => progress' = progress /\ \A v \in Workers : Stays(v)
    /\ \A f \in Files : \A n \in 1..MaxDeletes :
           DeleteRequest(f, n) => progress' = progress /\ \A v \in Workers : Stays(v)
    /\ \A t \in Tasks : PublishTask(t) \/ PublishFails(t) =>
           progress' = progress /\ \A v \in Workers : Stays(v)
    /\ \A r \in late : LateReport(r) => progress' = progress /\ \A v \in Workers : Stays(v)
BY DEF CreateStep, DeleteRequest, PublishTask, PublishFails, LateReport, Queue!Publish,
       Queue!workerVars, queueVars, handlerVars, Stays

\* A report or a crash ends the handler.
LEMMA EndsOfHandler ==
    ASSUME WorkerTypes, NEW w \in Workers,
           \/ ReportSuccess(w) \/ ReportFailure(w) \/ ReportFailureFails(w)
           \/ Crash(w) \/ CrashDuringReport(w)
    PROVE  Rests(w)
BY DEF WorkerTypes, ReportSuccess, ReportFailure, ReportFailureFails, Crash, CrashDuringReport,
       Moves, Rests,
       Queue!HandlerReturns, Queue!HandlerRaises, Queue!Crash

\* A call on the store, or a success report that fails, takes the handler on.
LEMMA MovesOfHandler ==
    /\ \A w \in Workers : StoreChunk(w) => GoesTo(w, AfterPut(w, TRUE))
    /\ \A w \in Workers : StoreChunkFails(w) => GoesTo(w, AfterPut(w, progress[w].stored))
    /\ \A w \in Workers : RemoveChunks(w) \/ RemoveChunksFails(w) => GoesTo(w, AfterRemove(w))
    /\ \A w \in Workers : ReportSuccessFails(w) => GoesTo(w, At("failing", 0, 1, FALSE))
BY DEF StoreChunk, StoreChunkFails, RemoveChunks, RemoveChunksFails, ReportSuccessFails, Moves,
       GoesTo, queueVars

\* A delivery starts the handler of one worker, for a published task.
LEMMA StartOfHandler ==
    ASSUME PartsInv, PartsInv', HandlerInv, NEW w \in Workers, TakeMessage(w)
    PROVE  /\ progress' = [progress EXCEPT ![w] = Start(task(w)')]
           /\ progress[w].stage = "none"
           /\ pc'[w] = "handling"
           /\ task(w)' \in published
           /\ task(w)' \in Tasks
           /\ \A v \in Workers \ {w} : pc'[v] = pc[v] /\ held'[v] = held[v]
<1>1. WorkerTypes
  BY TypesOfWorkers
<1>2. pc[w] = "idle" /\ pc' = [pc EXCEPT ![w] = "handling"] /\ published' = published
  BY DEF TakeMessage, Queue!Deliver, Queue!historyVars
<1>3. pc'[w] = "handling"
  BY <1>1, <1>2 DEF WorkerTypes
<1>4. task(w)' \in published' /\ task(w)' \in Tasks
  <2>1. QP!IInv'
    BY DEF PartsInv
  <2>2. \A v \in Workers : pc'[v] \notin {"down", "idle"} =>
            held'[v].job \in published' /\ held'[v].job \in Tasks
    BY <2>1, QueueHandsOut
  <2> QED
    BY <1>3, <2>2 DEF task
<1>5. progress[w].stage = "none"
  BY <1>2 DEF HandlerInv, WorkerType
<1>6. /\ progress' = [progress EXCEPT ![w] = Start(task(w)')]
      /\ \A v \in Workers \ {w} : pc'[v] = pc[v] /\ held'[v] = held[v]
  BY <1>1, <1>2 DEF TakeMessage, Queue!Deliver, WorkerTypes, task
<1> QED
  BY <1>2, <1>3, <1>4, <1>5, <1>6

\* A worker that does not move keeps the types.
LEMMA StaysType ==
    ASSUME NEW v \in Workers, WorkerType(v), Stays(v)
    PROVE  WorkerType(v)'
BY DEF WorkerType, Stays, task

\* Nor does one that only another worker moves beside.
LEMMA OtherWorkers ==
    ASSUME WorkerTypes, NEW w \in Workers, NEW p, progress' = [progress EXCEPT ![w] = p],
           \A v \in Workers \ {w} : pc'[v] = pc[v] /\ held'[v] = held[v]
    PROVE  \A v \in Workers \ {w} : Stays(v)
BY DEF WorkerTypes, Stays

\* Where a handler can be sent.
LEMMA Places ==
    /\ Resting \in Progress /\ Resting.stage = "none"
    /\ At("failing", 0, 1, FALSE) \in Progress
    /\ \A t \in Tasks : /\ Start(t) \in Progress
                        /\ Start(t).stage \in {"storing", "removing", "reporting"}
                        /\ Start(t).stage = "storing" => t.type = "upload"
                        /\ Start(t).stage = "removing" => t.type = "delete"
                        /\ Start(t).stage \in {"storing", "removing"} =>
                               Start(t).chunk = 0 /\ Start(t).endpoint = 1 /\ ~Start(t).stored
                        /\ Start(t).stage = "reporting" =>
                               t.type = "upload" /\ NumChunks[t.file] = 0
BY NumEndpointsAssumption, TaskFacts
   DEF Resting, At, Progress, Endpoints, Start

\* Where the calls on the store lead.
LEMMA PlacesAfterCalls ==
    ASSUME NEW w \in Workers, progress[w] \in Progress, NEW b \in BOOLEAN
    PROVE  /\ AfterPut(w, b) \in Progress
           /\ AfterPut(w, b).stage \in {"storing", "reporting", "failing"}
           /\ AfterRemove(w) \in Progress
           /\ AfterRemove(w).stage \in {"removing", "reporting"}
BY NumEndpointsAssumption DEF At, Progress, Endpoints, AfterPut, AfterRemove

\* A handler that goes on, ends or starts stays where its task can lead it.
LEMMA MovedType ==
    ASSUME WorkerTypes, NEW w \in Workers, WorkerType(w), NEW p \in Progress,
           GoesTo(w, p), progress[w].stage # "none", p.stage # "none",
           p.stage = "storing" => task(w).type = "upload",
           p.stage = "removing" => task(w).type = "delete"
    PROVE  WorkerType(w)'
BY DEF WorkerTypes, WorkerType, GoesTo, task

\* The workers' part of the types is kept.
LEMMA StepWorkerTypes ==
    PartsInv /\ PartsInv' /\ HandlerInv /\ Next =>
        progress' \in [Workers -> Progress] /\ \A v \in Workers : WorkerType(v)'
<1> SUFFICES ASSUME PartsInv, PartsInv', HandlerInv, Next
             PROVE  progress' \in [Workers -> Progress] /\ \A v \in Workers : WorkerType(v)'
  OBVIOUS
<1>a. WorkerTypes /\ \A v \in Workers : WorkerType(v)
  BY TypesOfWorkers DEF HandlerInv
<1> DEFINE Goal == progress' \in [Workers -> Progress] /\ \A v \in Workers : WorkerType(v)'
<1>1. ASSUME progress' = progress, \A v \in Workers : Stays(v) PROVE Goal
  BY <1>a, <1>1, StaysType DEF WorkerTypes
<1>2. ASSUME NEW w \in Workers, NEW p \in Progress, GoesTo(w, p),
             progress[w].stage # "none", p.stage # "none",
             p.stage = "storing" => task(w).type = "upload",
             p.stage = "removing" => task(w).type = "delete"
      PROVE  Goal
  <2>1. \A v \in Workers \ {w} : Stays(v)
    BY <1>a, <1>2, OtherWorkers DEF GoesTo
  <2>2. WorkerType(w)'
    BY <1>a, <1>2, MovedType
  <2>3. progress' \in [Workers -> Progress]
    BY <1>a, <1>2 DEF WorkerTypes, GoesTo
  <2> QED
    BY <1>a, <2>1, <2>2, <2>3, StaysType
<1>3. ASSUME NEW w \in Workers, Rests(w) PROVE Goal
  <2>1. \A v \in Workers \ {w} : Stays(v)
    BY <1>a, <1>3, OtherWorkers DEF Rests
  <2>2. WorkerType(w)' /\ progress' \in [Workers -> Progress]
    BY <1>a, <1>3, Places DEF Rests, WorkerTypes, WorkerType
  <2> QED
    BY <1>a, <2>1, <2>2, StaysType
<1>4. ASSUME NEW w \in Workers, TakeMessage(w) PROVE Goal
  <2>1. /\ progress' = [progress EXCEPT ![w] = Start(task(w)')]
        /\ pc'[w] = "handling"
        /\ task(w)' \in Tasks
        /\ \A v \in Workers \ {w} : pc'[v] = pc[v] /\ held'[v] = held[v]
    BY <1>4, StartOfHandler
  <2>2. \A v \in Workers \ {w} : Stays(v)
    BY <1>a, <2>1, OtherWorkers
  <2> DEFINE t == task(w)'
  <2>3. Start(t) \in Progress /\ Start(t).stage # "none"
        /\ (Start(t).stage = "storing" => t.type = "upload")
        /\ (Start(t).stage = "removing" => t.type = "delete")
    BY <2>1, Places
  <2>4. progress'[w] = Start(t) /\ progress' \in [Workers -> Progress]
    BY <1>a, <2>1, <2>3 DEF WorkerTypes
  <2> HIDE DEF t
  <2>5. WorkerType(w)'
    BY <2>1, <2>3, <2>4 DEF WorkerType, t
  <2> QED
    BY <1>a, <2>2, <2>4, <2>5, StaysType
<1>5. ASSUME NEW w \in Workers, StoreChunk(w) \/ StoreChunkFails(w) PROVE Goal
  <2>1. PICK b \in BOOLEAN : GoesTo(w, AfterPut(w, b))
    <3>1. progress[w].stored \in BOOLEAN
      BY <1>a DEF WorkerTypes, Progress
    <3> QED
      BY <1>5, <3>1, MovesOfHandler
  <2>2. progress[w].stage = "storing" /\ progress[w] \in Progress
    BY <1>5, <1>a DEF StoreChunk, StoreChunkFails, WorkerTypes
  <2>3. task(w).type = "upload"
    BY <1>a, <2>2 DEF WorkerType
  <2> DEFINE p == AfterPut(w, b)
  <2>4. p \in Progress /\ p.stage \in {"storing", "reporting", "failing"}
    BY <2>2, PlacesAfterCalls
  <2> HIDE DEF p
  <2>5. GoesTo(w, p)
    BY <2>1 DEF p
  <2> QED
    BY <1>2, <2>2, <2>3, <2>4, <2>5
<1>6. ASSUME NEW w \in Workers, RemoveChunks(w) \/ RemoveChunksFails(w) PROVE Goal
  <2> DEFINE p == AfterRemove(w)
  <2>1. GoesTo(w, p)
    BY <1>6, MovesOfHandler
  <2>2. progress[w].stage = "removing" /\ progress[w] \in Progress
    BY <1>6, <1>a DEF RemoveChunks, RemoveChunksFails, WorkerTypes
  <2>3. task(w).type = "delete"
    BY <1>a, <2>2 DEF WorkerType
  <2>4. p \in Progress /\ p.stage \in {"removing", "reporting"}
    BY <2>2, PlacesAfterCalls
  <2> HIDE DEF p
  <2> QED
    BY <1>2, <2>1, <2>2, <2>3, <2>4
<1>7. ASSUME NEW w \in Workers, ReportSuccessFails(w) PROVE Goal
  <2> DEFINE p == At("failing", 0, 1, FALSE)
  <2>1. GoesTo(w, p) /\ p \in Progress /\ p.stage = "failing"
    BY <1>7, MovesOfHandler, Places DEF At
  <2>2. progress[w].stage = "reporting"
    BY <1>7 DEF ReportSuccessFails
  <2> HIDE DEF p
  <2> QED
    BY <1>2, <2>1, <2>2
<1>8. ASSUME NEW w \in Workers,
             \/ ReportSuccess(w) \/ ReportFailure(w) \/ ReportFailureFails(w)
             \/ Crash(w) \/ CrashDuringReport(w)
      PROVE  Goal
  BY <1>3, <1>8, <1>a, EndsOfHandler
<1>9. ASSUME NEW w \in Workers, LoopStep(w) \/ LoopFault(w) PROVE Goal
  BY <1>1, <1>9, <1>a, LoopKeepsHandlers
<1> HIDE DEF Goal
<1>10. Goal
  BY <1>1, <1>4, <1>5, <1>6, <1>7, <1>8, <1>9, OthersKeepHandlers DEF Next, DriveStep, WorkerStep, WorkerFault
<1> QED
  BY <1>10 DEF Goal

\* A report given up on is that of a worker that was in its call.
LEMMA StepLate ==
    Next => \/ late' \subseteq late
            \/ \E w \in Calling : late' = late \union {ReportOf(w)}
<1> SUFFICES ASSUME Next, ~(late' \subseteq late)
             PROVE  \E w \in Calling : late' = late \union {ReportOf(w)}
  OBVIOUS
<1>1. \A f \in Files : ~CreateStep(f) /\ \A n \in 1..MaxDeletes : ~DeleteRequest(f, n)
  BY DEF CreateStep, DeleteRequest, handlerVars
<1>2. \A t \in Tasks : ~PublishTask(t) /\ ~PublishFails(t)
  BY DEF PublishTask, PublishFails, handlerVars
<1>3. \A r \in late : ~LateReport(r)
  BY DEF LateReport
<1>4. ASSUME NEW w \in Workers, WorkerStep(w) \/ WorkerFault(w)
      PROVE  ReportSuccessFails(w) \/ ReportFailureFails(w) \/ CrashDuringReport(w)
  BY <1>4 DEF WorkerStep, WorkerFault, TakeMessage, StoreChunk, StoreChunkFails, RemoveChunks,
              RemoveChunksFails, ReportSuccess, ReportFailure, LoopStep, LoopFault, Crash,
              handlerVars
<1>5. PICK w \in Workers : ReportSuccessFails(w) \/ ReportFailureFails(w) \/ CrashDuringReport(w)
  BY <1>1, <1>2, <1>3, <1>4 DEF Next, DriveStep
<1> QED
  BY <1>5 DEF ReportSuccessFails, ReportFailureFails, CrashDuringReport, Calling

\* What has been read of a report is some of its items.
LEMMA StepSeen == HandlerInv /\ Next => seen' \in [UnderWay' -> SUBSET Items]
<1> SUFFICES ASSUME HandlerInv, Next PROVE seen' \in [UnderWay' -> SUBSET Items]
  OBVIOUS
<1>1. \A r \in DOMAIN seen : seen[r] \in SUBSET Items
  BY DEF HandlerInv
<1>2. \A r : Shown(r)' \in SUBSET Items
  BY DEF Shown
<1> QED
  BY <1>1, <1>2 DEF Next, Watch

\* The object store keeps its type.
LEMMA StepObjects == PartsInv /\ HandlerInv /\ Next => StoreTypeOK'
<1> SUFFICES ASSUME PartsInv, HandlerInv, Next PROVE StoreTypeOK'
  OBVIOUS
<1>a. StoreTypeOK /\ WorkerTypes
  BY TypesOfWorkers DEF HandlerInv
<1>1. ASSUME NEW w \in Workers, StoreChunk(w) \/ StoreChunkFails(w) PROVE StoreTypeOK'
  <2>1. progress[w].stage = "storing"
    BY <1>1 DEF StoreChunk, StoreChunkFails
  <2>2. file(w) \in StoredFiles /\ progress[w].chunk \in Nat /\ progress[w].endpoint \in Endpoints
    BY <1>a, <2>1, TaskAtWork, FilesAssumption DEF WorkerTypes, Progress
  <2> DEFINE e == progress[w].endpoint
             o == <<file(w), progress[w].chunk>>
  <2>3. o \in StoredFiles \X Nat /\ e \in Endpoints
    BY <2>2
  <2>4. objects' = objects \/ objects' = [objects EXCEPT ![e] = @ \union {o}]
    BY <1>1 DEF StoreChunk, StoreChunkFails, Put, PutFails
  <2> HIDE DEF e, o
  <2> QED
    BY <1>a, <2>3, <2>4 DEF StoreTypeOK
<1>2. ASSUME NEW w \in Workers, RemoveChunks(w) \/ RemoveChunksFails(w) PROVE StoreTypeOK'
  <2>1. PICK e \in Endpoints : \E removed : objects' = [objects EXCEPT ![e] = @ \ removed]
    <3>1. progress[w].endpoint \in Endpoints
      BY <1>a DEF WorkerTypes, Progress
    <3> QED
      BY <1>2, <3>1 DEF RemoveChunks, RemoveChunksFails, RemovePrefix, RemoveFails
  <2> QED
    BY <1>a, <2>1 DEF StoreTypeOK
<1>3. ASSUME NEW w \in Workers,
             \/ TakeMessage(w) \/ ReportSuccess(w) \/ ReportFailure(w) \/ LoopStep(w)
             \/ ReportSuccessFails(w) \/ ReportFailureFails(w) \/ LoopFault(w) \/ Crash(w)
             \/ CrashDuringReport(w)
      PROVE  objects' = objects
  BY <1>3 DEF TakeMessage, ReportSuccess, ReportFailure, LoopStep, ReportSuccessFails,
              ReportFailureFails, LoopFault, Crash, CrashDuringReport
<1>4. ASSUME NEW f \in Files, CreateStep(f) \/ \E n \in 1..MaxDeletes : DeleteRequest(f, n)
      PROVE  objects' = objects
  BY <1>4 DEF CreateStep, DeleteRequest
<1>5. ASSUME NEW t \in Tasks, PublishTask(t) \/ PublishFails(t) PROVE objects' = objects
  BY <1>5 DEF PublishTask, PublishFails
<1>6. ASSUME NEW r \in late, LateReport(r) PROVE objects' = objects
  BY <1>6 DEF LateReport
<1> QED
  BY <1>a, <1>1, <1>2, <1>3, <1>4, <1>5, <1>6 DEF Next, DriveStep, WorkerStep, WorkerFault, StoreTypeOK

\* Failed calls are counted and their number is bounded; early deletes are of files.
LEMMA StepCounts ==
    HandlerInv /\ Next => errors' \in 0..MaxErrors /\ early' \subseteq Files
<1> SUFFICES ASSUME HandlerInv, Next PROVE errors' \in 0..MaxErrors /\ early' \subseteq Files
  OBVIOUS
<1>a. errors \in 0..MaxErrors /\ early \subseteq Files /\ MaxErrors \in Nat
  BY ErrorsAssumption DEF HandlerInv
<1>1. \/ errors' = errors
      \/ errors < MaxErrors /\ errors' = errors + 1
  BY DEF Next, DriveStep, WorkerStep, WorkerFault, CreateStep, DeleteRequest, PublishTask, PublishFails,
         TakeMessage, StoreChunk, StoreChunkFails, RemoveChunks, RemoveChunksFails, ReportSuccess,
         ReportSuccessFails, ReportFailure, ReportFailureFails, LateReport, LoopStep, LoopFault,
         Crash, CrashDuringReport, handlerVars
<1>2. early' = early \/ \E f \in Files : early' = early \union {f}
  BY DEF Next, DriveStep, WorkerStep, WorkerFault, CreateStep, DeleteRequest, PublishTask, PublishFails,
         TakeMessage, StoreChunk, StoreChunkFails, RemoveChunks, RemoveChunksFails, ReportSuccess,
         ReportSuccessFails, ReportFailure, ReportFailureFails, LateReport, LoopStep, LoopFault,
         Crash, CrashDuringReport
<1> QED
  BY <1>a, <1>1, <1>2

\* Every step keeps the handlers' part of the invariant.
LEMMA StepHandlers == PartsInv /\ HandlerInv /\ [Next]_vars => HandlerInv'
<1> SUFFICES ASSUME PartsInv, HandlerInv, [Next]_vars PROVE HandlerInv'
  OBVIOUS
<1>1. CASE Next
  <2>1. PartsInv'
    BY StepParts
  <2>2. late' \subseteq Reports
    BY <1>1, StepLate, CallingFacts DEF HandlerInv
  <2> QED
    BY <1>1, <2>1, <2>2, StepWorkerTypes, StepSeen, StepObjects, StepCounts DEF HandlerInv
<1>2. CASE UNCHANGED vars
  BY <1>2 DEF vars, backendVars, queueVars, handlerVars, HandlerInv, WorkerType, task, StoreTypeOK,
              UnderWay, Calling, ReportOf
<1> QED
  BY <1>1, <1>2

-----------------------------------------------------------------------------
(* Messages and reports name committed tasks. *)

\* A task row is never taken back.
LEMMA TasksPersist ==
    BackendInv /\ [BackendNext]_backendVars =>
        \A t \in Tasks : taskStatus[t] # "none" => taskStatus'[t] # "none"
<1> SUFFICES ASSUME BackendTypeOK, [BackendNext]_backendVars, NEW t \in Tasks,
                    taskStatus[t] # "none"
             PROVE  taskStatus'[t] # "none"
  BY DEF BackendInv
<1> USE DEF BackendTypeOK
<1>1. ASSUME NEW f \in Files, Create(f) PROVE taskStatus'[t] # "none"
  BY <1>1 DEF Create, CommitFile, CommitRows, CommitUploadTask, AbortCreate
<1>2. ASSUME NEW f \in Files, NEW n \in 1..MaxDeletes, RequestDelete(f, n)
      PROVE  taskStatus'[t] # "none"
  BY <1>2 DEF RequestDelete
<1>3. ASSUME NEW u \in Tasks, Sent(u) PROVE taskStatus'[t] # "none"
  BY <1>3 DEF Sent
<1>5. ASSUME NEW r \in Reports, NEW left \in SUBSET MayLeave(r), Callback(r, left)
      PROVE  taskStatus'[t] # "none"
  BY <1>5, CallbackEffect, AfterFacts
<1>4. CASE UNCHANGED backendVars
  BY <1>4 DEF backendVars
<1> QED
  BY <1>1, <1>2, <1>3, <1>4, <1>5 DEF BackendNext, Request

\* Only a task that has just been committed is newly due for publication.
LEMMA ToPublishIsNew ==
    BackendInv /\ [BackendNext]_backendVars =>
        \A t \in toPublish' : \/ t \in toPublish
                              \/ t \in Tasks /\ taskStatus[t] = "none" /\ taskStatus'[t] # "none"
<1> SUFFICES ASSUME BackendInv, [BackendNext]_backendVars, NEW t \in toPublish', t \notin toPublish
             PROVE  t \in Tasks /\ taskStatus[t] = "none" /\ taskStatus'[t] # "none"
  OBVIOUS
<1>a. BackendTypeOK /\ \A f \in Files : CreationOrder(f)
  BY DEF BackendInv, FileInv
<1>1. ASSUME NEW f \in Files, Create(f)
      PROVE  t \in Tasks /\ taskStatus[t] = "none" /\ taskStatus'[t] # "none"
  <2>1. CommitUploadTask(f) /\ t = UploadOf(f)
    BY <1>1 DEF Create, CommitFile, CommitRows, CommitUploadTask, AbortCreate
  <2>2. UploadOf(f) \in Tasks
    BY TaskFacts
  <2>3. taskStatus[UploadOf(f)] = "none"
    BY <1>a, <2>1 DEF CommitUploadTask, CreationOrder
  <2> QED
    BY <1>a, <2>1, <2>2, <2>3 DEF CommitUploadTask, BackendTypeOK
<1>2. ASSUME NEW f \in Files, NEW n \in 1..MaxDeletes, RequestDelete(f, n)
      PROVE  t \in Tasks /\ taskStatus[t] = "none" /\ taskStatus'[t] # "none"
  <2>1. t = DeleteOf(f, n) /\ DeleteOf(f, n) \in Tasks
    BY <1>2, TaskFacts DEF RequestDelete
  <2> QED
    BY <1>a, <1>2, <2>1 DEF RequestDelete, BackendTypeOK
<1>3. ASSUME NEW u \in Tasks, Sent(u) PROVE FALSE
  BY <1>3 DEF Sent
<1>4. CASE UNCHANGED backendVars
  BY <1>4 DEF backendVars
<1>5. ASSUME NEW r \in Reports, NEW left \in SUBSET MayLeave(r), Callback(r, left) PROVE FALSE
  BY <1>a, <1>5, CallbackEffect
<1> QED
  BY <1>1, <1>2, <1>3, <1>4, <1>5 DEF BackendNext, Request

\* Publication is the only step that adds a message of a new task.
LEMMA PublishedGrows ==
    Next => \/ published' = published
            \/ \E t \in Tasks : PublishTask(t) /\ published' = published \union {t}
<1> SUFFICES ASSUME Next, published' # published
             PROVE  \E t \in Tasks : PublishTask(t) /\ published' = published \union {t}
  OBVIOUS
<1>1. \A f \in Files : ~CreateStep(f) /\ \A n \in 1..MaxDeletes : ~DeleteRequest(f, n)
  BY DEF CreateStep, DeleteRequest, queueVars
<1>2. \A t \in Tasks : ~PublishFails(t)
  BY DEF PublishFails, queueVars
<1>3. \A r \in late : ~LateReport(r)
  BY DEF LateReport, queueVars
<1>4. ASSUME NEW w \in Workers PROVE ~WorkerStep(w) /\ ~WorkerFault(w)
  BY DEF WorkerStep, WorkerFault, TakeMessage, StoreChunk, StoreChunkFails, RemoveChunks,
         RemoveChunksFails, ReportSuccess, ReportFailure, ReportSuccessFails, ReportFailureFails,
         LoopStep, LoopFault, Crash, CrashDuringReport, queueVars, Queue!Connect, Queue!Deliver, Queue!HandlerReturns,
         Queue!HandlerRaises, Queue!Acknowledge, Queue!Republish, Queue!Discard,
         Queue!RepublishFails, Queue!LoseConnection, Queue!Crash, Queue!historyVars
<1>5. PICK t \in Tasks : PublishTask(t)
  BY <1>1, <1>2, <1>3, <1>4 DEF Next, DriveStep
<1> QED
  BY <1>5 DEF PublishTask, Queue!Publish

\* Every step keeps messages and reports to committed tasks.
LEMMA StepNamed == PartsInv /\ HandlerInv /\ NamedInv /\ [Next]_vars => NamedInv'
<1> SUFFICES ASSUME PartsInv, HandlerInv, NamedInv, [Next]_vars PROVE NamedInv'
  OBVIOUS
<1>1. CASE Next
  <2>a. BackendInv /\ [BackendNext]_backendVars /\ published \in SUBSET Tasks
    BY <1>1, StepIsBackendStep, QueueFacts DEF PartsInv
  <2>b. /\ \A t \in Tasks : taskStatus[t] # "none" => taskStatus'[t] # "none"
        /\ \A t \in toPublish' : \/ t \in toPublish
                                 \/ t \in Tasks /\ taskStatus[t] = "none" /\ taskStatus'[t] # "none"
    BY <2>a, TasksPersist, ToPublishIsNew
  <2>c. toPublish \in SUBSET Tasks
    BY <2>a DEF BackendInv, BackendTypeOK
  <2>d. /\ \A t \in published : taskStatus[t] # "none" /\ t \notin toPublish
        /\ \A r \in late : taskStatus[r.task] # "none" /\ r.task \in Tasks
        /\ \A t \in toPublish : taskStatus[t] # "none"
    BY ReportFacts DEF NamedInv, ReportsNameTasks, HandlerInv
  <2>1. \A t \in toPublish' : taskStatus'[t] # "none"
    BY <2>b, <2>c, <2>d
  <2>2. \A t \in published' : taskStatus'[t] # "none" /\ t \notin toPublish'
    <3>1. CASE published' = published
      BY <2>a, <2>b, <2>d, <3>1
    <3>2. ASSUME NEW u \in Tasks, PublishTask(u), published' = published \union {u}
          PROVE  \A t \in published' : taskStatus'[t] # "none" /\ t \notin toPublish'
      <4>1. u \in toPublish /\ u \notin toPublish'
        BY <3>2 DEF PublishTask, Sent
      <4> QED
        BY <2>a, <2>b, <2>d, <3>2, <4>1
    <3> QED
      BY <1>1, <3>1, <3>2, PublishedGrows
  <2>3. \A r \in late' : taskStatus'[r.task] # "none"
    <3>1. \A r \in late : taskStatus'[r.task] # "none"
      BY <2>b, <2>d
    <3>2. ASSUME NEW w \in Calling PROVE taskStatus'[ReportOf(w).task] # "none"
      <4>1. ReportOf(w).task \in published /\ ReportOf(w).task \in Tasks
        BY CallingFacts, TaskAtWork
      <4> QED
        BY <2>b, <2>d, <4>1
    <3> QED
      BY <1>1, <3>1, <3>2, StepLate
  <2> QED
    BY <2>1, <2>2, <2>3 DEF NamedInv, ReportsNameTasks
<1>2. CASE UNCHANGED vars
  BY <1>2 DEF vars, backendVars, queueVars, handlerVars, NamedInv, ReportsNameTasks
<1> QED
  BY <1>1, <1>2

-----------------------------------------------------------------------------
(* What is ready is stored. *)

\* A worker with a delete task has had its file's deletion requested.
LEMMA DeleteAtWork ==
    ASSUME PartsInv, HandlerInv, NamedInv, NEW w \in Workers,
           progress[w].stage # "none", task(w).type = "delete"
    PROVE  DeleteRequested(file(w))
<1>1. task(w) \in DeletesOf(file(w)) /\ task(w) \in published
  BY TaskAtWork
<1> QED
  BY <1>1 DEF NamedInv, ReportsNameTasks, DeleteRequested

\* Until its deletion is requested a file only gains objects.
LEMMA StoreGrows ==
    ASSUME PartsInv, HandlerInv, NamedInv, [Next]_vars, NEW f \in Files, ~DeleteRequested(f)'
    PROVE  ~DeleteRequested(f) /\ \A c : Stored(f, c) => Stored(f, c)'
<1>1. ~DeleteRequested(f)
  <2>1. [BackendNext]_backendVars
    <3>1. CASE Next
      BY <3>1, StepIsBackendStep
    <3>2. CASE UNCHANGED vars
      BY <3>2 DEF vars
    <3> QED
      BY <3>1, <3>2
  <2>2. \A t \in Tasks : taskStatus[t] # "none" => taskStatus'[t] # "none"
    BY <2>1, TasksPersist DEF PartsInv
  <2>3. \A t \in DeletesOf(f) : t \in Tasks
    BY TaskFacts
  <2> QED
    BY <2>2, <2>3 DEF DeleteRequested
<1>a. StoreTypeOK
  BY DEF HandlerInv
<1>b. \A e \in Endpoints : objects[e] \subseteq StoredFiles \X Nat
  BY <1>a DEF StoreTypeOK
<1> DEFINE Kept == \A e \in Endpoints : \A c : <<f, c>> \in objects[e] => <<f, c>> \in objects'[e]
<1>2. ASSUME NEW w \in Workers, StoreChunk(w) \/ StoreChunkFails(w) PROVE Kept
  BY <1>a, <1>2 DEF StoreChunk, StoreChunkFails, Put, PutFails, StoreTypeOK
<1>3. ASSUME NEW w \in Workers, RemoveChunks(w) \/ RemoveChunksFails(w) PROVE Kept
  <2>1. progress[w].stage = "removing"
    BY <1>3 DEF RemoveChunks, RemoveChunksFails
  <2>2. task(w).type = "delete"
    BY <2>1 DEF HandlerInv, WorkerType
  <2>3. file(w) # f
    BY <1>1, <2>1, <2>2, DeleteAtWork
  <2>4. \A e \in Endpoints : \A c : <<f, c>> \notin OfFile(e, file(w))
    BY <2>3 DEF OfFile
  <2>5. PICK removed : /\ objects' = [objects EXCEPT ![progress[w].endpoint] = @ \ removed]
                       /\ removed \subseteq OfFile(progress[w].endpoint, file(w))
    BY <1>3 DEF RemoveChunks, RemoveChunksFails, RemovePrefix, RemoveFails
  <2>6. progress[w].endpoint \in Endpoints
    BY DEF HandlerInv, Progress
  <2> QED
    BY <1>a, <2>4, <2>5, <2>6 DEF StoreTypeOK
<1>4. ASSUME NEW w \in Workers,
             \/ TakeMessage(w) \/ ReportSuccess(w) \/ ReportFailure(w) \/ LoopStep(w)
             \/ ReportSuccessFails(w) \/ ReportFailureFails(w) \/ LoopFault(w) \/ Crash(w)
             \/ CrashDuringReport(w)
      PROVE  objects' = objects
  BY <1>4 DEF TakeMessage, ReportSuccess, ReportFailure, LoopStep, ReportSuccessFails,
              ReportFailureFails, LoopFault, Crash, CrashDuringReport
<1>5. ASSUME NEW g \in Files, CreateStep(g) \/ \E n \in 1..MaxDeletes : DeleteRequest(g, n)
      PROVE  objects' = objects
  BY <1>5 DEF CreateStep, DeleteRequest
<1>6. ASSUME NEW t \in Tasks, PublishTask(t) \/ PublishFails(t) PROVE objects' = objects
  BY <1>6 DEF PublishTask, PublishFails
<1>7. ASSUME NEW r \in late, LateReport(r) PROVE objects' = objects
  BY <1>7 DEF LateReport
<1>8. ASSUME UNCHANGED vars PROVE objects' = objects
  BY <1>8 DEF vars
<1>9. objects' = objects => Kept
  OBVIOUS
<1> HIDE DEF Kept
<1>10. Kept
  BY <1>2, <1>3, <1>4, <1>5, <1>6, <1>7, <1>8, <1>9 DEF Next, DriveStep, WorkerStep, WorkerFault
<1>11. \A c : Stored(f, c) => Stored(f, c)'
  BY <1>10 DEF Kept, Stored, Holds
<1> QED
  BY <1>1, <1>11

\* What grows stays stored as a whole.
LEMMA AllStaysStored ==
    ASSUME NEW f \in Files, \A c : Stored(f, c) => Stored(f, c)', AllStored(f)
    PROVE  AllStored(f)'
BY DEF AllStored

\* The callback that makes a file ready is the success of its upload.
LEMMA ReadyComesFromUpload ==
    ASSUME PartsInv, HandlerInv, Next, NEW f \in Files, fileStatus'[f] = "ready"
    PROVE  \/ fileStatus[f] = "ready"
           \/ \E w \in Workers : ReportSuccess(w) /\ task(w) = UploadOf(f)
           \/ \E r \in late : LateReport(r) /\ r.success /\ r.task = UploadOf(f)
<1> SUFFICES ASSUME fileStatus[f] # "ready"
             PROVE  \/ \E w \in Workers : ReportSuccess(w) /\ task(w) = UploadOf(f)
                    \/ \E r \in late : LateReport(r) /\ r.success /\ r.task = UploadOf(f)
  OBVIOUS
<1>a. fileStatus \in [Files -> FileStatuses]
  BY DEF PartsInv, BackendInv, BackendTypeOK
<1>1. ASSUME NEW r \in Reports, Reaches(r) PROVE r.success /\ r.task = UploadOf(f)
  <2>1. PICK left \in SUBSET MayLeave(r) : Callback(r, left)
    BY <1>1, ReachesCallback
  <2>2. BackendTypeOK /\ r.task.file \in Files
    BY ReportFacts DEF PartsInv, BackendInv
  <2>3. FileAfter(r) = "ready" /\ r.task.file = f
    BY <1>a, <2>1, <2>2, CallbackEffect
  <2> QED
    BY <2>3, AfterFacts, ReportFacts, TaskFacts
<1>3. ASSUME NEW g \in Files, CreateStep(g) \/ \E n \in 1..MaxDeletes : DeleteRequest(g, n)
      PROVE  FALSE
  BY <1>3, <1>a DEF CreateStep, Create, CommitFile, CommitRows, CommitUploadTask, AbortCreate,
                    DeleteRequest, RequestDelete
<1>4. ASSUME NEW t \in Tasks, PublishTask(t) \/ PublishFails(t) PROVE FALSE
  BY <1>4 DEF PublishTask, PublishFails, Sent
<1>5. ASSUME NEW w \in Workers, WorkerStep(w) \/ WorkerFault(w)
      PROVE  ReportSuccess(w) /\ task(w) = UploadOf(f)
  <2>1. ReportSuccess(w) \/ ReportFailure(w)
    BY <1>5 DEF WorkerStep, WorkerFault, TakeMessage, StoreChunk, StoreChunkFails, RemoveChunks,
                RemoveChunksFails, ReportSuccessFails, ReportFailureFails, LoopStep, LoopFault,
                Crash, CrashDuringReport, backendVars
  <2>2. w \in Calling /\ Reaches(ReportOf(w))
    BY <2>1 DEF ReportSuccess, ReportFailure, Calling
  <2>3. ReportOf(w).success /\ ReportOf(w).task = UploadOf(f)
    BY <1>1, <2>2, CallingFacts
  <2>4. progress[w].stage = "reporting" /\ task(w) = UploadOf(f)
    BY <2>2, <2>3, CallingFacts
  <2> QED
    BY <2>1, <2>4 DEF ReportFailure
<1>6. ASSUME NEW r \in late, LateReport(r) PROVE r.success /\ r.task = UploadOf(f)
  BY <1>1, <1>6 DEF LateReport, HandlerInv
<1> QED
  BY <1>3, <1>4, <1>5, <1>6 DEF Next, DriveStep

\* No step but a delete's success takes the rows of a created file away.
LEMMA StepRows ==
    BackendInv /\ [BackendNext]_backendVars /\ (\A f \in Files : RowsExist(f)) =>
        \A f \in Files : RowsExist(f)'
<1> SUFFICES ASSUME BackendInv, [BackendNext]_backendVars, NEW f \in Files, RowsExist(f),
                    ~DeleteRequested(f)'
             PROVE  RowsExist(f)'
  BY DEF RowsExist
<1>a. BackendTypeOK
  BY DEF BackendInv
<1>b. \A t \in DeletesOf(f) : t \in Tasks /\ taskStatus'[t] = "none" /\ taskStatus[t] = "none"
  BY TasksPersist, TaskFacts DEF DeleteRequested
<1>c. ~DeleteRequested(f)
  BY <1>b DEF DeleteRequested
<1>d. creating[f] \in {"rows", "done"} /\ NumChunks[f] > 0 => rowStatus[f] # "none"
  BY <1>c DEF RowsExist
<1> USE DEF BackendTypeOK
<1>1. ASSUME NEW g \in Files, Create(g) PROVE RowsExist(f)'
  <2>1. CASE g = f /\ CommitRows(f)
    <3>1. NumChunks[f] > 0 => rowStatus'[f] = "pending"
      BY <1>a, <2>1, NumChunksAssumption DEF CommitRows
    <3> QED
      BY <3>1 DEF RowsExist
  <2>2. CASE ~(g = f /\ CommitRows(f))
    <3>1. creating'[f] \in {"rows", "done"} => creating[f] \in {"rows", "done"}
      BY <1>a, <1>1, <2>2 DEF Create, CommitFile, CommitRows, CommitUploadTask, AbortCreate
    <3>2. rowStatus'[f] = rowStatus[f]
      BY <1>a, <1>1, <2>2 DEF Create, CommitFile, CommitRows, CommitUploadTask, AbortCreate
    <3> QED
      BY <1>d, <3>1, <3>2 DEF RowsExist
  <2> QED
    BY <2>1, <2>2
<1>2. ASSUME UNCHANGED creating, rowStatus[f] # "none" => rowStatus'[f] # "none" PROVE RowsExist(f)'
  BY <1>d, <1>2 DEF RowsExist
<1>3. ASSUME NEW g \in Files, NEW n \in 1..MaxDeletes, RequestDelete(g, n) PROVE RowsExist(f)'
  BY <1>2, <1>3 DEF RequestDelete
<1>4. ASSUME NEW t \in Tasks, Sent(t) PROVE RowsExist(f)'
  BY <1>2, <1>4 DEF Sent
<1>5. ASSUME NEW r \in Reports, NEW left \in SUBSET MayLeave(r), Callback(r, left)
      PROVE  RowsExist(f)'
  <2>1. r.task.file = f => r.task.type = "upload"
    BY <1>a, <1>5, <1>b, CallbackEffect, ReportFacts, TaskFacts
  <2>2. r.task.file = f => RowsAfter(r) # "none"
    BY <2>1 DEF RowsAfter
  <2>3. rowStatus[f] # "none" => rowStatus'[f] # "none"
    BY <1>a, <1>5, <2>2, CallbackEffect, ReportFacts
  <2>4. UNCHANGED creating
    BY <1>a, <1>5, CallbackEffect
  <2> QED
    BY <1>2, <2>3, <2>4
<1>7. CASE UNCHANGED backendVars
  BY <1>2, <1>7 DEF backendVars
<1> QED
  BY <1>1, <1>3, <1>4, <1>5, <1>7 DEF BackendNext, Request

\* A handler that does not move keeps what it has stored.
LEMMA StaysStored ==
    ASSUME PartsInv, HandlerInv, NamedInv, [Next]_vars, NEW v \in Workers,
           WorkerStored(v), Stays(v)
    PROVE  WorkerStored(v)'
<1> SUFFICES ASSUME NEW f \in Files,
                    progress'[v].stage # "none", task(v)' = UploadOf(f), ~DeleteRequested(f)'
             PROVE  Passed(progress[v], f)'
  BY DEF WorkerStored, UploadOf
<1>1. progress'[v] = progress[v] /\ progress[v].stage # "none"
  BY DEF Stays
<1>2. task(v) = UploadOf(f)
  BY <1>1, TaskAtWork DEF Stays, task
<1>3. ~DeleteRequested(f) /\ \A c : Stored(f, c) => Stored(f, c)'
  BY StoreGrows
<1>4. Passed(progress[v], f)
  BY <1>1, <1>2, <1>3 DEF WorkerStored
<1> QED
  BY <1>1, <1>3, <1>4, AllStaysStored DEF Passed

\* The next place of an upload handler after chunk k has reached the endpoint it was
\* put to, or had an endpoint before (b): what it is past is stored.
LEMMA PassedAfterPut ==
    ASSUME PartsInv, HandlerInv, NamedInv, [Next]_vars, NEW w \in Workers, NEW f \in Files,
           progress[w].stage = "storing", task(w) = UploadOf(f), ~DeleteRequested(f)',
           WorkerStored(w), NEW k, k = progress[w].chunk, NEW b \in BOOLEAN, b => Stored(f, k)',
           GoesTo(w, AfterPut(w, b))
    PROVE  Passed(progress[w], f)'
<1> DEFINE p == progress[w]
           q == progress'[w]
<1>1. ~DeleteRequested(f) /\ \A c : Stored(f, c) => Stored(f, c)'
  BY StoreGrows
<1>2. p \in Progress /\ k \in Nat /\ NumChunks[f] \in Nat /\ file(w) = f
  BY NumChunksAssumption DEF HandlerInv, Progress, file, UploadOf
<1>3. \A c \in 0..k - 1 : Stored(f, c)'
  <2>1. Passed(p, f)
    BY <1>1 DEF WorkerStored
  <2>2. \A c \in 0..k - 1 : Stored(f, c)
    BY <2>1 DEF Passed
  <2> QED
    BY <1>1, <2>2
<1>4. q = AfterPut(w, b)
  BY DEF GoesTo, HandlerInv
<1>5. b => \A c \in 0..k : Stored(f, c)'
  <2>1. \A c \in 0..k : c \in 0..k - 1 \/ c = k
    BY <1>2
  <2>2. b => Stored(f, k)'
    OBVIOUS
  <2> QED
    BY <1>3, <2>1, <2>2
<1>6. CASE p.endpoint < NumEndpoints
  <2>1. q = At("storing", k, p.endpoint + 1, b)
    BY <1>4, <1>6 DEF AfterPut
  <2> QED
    BY <1>3, <2>1 DEF Passed, At
<1>7. CASE ~(p.endpoint < NumEndpoints) /\ ~b
  <2>1. q = At("failing", 0, 1, FALSE)
    BY <1>4, <1>7 DEF AfterPut
  <2> QED
    BY <2>1 DEF Passed, At
<1>8. CASE ~(p.endpoint < NumEndpoints) /\ b /\ k + 1 < NumChunks[f]
  <2>1. q = At("storing", k + 1, 1, FALSE)
    BY <1>2, <1>4, <1>8 DEF AfterPut
  <2> QED
    BY <1>2, <1>5, <1>8, <2>1 DEF Passed, At
<1>9. CASE ~(p.endpoint < NumEndpoints) /\ b /\ ~(k + 1 < NumChunks[f])
  <2>1. q = At("reporting", 0, 1, FALSE)
    BY <1>2, <1>4, <1>9 DEF AfterPut
  <2>2. AllStored(f)'
    BY <1>2, <1>5, <1>9 DEF AllStored
  <2> QED
    BY <2>1, <2>2 DEF Passed, At
<1> QED
  BY <1>6, <1>7, <1>8, <1>9

\* A put stores the chunk.
LEMMA PutStores ==
    ASSUME HandlerInv, NEW w \in Workers, NEW f \in Files, task(w) = UploadOf(f), StoreChunk(w),
           NEW k, k = progress[w].chunk
    PROVE  Stored(f, k)'
<1>1. PICK e \in Endpoints : e = progress[w].endpoint
  BY DEF HandlerInv, Progress
<1>2. objects' = [objects EXCEPT ![e] = @ \union {<<f, k>>}]
  BY <1>1 DEF StoreChunk, Put, file, UploadOf
<1>3. <<f, k>> \in objects'[e]
  BY <1>1, <1>2 DEF HandlerInv, StoreTypeOK
<1> QED
  BY <1>1, <1>3 DEF Stored, Holds

\* A worker outside the handlers, or about to report a failure, has nothing to have stored.
LEMMA NothingToHaveStored ==
    ASSUME NEW w \in Workers,
           \/ progress'[w].stage \in {"none", "removing", "failing"}
           \/ task(w)'.type = "delete"
    PROVE  WorkerStored(w)'
<1> SUFFICES ASSUME NEW f \in Files, progress'[w].stage # "none", task(w)' = UploadOf(f)
             PROVE  Passed(progress[w], f)'
  BY DEF WorkerStored, UploadOf
<1>1. task(w)'.type # "delete"
  BY DEF UploadOf
<1> QED
  BY <1>1 DEF Passed

\* A handler that starts has gone past nothing.
LEMMA StartPasses ==
    ASSUME PartsInv, PartsInv', HandlerInv, NEW w \in Workers, TakeMessage(w)
    PROVE  WorkerStored(w)'
<1> SUFFICES ASSUME NEW f \in Files, task(w)' = UploadOf(f) PROVE Passed(progress[w], f)'
  BY DEF WorkerStored, UploadOf
<1>1. progress' = [progress EXCEPT ![w] = Start(task(w)')] /\ task(w)' \in Tasks
  BY StartOfHandler
<1>2. PICK p : p = Start(UploadOf(f))
  OBVIOUS
<1>3. progress'[w] = p
  BY <1>1, <1>2 DEF HandlerInv
<1>4. /\ p.stage = "storing" => p.chunk = 0 /\ ~p.stored
      /\ p.stage = "reporting" => NumChunks[f] = 0
  BY <1>1, <1>2, Places DEF UploadOf
<1> QED
  BY <1>3, <1>4 DEF Passed, AllStored

\* Every handler that has gone past a chunk keeps it stored.
LEMMA StepWorkersStored ==
    PartsInv /\ HandlerInv /\ NamedInv /\ StoredInv /\ Next => \A v \in Workers : WorkerStored(v)'
<1> SUFFICES ASSUME PartsInv, HandlerInv, NamedInv, StoredInv, Next
             PROVE  \A v \in Workers : WorkerStored(v)'
  OBVIOUS
<1>a. WorkerTypes /\ PartsInv' /\ \A v \in Workers : WorkerStored(v)
  BY TypesOfWorkers, StepParts DEF StoredInv
<1>b. \A v \in Workers : Stays(v) => WorkerStored(v)'
  BY <1>a, StaysStored
<1> DEFINE Goal == \A v \in Workers : WorkerStored(v)'
<1>1. (\A v \in Workers : Stays(v)) => Goal
  BY <1>b
<1>2. ASSUME NEW w \in Workers, \A v \in Workers \ {w} : Stays(v), WorkerStored(w)' PROVE Goal
  BY <1>b, <1>2
<1> HIDE DEF Goal
<1>3. ASSUME NEW w \in Workers, NEW p, GoesTo(w, p), WorkerStored(w)' PROVE Goal
  BY <1>a, <1>2, <1>3, OtherWorkers DEF GoesTo
<1>4. ASSUME NEW w \in Workers, Rests(w) PROVE Goal
  <2>1. \A v \in Workers \ {w} : Stays(v)
    BY <1>a, <1>4, OtherWorkers DEF Rests
  <2>2. progress'[w].stage = "none"
    BY <1>a, <1>4, Places DEF Rests, WorkerTypes
  <2> QED
    BY <1>2, <2>1, <2>2, NothingToHaveStored
<1>5. ASSUME NEW w \in Workers, TakeMessage(w) PROVE Goal
  <2>1. \A v \in Workers \ {w} : Stays(v)
    BY <1>a, <1>5, StartOfHandler, OtherWorkers
  <2> QED
    BY <1>2, <1>5, <1>a, <2>1, StartPasses
<1>6. ASSUME NEW w \in Workers, StoreChunk(w) \/ StoreChunkFails(w) PROVE Goal
  <2>1. progress[w].stage = "storing" /\ WorkerStored(w) /\ progress[w].stored \in BOOLEAN
    BY <1>6, <1>a DEF StoreChunk, StoreChunkFails, WorkerTypes, Progress
  <2>2. PICK k : k = progress[w].chunk
    OBVIOUS
  <2>3. PICK b \in BOOLEAN : /\ GoesTo(w, AfterPut(w, b))
                             /\ StoreChunk(w) \/ b = progress[w].stored
    BY <1>6, <2>1, MovesOfHandler
  <2>4. held'[w] = held[w]
    BY <2>3 DEF GoesTo
  <2>5. ASSUME NEW f \in Files, task(w)' = UploadOf(f), ~DeleteRequested(f)'
        PROVE  Passed(progress[w], f)'
    <3>1. task(w) = UploadOf(f)
      BY <2>4, <2>5 DEF task
    <3>2. ~DeleteRequested(f) /\ \A c : Stored(f, c) => Stored(f, c)'
      BY <2>5, StoreGrows
    <3>3. Passed(progress[w], f)
      BY <2>1, <3>1, <3>2 DEF WorkerStored
    <3>4. b => Stored(f, k)'
      BY <2>1, <2>2, <2>3, <3>1, <3>2, <3>3, PutStores DEF Passed
    <3> QED
      BY <2>1, <2>2, <2>3, <2>5, <3>1, <3>4, PassedAfterPut
  <2>6. WorkerStored(w)'
    BY <2>5 DEF WorkerStored, UploadOf
  <2> QED
    BY <1>3, <2>3, <2>6
<1>7. ASSUME NEW w \in Workers, RemoveChunks(w) \/ RemoveChunksFails(w) PROVE Goal
  <2>1. progress[w].stage = "removing" /\ GoesTo(w, AfterRemove(w))
    BY <1>7, MovesOfHandler DEF RemoveChunks, RemoveChunksFails
  <2>2. task(w)'.type = "delete"
    BY <2>1 DEF HandlerInv, WorkerType, GoesTo, task
  <2> QED
    BY <1>3, <2>1, <2>2, NothingToHaveStored
<1>8. ASSUME NEW w \in Workers, ReportSuccessFails(w) PROVE Goal
  <2>1. GoesTo(w, At("failing", 0, 1, FALSE))
    BY <1>8, MovesOfHandler
  <2>2. progress'[w].stage = "failing"
    BY <1>a, <2>1 DEF GoesTo, WorkerTypes, At
  <2> QED
    BY <1>3, <2>1, <2>2, NothingToHaveStored
<1>9. ASSUME NEW w \in Workers,
             \/ ReportSuccess(w) \/ ReportFailure(w) \/ ReportFailureFails(w)
             \/ Crash(w) \/ CrashDuringReport(w)
      PROVE  Goal
  BY <1>4, <1>9, <1>a, EndsOfHandler
<1>10. ASSUME NEW w \in Workers, LoopStep(w) \/ LoopFault(w) PROVE Goal
  BY <1>1, <1>10, <1>a, LoopKeepsHandlers
<1>11. Goal
  BY <1>1, <1>5, <1>6, <1>7, <1>8, <1>9, <1>10, OthersKeepHandlers
     DEF Next, DriveStep, WorkerStep, WorkerFault
<1> QED
  BY <1>11 DEF Goal

\* A handler of f's upload that is about to report its success has stored all of f.
LEMMA ReportedIsStored ==
    ASSUME PartsInv, HandlerInv, StoredInv, NEW w \in Workers, NEW f \in Files,
           progress[w].stage = "reporting", task(w) = UploadOf(f), ~DeleteRequested(f)
    PROVE  AllStored(f)
BY DEF StoredInv, WorkerStored, Passed

\* Every step keeps what is ready stored.
LEMMA StepStored ==
    PartsInv /\ HandlerInv /\ NamedInv /\ StoredInv /\ [Next]_vars => StoredInv'
<1> SUFFICES ASSUME PartsInv, HandlerInv, NamedInv, StoredInv, [Next]_vars PROVE StoredInv'
  OBVIOUS
<1>a. \A f \in Files : ~DeleteRequested(f)' => /\ ~DeleteRequested(f)
                                               /\ AllStored(f) => AllStored(f)'
  BY StoreGrows, AllStaysStored
<1>1. CASE Next
  <2>1. \A v \in Workers : WorkerStored(v)'
    BY <1>1, StepWorkersStored
  <2>2. ASSUME NEW r \in late', r.success, r.task.type = "upload",
               ~DeleteRequested(r.task.file)'
        PROVE  AllStored(r.task.file)'
    <3>1. CASE r \in late
      <4>1. r.task.file \in Files
        BY <3>1, ReportFacts DEF HandlerInv
      <4> QED
        BY <1>a, <2>2, <3>1, <4>1 DEF StoredInv
    <3>2. ASSUME NEW w \in Calling, r = ReportOf(w)
          PROVE  AllStored(r.task.file)'
      <4>1. PICK f : f = file(w)
        OBVIOUS
      <4>2. w \in Workers /\ progress[w].stage = "reporting" /\ r.task = task(w) /\ r.task.file = f
        BY <2>2, <3>2, <4>1, CallingFacts DEF file
      <4>3. f \in Files /\ task(w) = UploadOf(f)
        BY <2>2, <4>1, <4>2, TaskAtWork
      <4>4. ~DeleteRequested(f)'
        BY <2>2, <4>2
      <4>5. AllStored(f)'
        BY <1>a, <4>2, <4>3, <4>4, ReportedIsStored
      <4> QED
        BY <4>2, <4>5
    <3> QED
      BY <1>1, <2>2, <3>1, <3>2, StepLate
  <2>3. ASSUME NEW f \in Files, fileStatus'[f] = "ready", ~DeleteRequested(f)'
        PROVE  AllStored(f)'
    <3>1. ASSUME fileStatus[f] = "ready" PROVE AllStored(f)
      BY <1>a, <2>3, <3>1 DEF StoredInv
    <3>2. ASSUME NEW w \in Workers, ReportSuccess(w), task(w) = UploadOf(f) PROVE AllStored(f)
      BY <1>a, <2>3, <3>2, ReportedIsStored DEF ReportSuccess
    <3>3. ASSUME NEW r \in late, r.success, r.task = UploadOf(f) PROVE AllStored(f)
      BY <1>a, <2>3, <3>3 DEF StoredInv, UploadOf
    <3> QED
      BY <1>1, <1>a, <2>3, <3>1, <3>2, <3>3, ReadyComesFromUpload
  <2>4. \A f \in Files : RowsExist(f)'
    BY <1>1, StepIsBackendStep, StepRows DEF PartsInv, StoredInv
  <2> QED
    BY <2>1, <2>2, <2>3, <2>4 DEF StoredInv
<1>2. CASE UNCHANGED vars
  BY <1>2 DEF vars, backendVars, queueVars, handlerVars, StoredInv, WorkerStored, Passed,
              AllStored, Stored, Holds, DeleteRequested, RowsExist, task
<1> QED
  BY <1>1, <1>2

-----------------------------------------------------------------------------
(* As long as no call fails and no fault happens. *)

\* What is left of Next then.
CalmNext ==
    \/ \E f \in Files : CreateStep(f) \/ \E n \in 1..MaxDeletes : DeleteRequest(f, n)
    \/ \E t \in Tasks : PublishTask(t)
    \/ \E w \in Workers : \/ TakeMessage(w) \/ StoreChunk(w) \/ RemoveChunks(w)
                          \/ ReportSuccess(w) \/ LoopStep(w)

\* Errors and faults are never taken back.
LEMMA CalmBefore ==
    ASSUME PartsInv, HandlerInv, Next, Calm'
    PROVE  /\ Calm
           /\ errors' = errors /\ faults' = faults
<1>1. errors \in Nat /\ faults \in Nat
  BY ErrorsAssumption, FaultsAssumption, QueueFacts DEF PartsInv, HandlerInv
<1>2. errors' = errors \/ errors' = errors + 1
  BY DEF Next, DriveStep, WorkerStep, WorkerFault, CreateStep, DeleteRequest, PublishTask, PublishFails,
         TakeMessage, StoreChunk, StoreChunkFails, RemoveChunks, RemoveChunksFails, ReportSuccess,
         ReportSuccessFails, ReportFailure, ReportFailureFails, LateReport, LoopStep, LoopFault,
         Crash, CrashDuringReport, handlerVars
<1>3. faults' = faults \/ faults' = faults + 1
  BY StepIsQueueStep
     DEF QP!Next, QP!Step, QP!Fault, QP!queueVars, QP!Publish, QP!Connect, QP!Deliver,
         QP!HandlerReturns, QP!HandlerRaises, QP!Acknowledge, QP!Republish, QP!Discard,
         QP!RepublishFails, QP!LoseConnection, QP!Crash
<1> QED
  BY <1>1, <1>2, <1>3 DEF Calm

\* Without errors and faults only calm steps happen.
LEMMA CalmSteps ==
    ASSUME PartsInv, HandlerInv, CalmInv, Next, Calm'
    PROVE  CalmNext
<1>1. Calm /\ errors' = errors /\ faults' = faults /\ errors \in Nat /\ faults \in Nat
  BY CalmBefore, ErrorsAssumption, FaultsAssumption, QueueFacts DEF PartsInv, HandlerInv
<1>2. late = {} /\ \A w \in Workers : progress[w].stage # "failing"
  BY <1>1 DEF CalmInv
<1>3. \A t \in Tasks : ~PublishFails(t)
  BY <1>1 DEF PublishFails
<1>4. ASSUME NEW w \in Workers PROVE ~WorkerFault(w) /\ ~ReportFailure(w)
  <2>a. errors' # errors + 1 /\ faults' # faults + 1
    BY <1>1
  <2>1. /\ ~StoreChunkFails(w) /\ ~RemoveChunksFails(w) /\ ~ReportSuccessFails(w)
        /\ ~ReportFailureFails(w)
    BY <2>a DEF StoreChunkFails, RemoveChunksFails, ReportSuccessFails, ReportFailureFails
  <2>2. ~LoopFault(w) /\ ~Crash(w)
    BY <2>a DEF LoopFault, Crash, Queue!RepublishFails, Queue!LoseConnection, Queue!Crash
  <2>3. ~CrashDuringReport(w)
    BY <2>a DEF CrashDuringReport
  <2> QED
    BY <1>2, <2>1, <2>2, <2>3 DEF WorkerFault, ReportFailure
<1> QED
  BY <1>2, <1>3, <1>4 DEF Next, DriveStep, WorkerStep, CalmNext

\* The success of a handler is the only report then.
LEMMA CalmReport ==
    ASSUME PartsInv, HandlerInv, NEW w \in Workers, ReportSuccess(w)
    PROVE  \E r \in Reports :
               /\ \E left \in SUBSET MayLeave(r) : Callback(r, left)
               /\ r.task = task(w) /\ r.success /\ r = Report(task(w), TRUE)
               /\ succeeded' = succeeded \union {task(w)}
<1>1. w \in Calling /\ progress[w].stage = "reporting" /\ Reaches(ReportOf(w))
  BY DEF ReportSuccess, Calling
<1>2. succeeded' = succeeded \union {task(w)}
  BY DEF ReportSuccess, Queue!HandlerReturns, task
<1>3. ReportOf(w) \in Reports /\ ReportOf(w).task = task(w) /\ ReportOf(w).success
  BY <1>1, CallingFacts
<1>4. ReportOf(w) = Report(task(w), TRUE)
  BY <1>1 DEF ReportOf
<1> QED
  BY <1>1, <1>2, <1>3, <1>4, ReachesCallback

\* Then no task is reported as failed, a completed one stays so, and its handler has
\* returned.
LEMMA CalmTasks ==
    ASSUME PartsInv, HandlerInv, CalmInv, Calm, CalmNext
    PROVE  \A t \in Tasks : /\ Report(t, FALSE) \notin reported'
                            /\ Report(t, TRUE) \in reported' => t \in succeeded'
                            /\ taskStatus[t] = "completed" => taskStatus'[t] = "completed"
<1>a. /\ BackendTypeOK
      /\ \A f \in Files : CreationOrder(f)
      /\ \A t \in Tasks : /\ Report(t, FALSE) \notin reported
                          /\ Report(t, TRUE) \in reported => t \in succeeded
  BY DEF PartsInv, BackendInv, FileInv, CalmInv
<1> DEFINE Goal == \A t \in Tasks : /\ Report(t, FALSE) \notin reported'
                                    /\ Report(t, TRUE) \in reported' => t \in succeeded'
                                    /\ taskStatus[t] = "completed" => taskStatus'[t] = "completed"
<1>1. (taskStatus' = taskStatus /\ reported' = reported /\ succeeded' = succeeded) => Goal
  BY <1>a
<1>2. ASSUME NEW u \in Tasks, taskStatus[u] = "none", succeeded' = succeeded, reported' = reported,
             taskStatus' = [taskStatus EXCEPT ![u] = "pending"]
      PROVE  Goal
  BY <1>a, <1>2 DEF BackendTypeOK
<1>3. ASSUME NEW f \in Files, CreateStep(f) PROVE Goal
  <2>1. CASE CommitUploadTask(f)
    <3>1. taskStatus[UploadOf(f)] = "none" /\ UploadOf(f) \in Tasks
      BY <1>a, <2>1, TaskFacts DEF CommitUploadTask, CreationOrder
    <3> QED
      BY <1>2, <1>3, <2>1, <3>1 DEF CommitUploadTask, CreateStep, queueVars, histories
  <2>2. CASE ~CommitUploadTask(f)
    BY <1>1, <1>3, <2>2 DEF CreateStep, Create, CommitFile, CommitRows, AbortCreate, queueVars,
                            histories
  <2> QED
    BY <2>1, <2>2
<1>4. ASSUME NEW f \in Files, NEW n \in 1..MaxDeletes, DeleteRequest(f, n) PROVE Goal
  <2>1. DeleteOf(f, n) \in Tasks
    BY TaskFacts
  <2> QED
    BY <1>2, <1>4, <2>1 DEF DeleteRequest, RequestDelete, queueVars, histories
<1>5. ASSUME NEW t \in Tasks, PublishTask(t) PROVE Goal
  BY <1>1, <1>5 DEF PublishTask, Sent, Queue!Publish, histories
<1>6. ASSUME NEW w \in Workers, ReportSuccess(w) PROVE Goal
  <2>a. PICK r \in Reports :
            /\ \E left \in SUBSET MayLeave(r) : Callback(r, left)
            /\ r.task = task(w) /\ r.success /\ r = Report(task(w), TRUE)
            /\ succeeded' = succeeded \union {task(w)}
    BY <1>6, CalmReport
  <2>1. PICK left \in SUBSET MayLeave(r) : Callback(r, left)
    BY <2>a
  <2>2. task(w) \in Tasks /\ r.task = task(w) /\ TaskAfter(r) = "completed"
    BY <2>a, ReportFacts, AfterFacts
  <2>3. reported' = reported \union {r}
    BY <1>a, <2>1, CallbackEffect
  <2>4. \A t \in Tasks : taskStatus[t] = "completed" => taskStatus'[t] = "completed"
    BY <1>a, <2>1, <2>2, CallbackEffect DEF BackendTypeOK
  <2>5. \A t \in Tasks : Report(t, FALSE) # r /\ (Report(t, TRUE) = r => t = task(w))
    BY <2>a, ReportFacts
  <2> QED
    BY <1>a, <2>a, <2>3, <2>4, <2>5
<1>7. ASSUME NEW w \in Workers, TakeMessage(w) \/ StoreChunk(w) \/ RemoveChunks(w) \/ LoopStep(w)
      PROVE  Goal
  BY <1>1, <1>7 DEF TakeMessage, StoreChunk, RemoveChunks, LoopStep, backendVars, queueVars,
                    Queue!Deliver, Queue!Connect, Queue!Acknowledge, Queue!Republish,
                    Queue!Discard, Queue!historyVars, histories
<1> HIDE DEF Goal
<1>8. Goal
  BY <1>3, <1>4, <1>5, <1>6, <1>7 DEF CalmNext
<1> QED
  BY <1>8 DEF Goal

\* Nobody is at work on an upload that has been reported: the queue hands it out
\* once only.
LEMMA CalmPuts ==
    ASSUME PartsInv, HandlerInv, CalmInv, Calm, NEW f \in Files \ early, DeleteRequested(f),
           NEW w \in Workers, StoreChunk(w)
    PROVE  file(w) # f
<1> SUFFICES ASSUME file(w) = f PROVE FALSE
  OBVIOUS
<1>1. progress[w].stage = "storing"
  BY DEF StoreChunk
<1>2. task(w).type = "upload"
  BY <1>1 DEF HandlerInv, WorkerType
<1>3. task(w) = UploadOf(f) /\ pc[w] = "handling"
  BY <1>1, <1>2, TaskAtWork
<1>4. UploadOf(f) \in succeeded
  <2>1. taskStatus[UploadOf(f)] = "completed"
    BY DEF CalmInv
  <2>2. Report(UploadOf(f), TRUE) \in reported
    BY <2>1, TaskFacts DEF PartsInv, BackendInv, FileInv, Told
  <2> QED
    BY <2>2, TaskFacts DEF CalmInv
<1>5. QP!TypeOK /\ QP!Paid(UploadOf(f)) /\ faults = 0
  BY TaskFacts DEF PartsInv, QP!IInv, Calm
<1>6. held[w].job # UploadOf(f)
  BY <1>3, <1>4, <1>5, QueueAssumptions, QP!DoneIsOver
<1> QED
  BY <1>3, <1>6 DEF task

\* So a file whose deletion has been requested in time gains no object.
LEMMA CalmStaysClean ==
    ASSUME PartsInv, HandlerInv, CalmInv, Calm, CalmNext, NEW f \in Files \ early,
           DeleteRequested(f)
    PROVE  \A e \in Endpoints : OfFile(e, f) = {} => OfFile(e, f)' = {}
<1>a. /\ StoreTypeOK
      /\ \A w \in Workers : progress[w].endpoint \in Endpoints
  BY DEF HandlerInv, Progress
<1> DEFINE Goal == \A e \in Endpoints : OfFile(e, f) = {} => OfFile(e, f)' = {}
<1>1. objects' = objects => Goal
  BY DEF OfFile
<1>2. ASSUME NEW w \in Workers, StoreChunk(w) PROVE Goal
  <2>1. file(w) # f
    BY <1>2, CalmPuts
  <2>2. objects' = [objects EXCEPT ![progress[w].endpoint] =
                        @ \union {<<file(w), progress[w].chunk>>}]
    BY <1>2 DEF StoreChunk, Put
  <2> QED
    BY <1>a, <2>1, <2>2 DEF OfFile, StoreTypeOK
<1>3. ASSUME NEW w \in Workers, RemoveChunks(w) PROVE Goal
  BY <1>a, <1>3 DEF RemoveChunks, RemovePrefix, OfFile, StoreTypeOK
<1>4. ASSUME NEW w \in Workers, TakeMessage(w) \/ ReportSuccess(w) \/ LoopStep(w)
      PROVE  objects' = objects
  BY <1>4 DEF TakeMessage, ReportSuccess, LoopStep
<1>5. ASSUME NEW g \in Files, CreateStep(g) \/ \E n \in 1..MaxDeletes : DeleteRequest(g, n)
      PROVE  objects' = objects
  BY <1>5 DEF CreateStep, DeleteRequest
<1>6. ASSUME NEW t \in Tasks, PublishTask(t) PROVE objects' = objects
  BY <1>6 DEF PublishTask
<1> HIDE DEF Goal
<1>7. Goal
  BY <1>1, <1>2, <1>3, <1>4, <1>5, <1>6 DEF CalmNext
<1> QED
  BY <1>7 DEF Goal

\* A delete handler that starts has everything before it.
LEMMA StartCleans ==
    ASSUME PartsInv, PartsInv', HandlerInv, NEW w \in Workers, TakeMessage(w)
    PROVE  progress'[w].stage # "failing" /\ WorkerCleans(w)'
<1>1. PICK t : t = task(w)'
  OBVIOUS
<1>2. progress' = [progress EXCEPT ![w] = Start(t)] /\ t \in Tasks
  BY <1>1, StartOfHandler
<1>3. PICK p : p = Start(t)
  OBVIOUS
<1>4. progress'[w] = p
  BY <1>2, <1>3 DEF HandlerInv
<1>5. /\ p.stage \in {"storing", "removing", "reporting"}
      /\ p.stage = "removing" => p.endpoint = 1
      /\ p.stage = "reporting" => t.type = "upload"
  BY <1>2, <1>3, Places
<1> QED
  BY <1>1, <1>4, <1>5 DEF WorkerCleans, CleanUpTo, Endpoints

\* One that goes on has cleaned one endpoint more.
LEMMA RemoveCleans ==
    ASSUME HandlerInv, NEW w \in Workers, progress[w].stage = "removing", WorkerCleans(w),
           RemoveChunks(w), NEW f, f = file(w), early' = early
    PROVE  progress'[w].stage # "failing" /\ WorkerCleans(w)'
<1>1. PICK e \in Endpoints : e = progress[w].endpoint
  BY DEF HandlerInv, Progress
<1>2. task(w)' = task(w) /\ file(w)' = f /\ task(w).type = "delete"
  BY DEF RemoveChunks, queueVars, file, task, HandlerInv, WorkerType
<1>3. objects' = [objects EXCEPT ![e] = @ \ OfFile(e, f)]
  BY <1>1 DEF RemoveChunks, RemovePrefix
<1>4. OfFile(e, f)' = {} /\ \A i \in Endpoints \ {e} : OfFile(i, f)' = OfFile(i, f)
  BY <1>3 DEF OfFile, HandlerInv, StoreTypeOK
<1>5. f \notin early => CleanUpTo(f, e)
  BY <1>1, <1>2 DEF WorkerCleans
<1>6. f \notin early => \A i \in Endpoints : i < e + 1 => OfFile(i, f)' = {}
  BY <1>4, <1>5 DEF CleanUpTo, Endpoints
<1>7. CASE e < NumEndpoints
  <2>1. progress'[w] = At("removing", 0, e + 1, FALSE)
    BY <1>1, <1>7 DEF RemoveChunks, Moves, AfterRemove, HandlerInv
  <2> QED
    BY <1>2, <1>6, <2>1 DEF WorkerCleans, CleanUpTo, At
<1>8. CASE ~(e < NumEndpoints)
  <2>1. progress'[w] = At("reporting", 0, 1, FALSE)
    BY <1>1, <1>8 DEF RemoveChunks, Moves, AfterRemove, HandlerInv
  <2>2. f \notin early => \A i \in Endpoints : OfFile(i, f)' = {}
    BY <1>6, <1>8, NumEndpointsAssumption DEF Endpoints
  <2> QED
    BY <1>2, <2>1, <2>2 DEF WorkerCleans, Clean, At
<1> QED
  BY <1>7, <1>8

\* A handler that stays keeps what it has cleaned.
LEMMA StaysClean ==
    ASSUME PartsInv, HandlerInv, NamedInv, CalmInv, Calm, CalmNext, early \subseteq early',
           NEW v \in Workers, Stays(v)
    PROVE  progress'[v].stage # "failing" /\ WorkerCleans(v)'
<1>1. progress[v].stage # "failing" /\ WorkerCleans(v) /\ progress'[v] = progress[v]
  BY DEF CalmInv, Stays
<1>2. SUFFICES ASSUME progress[v].stage # "none", task(v)'.type = "delete",
                      NEW f, f = file(v)', f \notin early'
               PROVE  /\ progress'[v].stage = "removing" =>
                             \A i \in Endpoints : i < progress'[v].endpoint => OfFile(i, f)' = {}
                      /\ progress'[v].stage = "reporting" =>
                             \A i \in Endpoints : OfFile(i, f)' = {}
  BY <1>1 DEF WorkerCleans, CleanUpTo, Clean
<1>3. task(v)' = task(v) /\ file(v) = f
  BY <1>2, TaskAtWork DEF Stays, task, file
<1>4. f \in Files \ early /\ DeleteRequested(f)
  BY <1>2, <1>3, TaskAtWork, DeleteAtWork
<1>5. \A e \in Endpoints : OfFile(e, f) = {} => OfFile(e, f)' = {}
  BY <1>4, CalmStaysClean
<1>6. /\ progress[v].stage = "removing" => CleanUpTo(f, progress[v].endpoint)
      /\ progress[v].stage = "reporting" => Clean(f)
  BY <1>1, <1>2, <1>3 DEF WorkerCleans
<1> QED
  BY <1>1, <1>5, <1>6 DEF CleanUpTo, Clean

\* The delete handlers keep to what they have cleaned, and no handler fails.
LEMMA CalmHandlers ==
    ASSUME PartsInv, PartsInv', HandlerInv, NamedInv, CalmInv, Calm, CalmNext,
           early \subseteq early'
    PROVE  \A v \in Workers : progress'[v].stage # "failing" /\ WorkerCleans(v)'
<1>a. WorkerTypes /\ \A v \in Workers : WorkerCleans(v)
  BY TypesOfWorkers DEF CalmInv
<1> DEFINE Good(v) == progress'[v].stage # "failing" /\ WorkerCleans(v)'
           Goal == \A v \in Workers : Good(v)
<1>b. \A v \in Workers : Stays(v) => Good(v)
  BY StaysClean
<1>1. (\A v \in Workers : Stays(v)) => Goal
  BY <1>b
<1>2. ASSUME NEW w \in Workers, \A v \in Workers \ {w} : Stays(v), Good(w) PROVE Goal
  BY <1>b, <1>2
<1> HIDE DEF Goal
<1>3. ASSUME NEW w \in Workers, TakeMessage(w) PROVE Goal
  <2>1. \A v \in Workers \ {w} : Stays(v)
    BY <1>a, <1>3, StartOfHandler, OtherWorkers
  <2> QED
    BY <1>2, <1>3, <2>1, StartCleans
<1>4. ASSUME NEW w \in Workers, StoreChunk(w) PROVE Goal
  <2>1. progress[w].stage = "storing" /\ GoesTo(w, AfterPut(w, TRUE))
    BY <1>4, MovesOfHandler DEF StoreChunk
  <2>2. \A v \in Workers \ {w} : Stays(v)
    BY <1>a, <2>1, OtherWorkers DEF GoesTo
  <2>3. task(w)' = task(w) /\ task(w).type = "upload"
    BY <2>1 DEF HandlerInv, WorkerType, GoesTo, task
  <2>4. progress'[w] = AfterPut(w, TRUE)
    BY <1>a, <2>1 DEF GoesTo, WorkerTypes
  <2>5. AfterPut(w, TRUE).stage # "failing"
    BY DEF AfterPut, At
  <2>6. Good(w)
    BY <2>3, <2>4, <2>5 DEF WorkerCleans
  <2> QED
    BY <1>2, <2>2, <2>6
<1>5. ASSUME NEW w \in Workers, RemoveChunks(w) PROVE Goal
  <2>1. progress[w].stage = "removing" /\ GoesTo(w, AfterRemove(w)) /\ early' = early
    BY <1>5, MovesOfHandler DEF RemoveChunks
  <2>2. \A v \in Workers \ {w} : Stays(v)
    BY <1>a, <2>1, OtherWorkers DEF GoesTo
  <2>3. Good(w)
    BY <1>5, <1>a, <2>1, RemoveCleans
  <2> QED
    BY <1>2, <2>2, <2>3
<1>6. ASSUME NEW w \in Workers, ReportSuccess(w) PROVE Goal
  <2>1. Rests(w)
    BY <1>6, <1>a, EndsOfHandler
  <2>2. \A v \in Workers \ {w} : Stays(v)
    BY <1>a, <2>1, OtherWorkers DEF Rests
  <2>3. progress'[w].stage = "none"
    BY <1>a, <2>1, Places DEF Rests, WorkerTypes
  <2>4. Good(w)
    BY <2>3 DEF WorkerCleans
  <2> QED
    BY <1>2, <2>2, <2>4
<1>7. ASSUME NEW w \in Workers, LoopStep(w) PROVE Goal
  BY <1>1, <1>7, <1>a, LoopKeepsHandlers
<1>8. Goal
  BY <1>1, <1>3, <1>4, <1>5, <1>6, <1>7, OthersKeepHandlers DEF CalmNext
<1> QED
  BY <1>8 DEF Goal

\* A file becomes deleted only by the report of a handler that has cleaned up after it.
LEMMA CalmDeleted ==
    ASSUME PartsInv, HandlerInv, CalmNext, NEW f \in Files, fileStatus'[f] = "deleted"
    PROVE  \/ fileStatus[f] = "deleted"
           \/ \E w \in Workers : ReportSuccess(w) /\ task(w).type = "delete" /\ file(w) = f
<1> SUFFICES ASSUME fileStatus[f] # "deleted"
             PROVE  \E w \in Workers : ReportSuccess(w) /\ task(w).type = "delete" /\ file(w) = f
  OBVIOUS
<1>a. fileStatus \in [Files -> FileStatuses]
  BY DEF PartsInv, BackendInv, BackendTypeOK
<1>1. ASSUME NEW g \in Files, CreateStep(g) \/ \E n \in 1..MaxDeletes : DeleteRequest(g, n)
      PROVE  FALSE
  BY <1>1, <1>a DEF CreateStep, Create, CommitFile, CommitRows, CommitUploadTask, AbortCreate,
                    DeleteRequest, RequestDelete
<1>2. ASSUME NEW t \in Tasks, PublishTask(t) PROVE FALSE
  BY <1>2 DEF PublishTask, Sent
<1>3. ASSUME NEW w \in Workers,
             TakeMessage(w) \/ StoreChunk(w) \/ RemoveChunks(w) \/ LoopStep(w)
      PROVE  FALSE
  BY <1>3 DEF TakeMessage, StoreChunk, RemoveChunks, LoopStep, backendVars
<1>4. ASSUME NEW w \in Workers, ReportSuccess(w)
      PROVE  task(w).type = "delete" /\ file(w) = f
  <2>a. PICK r \in Reports :
            /\ \E left \in SUBSET MayLeave(r) : Callback(r, left)
            /\ r.task = task(w) /\ r.success
    BY <1>4, CalmReport
  <2>1. PICK left \in SUBSET MayLeave(r) : Callback(r, left)
    BY <2>a
  <2>2. BackendTypeOK /\ r.task.file \in Files
    BY ReportFacts DEF PartsInv, BackendInv
  <2>3. FileAfter(r) = "deleted" /\ r.task.file = f
    BY <1>a, <2>1, <2>2, CallbackEffect
  <2> QED
    BY <2>a, <2>3, AfterFacts DEF file
<1> QED
  BY <1>1, <1>2, <1>3, <1>4 DEF CalmNext

\* In time is: after the upload was reported.
LEMMA CalmRequests ==
    ASSUME PartsInv, HandlerInv, CalmInv, Calm, CalmNext, NEW f \in Files \ early',
           DeleteRequested(f)'
    PROVE  f \notin early /\ taskStatus'[UploadOf(f)] = "completed"
<1>a. UploadOf(f) \in Tasks /\ \A t \in DeletesOf(f) : t \in Tasks
  BY TaskFacts
<1>b. \A t \in Tasks : taskStatus[t] = "completed" => taskStatus'[t] = "completed"
  BY CalmTasks
<1>c. early \subseteq early'
  BY DEF CalmNext, CreateStep, DeleteRequest, PublishTask, TakeMessage, StoreChunk, RemoveChunks,
         ReportSuccess, LoopStep
<1>1. CASE DeleteRequested(f)
  BY <1>1, <1>a, <1>b, <1>c DEF CalmInv
<1>2. CASE ~DeleteRequested(f)
  <2>1. PICK t \in DeletesOf(f) : taskStatus[t] = "none" /\ taskStatus'[t] # "none"
    BY <1>2 DEF DeleteRequested
  <2>2. BackendTypeOK /\ t \in Tasks /\ t # UploadOf(f) /\ t.file = f
    BY <1>a DEF PartsInv, BackendInv, DeletesOf, DeleteOf, UploadOf
  <2>3. ASSUME NEW g \in Files, CreateStep(g) PROVE FALSE
    <3>1. t # UploadOf(g)
      BY DEF DeletesOf, DeleteOf, UploadOf
    <3> QED
      BY <2>1, <2>2, <2>3, <3>1 DEF CreateStep, Create, CommitFile, CommitRows, CommitUploadTask,
                                    AbortCreate, BackendTypeOK
  <2>4. ASSUME NEW u \in Tasks, PublishTask(u) PROVE FALSE
    BY <2>1, <2>4 DEF PublishTask, Sent
  <2>5. ASSUME NEW w \in Workers, ReportSuccess(w) PROVE FALSE
    <3>a. PICK r \in Reports : \E left \in SUBSET MayLeave(r) : Callback(r, left)
      BY <2>5, CalmReport
    <3>1. PICK left \in SUBSET MayLeave(r) : Callback(r, left)
      BY <3>a
    <3> QED
      BY <2>1, <2>2, <3>1, CallbackEffect DEF BackendTypeOK
  <2>6. ASSUME NEW w \in Workers,
               TakeMessage(w) \/ StoreChunk(w) \/ RemoveChunks(w) \/ LoopStep(w)
        PROVE  FALSE
    BY <2>1, <2>6 DEF TakeMessage, StoreChunk, RemoveChunks, LoopStep, backendVars
  <2>7. ASSUME NEW g \in Files, NEW n \in 1..MaxDeletes, DeleteRequest(g, n)
        PROVE  taskStatus[UploadOf(f)] = "completed"
    <3>1. taskStatus' = [taskStatus EXCEPT ![DeleteOf(g, n)] = "pending"]
      BY <2>7 DEF DeleteRequest, RequestDelete
    <3>2. t = DeleteOf(g, n)
      BY <2>1, <2>2, <3>1 DEF BackendTypeOK
    <3>3. g = f
      BY <2>2, <3>2 DEF DeleteOf
    <3> QED
      BY <2>7, <3>3 DEF DeleteRequest
  <2> QED
    BY <1>a, <1>b, <1>c, <2>3, <2>4, <2>5, <2>6, <2>7 DEF CalmNext
<1> QED
  BY <1>1, <1>2

\* As long as nothing goes wrong every step keeps the rest in order.
LEMMA StepCalm ==
    PartsInv /\ HandlerInv /\ NamedInv /\ CalmInv /\ [Next]_vars => CalmInv'
<1> SUFFICES ASSUME PartsInv, HandlerInv, NamedInv, CalmInv, [Next]_vars PROVE CalmInv'
  OBVIOUS
<1>1. CASE Next
  <2> SUFFICES ASSUME Calm' PROVE CalmInv'
    BY DEF CalmInv
  <2>1. Calm /\ CalmNext /\ PartsInv'
    BY <1>1, CalmBefore, CalmSteps, StepParts
  <2>2. early \subseteq early' /\ late' = {}
    <3>1. late = {}
      BY <2>1 DEF CalmInv
    <3> QED
      BY <2>1, <3>1 DEF CalmNext, CreateStep, DeleteRequest, PublishTask, TakeMessage, StoreChunk,
                        RemoveChunks, ReportSuccess, LoopStep, handlerVars
  <2>3. \A w \in Workers : progress'[w].stage # "failing" /\ WorkerCleans(w)'
    BY <2>1, <2>2, CalmHandlers
  <2>4. \A t \in Tasks : /\ Report(t, FALSE) \notin reported'
                         /\ Report(t, TRUE) \in reported' => t \in succeeded'
    BY <2>1, CalmTasks
  <2>5. \A f \in Files \ early' : DeleteRequested(f)' => taskStatus'[UploadOf(f)] = "completed"
    BY <2>1, CalmRequests
  <2>6. ASSUME NEW f \in Files \ early', fileStatus'[f] = "deleted" PROVE Clean(f)'
    <3>1. CASE fileStatus[f] = "deleted"
      <4>1. DeleteRequested(f)
        BY <3>1, TaskFacts DEF PartsInv, BackendInv, FileInv, Told, DeleteRequested
      <4>2. \A e \in Endpoints : OfFile(e, f) = {} => OfFile(e, f)' = {}
        BY <2>1, <2>2, <4>1, CalmStaysClean
      <4>3. Clean(f)
        BY <2>1, <2>2, <3>1 DEF CalmInv
      <4> QED
        BY <4>2, <4>3 DEF Clean
    <3>2. ASSUME NEW w \in Workers, ReportSuccess(w), task(w).type = "delete", file(w) = f
          PROVE  Clean(f)'
      <4>1. progress[w].stage = "reporting" /\ objects' = objects
        BY <3>2 DEF ReportSuccess
      <4>2. WorkerCleans(w) /\ f \notin early
        BY <2>1, <2>2 DEF CalmInv
      <4>3. Clean(f)
        BY <3>2, <4>1, <4>2 DEF WorkerCleans
      <4> QED
        BY <4>1, <4>3 DEF Clean, OfFile
    <3> QED
      BY <2>1, <2>6, <3>1, <3>2, CalmDeleted
  <2> QED
    BY <2>2, <2>3, <2>4, <2>5, <2>6 DEF CalmInv
<1>2. CASE UNCHANGED vars
  <2>1. UNCHANGED <<reported, taskStatus, fileStatus, held, faults, succeeded, objects, progress,
                    late, errors, early>>
    BY <1>2 DEF vars, backendVars, histories, queueVars, handlerVars
  <2>2. \A w \in Workers : WorkerCleans(w) => WorkerCleans(w)'
    BY <2>1 DEF WorkerCleans, CleanUpTo, Clean, OfFile, task, file
  <2>3. \A f \in Files : (Clean(f) => Clean(f)') /\ (DeleteRequested(f)' => DeleteRequested(f))
    BY <2>1 DEF Clean, OfFile, DeleteRequested
  <2>4. (Calm' => Calm) /\ early' = early
    BY <2>1 DEF Calm
  <2> QED
    BY <2>1, <2>2, <2>3, <2>4 DEF CalmInv
<1> QED
  BY <1>1, <1>2

-----------------------------------------------------------------------------
(* The theorems. *)

\* The initial states satisfy the invariant.
LEMMA InitDriveInv == Init => DriveInv
<1> SUFFICES ASSUME Init PROVE DriveInv
  OBVIOUS
<1>a. /\ BackendInit /\ StoreInit /\ QP!Init
      /\ progress = [w \in Workers |-> Resting] /\ late = {} /\ errors = 0 /\ early = {}
      /\ seen = [r \in {} |-> {}]
  BY SameQueue DEF Init
<1>1. PartsInv
  <2>1. BackendInv
    BY <1>a, BackendInitInv
  <2>2. QP!IInv
    BY <1>a, QueueAssumptions, QP!InitIInv
  <2>3. \A t \in Tasks : QP!Paid(t)
    BY <1>a, QueueAssumptions, QP!InitPaid
  <2> QED
    BY <2>1, <2>2, <2>3 DEF PartsInv
<1>2. HandlerInv
  <2>1. \A w \in Workers : pc[w] = "down"
    BY <1>a DEF QP!Init
  <2>2. StoreTypeOK
    BY <1>a DEF StoreInit, StoreTypeOK
  <2>3. \A w \in Workers : progress[w] = Resting
    BY <1>a
  <2>4. \A w \in Workers : WorkerType(w)
    BY <2>1, <2>3, Places DEF WorkerType
  <2>5. UnderWay = {}
    BY <1>a, <2>3, Places DEF UnderWay, Calling
  <2> QED
    BY <1>a, <2>2, <2>4, <2>5, Places, ErrorsAssumption DEF HandlerInv
<1>b. /\ \A t \in Tasks : taskStatus[t] = "none"
      /\ \A f \in Files : fileStatus[f] = "absent" /\ creating[f] = "no"
      /\ toPublish = {} /\ published = {} /\ reported = {}
  BY <1>a DEF BackendInit, QP!Init, QP!Contract!Init
<1>3. NamedInv
  BY <1>a, <1>b DEF NamedInv, ReportsNameTasks
<1>c. \A w \in Workers : progress[w].stage = "none"
  BY <1>a, Places
<1>4. StoredInv
  BY <1>a, <1>b, <1>c DEF StoredInv, WorkerStored, RowsExist
<1>5. CalmInv
  <2>1. \A f \in Files : ~DeleteRequested(f)
    BY <1>b, TaskFacts DEF DeleteRequested
  <2> QED
    BY <1>a, <1>b, <1>c, <2>1 DEF CalmInv, WorkerCleans
<1> QED
  BY <1>1, <1>2, <1>3, <1>4, <1>5 DEF DriveInv

\* Every step keeps it.
LEMMA StepDriveInv == DriveInv /\ [Next]_vars => DriveInv'
BY StepParts, StepHandlers, StepNamed, StepStored, StepCalm DEF DriveInv

\* The invariant holds in every reachable state: what each part guarantees, and what
\* ties the handlers, the reports and the object store to the records.
THEOREM DriveInvariant == Spec => []DriveInv
BY InitDriveInv, StepDriveInv, PTL DEF Spec

\* Every variable of the composed system keeps its type: the records, the messages,
\* the workers and the store (main.py, queue_worker.py, upload_worker.py).
THEOREM DriveTypeCorrect == Spec => []TypeOK
<1>1. DriveInv => TypeOK
  <2> SUFFICES ASSUME DriveInv PROVE TypeOK
    OBVIOUS
  <2>1. BackendTypeOK
    BY DEF DriveInv, PartsInv, BackendInv
  <2>2. Queue!TypeOK
    BY SameQueue DEF DriveInv, PartsInv, QP!IInv
  <2> QED
    BY <2>1, <2>2 DEF DriveInv, HandlerInv, WorkerType, TypeOK
<1> QED
  BY <1>1, DriveInvariant, PTL

\* No message and no report, however late, names a task the backend does not have
\* (main.py commits before it publishes).
THEOREM CallbacksFindTheirTask == Spec => []ReportsNameTasks
<1>1. DriveInv => ReportsNameTasks
  BY DEF DriveInv, NamedInv
<1> QED
  BY <1>1, DriveInvariant, PTL

\* A file shown as ready whose deletion nobody has requested has every chunk on some
\* endpoint, through any retries, crashes, redeliveries, late and overlapping reports
\* (upload_worker.py reports only after store_bytes has gone through); and its rows say
\* so, unless its last report was overtaken (main.py reads task, file and rows apart).
THEOREM ReadyFilesAreStored == Spec => []ReadyIsStored
<1>1. DriveInv => ReadyIsStored
  <2> SUFFICES ASSUME DriveInv, NEW f \in Files, fileStatus[f] = "ready", ~DeleteRequested(f)
               PROVE  /\ \A c \in 0..NumChunks[f] - 1 : Stored(f, c)
                      /\ NumChunks[f] > 0 /\ f \notin overtaken => rowStatus[f] = "ready"
    BY DEF ReadyIsStored
  <2>1. AllStored(f) /\ RowsExist(f)
    BY DEF DriveInv, StoredInv
  <2>2. FileInv(f)
    BY DEF DriveInv, PartsInv, BackendInv
  <2>3. creating[f] = "done"
    BY <2>2, TaskFacts DEF FileInv, Told, CreationOrder
  <2>4. f \notin overtaken => rowStatus[f] \in {"none", "ready"}
    BY <2>2 DEF FileInv, RowsAgree
  <2> QED
    BY <2>1, <2>3, <2>4 DEF AllStored, RowsExist
<1> QED
  BY <1>1, DriveInvariant, PTL

\* While no call has failed and no fault has happened, no file is shown as failed, and
\* one shown as deleted, its deletion requested after the upload was reported, has left
\* no object behind (delete_worker.py goes through every endpoint before it reports).
THEOREM CalmDeletesAreClean == Spec => []CalmDeleteIsClean
<1>1. DriveInv => CalmDeleteIsClean
  <2> SUFFICES ASSUME DriveInv, NEW f \in Files \ early, errors = 0, faults = 0
               PROVE  /\ fileStatus[f] # "failed"
                      /\ fileStatus[f] = "deleted" => \A e \in Endpoints : OfFile(e, f) = {}
    BY DEF CalmDeleteIsClean
  <2>1. /\ \A t \in Tasks : Report(t, FALSE) \notin reported
        /\ fileStatus[f] = "deleted" => Clean(f)
    BY DEF DriveInv, CalmInv, Calm
  <2>2. fileStatus[f] = "failed" => \E t \in TasksOf(f) : Report(t, FALSE) \in reported
    BY DEF DriveInv, PartsInv, BackendInv, FileInv, Told
  <2> QED
    BY <2>1, <2>2, TaskFacts DEF Clean
<1> QED
  BY <1>1, DriveInvariant, PTL

\* The whole system uses the records as Backend says: so all that BackendProofs shows
\* holds of it.
THEOREM DriveRefinesBackend == Spec => BackendSpec
<1>1. Init => BackendInit
  BY DEF Init
<1>2. DriveInv /\ [Next]_vars => [BackendNext]_backendVars
  <2>1. DriveInv /\ Next => [BackendNext]_backendVars
    BY StepIsBackendStep DEF DriveInv
  <2>2. UNCHANGED vars => UNCHANGED backendVars
    BY DEF vars
  <2> QED
    BY <2>1, <2>2
<1> QED
  BY <1>1, <1>2, DriveInvariant, PTL DEF Spec, BackendSpec

\* And the queues as JobQueue says.
THEOREM DriveRefinesQueue == Spec => QP!Init /\ [][QP!Next]_(QP!queueVars)
<1>1. Init => QP!Init
  BY SameQueue DEF Init
<1>2. [Next]_vars => [QP!Next]_(QP!queueVars)
  <2>1. UNCHANGED vars => UNCHANGED QP!queueVars
    BY QueueStands DEF vars
  <2> QED
    BY <2>1, StepIsQueueStep
<1> QED
  BY <1>1, <1>2, PTL DEF Spec

\* So no accepted task is ever lost, and none is given up before an attempt has failed
\* at every retry number, with the real handlers in place of JobQueue's arbitrary ones
\* (queue_worker.py).
THEOREM DriveLosesNoTask == Spec => [](QP!NoJobLost /\ QP!ExhaustedAfterEveryRetry)
<1>1. DriveInv => QP!NoJobLost /\ QP!ExhaustedAfterEveryRetry
  BY DEF DriveInv, PartsInv, QP!IInv
<1> QED
  BY <1>1, DriveInvariant, PTL

\* A task that runs a second time has been paid for by a fault, whatever its handler
\* does (queue_worker.py).
THEOREM DriveDuplicatesArePaidFor == Spec => []QP!DuplicatesNeedFaults
<1>1. (\A t \in Tasks : QP!Paid(t)) => QP!DuplicatesNeedFaults
  BY DEF QP!Paid, QP!DuplicatesNeedFaults, QP!Pending, QP!SlotsOf, QP!Hands, QP!Due
<1>2. DriveInv => QP!DuplicatesNeedFaults
  BY <1>1 DEF DriveInv, PartsInv
<1> QED
  BY <1>2, DriveInvariant, PTL

\* And the system keeps the at-least-once contract of its tasks, as far as safety goes:
\* every step succeeds, fails, gives up or accepts one as the contract allows, or leaves
\* it alone (queue_worker.py, upload_worker.py, delete_worker.py).
THEOREM DriveImplementsContract == Spec => QP!ContractSafety
<1>1. Init => QP!Contract!Init
  BY SameQueue DEF Init, QP!Init
<1>2. DriveInv /\ [Next]_vars => [QP!Contract!Next]_(QP!Contract!contractVars)
  <2> SUFFICES ASSUME DriveInv, [Next]_vars
               PROVE  [QP!Contract!Next]_(QP!Contract!contractVars)
    OBVIOUS
  <2>1. QP!IInv
    BY DEF DriveInv, PartsInv
  <2>2. [QP!Next]_(QP!queueVars)
    BY StepIsQueueStep, QueueStands DEF vars
  <2> QED
    BY <2>1, <2>2, QueueAssumptions, QP!StepImplementsContract
<1> QED
  BY <1>1, <1>2, DriveInvariant, PTL DEF Spec, QP!ContractSafety

\* What stands in the records was reported by some worker, and an answered report leaves
\* nothing pending, whatever workers, retries and late reports do (main.py).
THEOREM DriveStatusReported == Spec => []StatusIsReported
BY DriveRefinesBackend, StatusReported

\* Unless the last report on a file was overtaken, a task explains its status and its
\* rows do not say otherwise; and rows that a delete has removed never come back (main.py).
THEOREM DriveKeepsTheRecords == Spec => []RecordsAgree /\ RowsNeverReturn
BY DriveRefinesBackend, RecordsStayInAgreement, RowsStayRemoved

=============================================================================
