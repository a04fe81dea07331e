------------------------------ MODULE RudyDrive ------------------------------
(***************************************************************************)
(* Rudy Drive's upload and delete, end to end: the backend's records       *)
(* (Backend), its messages in the two queues and the workers that consume  *)
(* them (JobQueue), and the object store the workers write to (ChunkStore).*)
(*                                                                         *)
(* The handlers (upload_worker.py, delete_worker.py) go through the chunks *)
(* and endpoints one call at a time and then report to the backend over    *)
(* HTTP.  A call may fail, a report may be refused, and one that times out *)
(* may still be carried out later.  The client deletes a file under the id *)
(* it was uploaded with (upload_id = file_id, as api.ts sends it).         *)
(***************************************************************************)
EXTENDS Backend, ChunkStore, FiniteSets

CONSTANTS UploadWorkers, DeleteWorkers,
          MaxRetries,       \* QUEUE_MAX_RETRIES
          MaxFaults,        \* bound on queue faults, see JobQueue
          MaxErrors,        \* bound on failed storage and HTTP calls
          NoMessage

Workers == UploadWorkers \union DeleteWorkers

ASSUME FilesAssumption == Files \subseteq StoredFiles
ASSUME WorkersAssumption == IsFiniteSet(Workers)
ASSUME RetriesAssumption == MaxRetries \in Nat
ASSUME FaultsAssumption == MaxFaults \in Nat
ASSUME ErrorsAssumption == MaxErrors \in Nat
ASSUME MessageAssumption == NoMessage \notin [job : Tasks, retry : 0..MaxRetries]

VARIABLES queue, pc, held, open, faults, published, succeeded, exhausted, failedAt,
          progress,     \* per worker, where its handler stands
          late,         \* reports whose sender has given up or gone, and which may still
                        \* be carried out
          seen,         \* per report under way, what the backend may have read of it
          errors,       \* failed storage and HTTP calls so far
          early         \* history: files deleted before their upload was reported

Queue == INSTANCE JobQueue
         WITH Jobs <- Tasks,
              Queues <- {"upload.chunk", "delete.chunk"},
              QueueOf <- [t \in Tasks |-> IF t.type = "upload" THEN "upload.chunk"
                                                               ELSE "delete.chunk"],
              Consumes <- [w \in Workers |-> IF w \in UploadWorkers THEN "upload.chunk"
                                                                    ELSE "delete.chunk"]

queueVars == <<queue, pc, held, open, faults, published, succeeded, exhausted, failedAt>>
handlerVars == <<progress, late, errors>>
vars == <<backendVars, queueVars, objects, handlerVars, seen, early>>

\* stage   "none" outside the handler, then "storing" or "removing", "reporting" the
\*         success, or "failing" when the failure is to be reported
\* chunk, endpoint   the next call to make
\* stored  whether an endpoint has taken the present chunk
Progress == [stage : {"none", "storing", "removing", "reporting", "failing"},
             chunk : Nat, endpoint : Endpoints, stored : BOOLEAN]

At(stage, chunk, endpoint, stored) ==
    [stage |-> stage, chunk |-> chunk, endpoint |-> endpoint, stored |-> stored]

Resting == At("none", 0, 1, FALSE)

task(w) == held[w].job
file(w) == task(w).file

\* The workers in a call to the backend, and all reports under way.
Calling == {w \in Workers : progress[w].stage \in {"reporting", "failing"}}

ReportOf(w) == Report(task(w), progress[w].stage = "reporting")

UnderWay == late \union {ReportOf(w) : w \in Calling}

TypeOK == /\ BackendTypeOK
          /\ StoreTypeOK
          /\ Queue!TypeOK
          /\ progress \in [Workers -> Progress]
          /\ \A w \in Workers : progress[w].stage = "none" <=> pc[w] # "handling"
          /\ late \subseteq Reports
          /\ seen \in [UnderWay -> SUBSET Items]
          /\ errors \in 0..MaxErrors
          /\ early \subseteq Files

Init == /\ BackendInit
        /\ StoreInit
        /\ Queue!Init
        /\ progress = [w \in Workers |-> Resting]
        /\ late = {}
        /\ seen = [r \in {} |-> {}]
        /\ errors = 0
        /\ early = {}

-----------------------------------------------------------------------------
(* Requests of the owner. *)

CreateStep(f) == /\ Create(f)
                 /\ UNCHANGED <<queueVars, objects, handlerVars, early>>

DeleteRequest(f, n) ==
    /\ RequestDelete(f, n)
    /\ early' = IF taskStatus[UploadOf(f)] = "completed" THEN early ELSE early \union {f}
    /\ UNCHANGED <<queueVars, objects, handlerVars>>

PublishTask(t) == /\ Sent(t)
                  /\ Queue!Publish(t)
                  /\ UNCHANGED <<objects, handlerVars, early>>

\* RabbitMQ cannot be reached: the client gets an error, the records stay.
PublishFails(t) == /\ Sent(t)
                   /\ errors < MaxErrors
                   /\ errors' = errors + 1
                   /\ UNCHANGED <<queueVars, objects, progress, late, early>>

-----------------------------------------------------------------------------
(* The reports under way.  The backend reads task, file and rows for a report at any  *)
(* time until it commits (TaskTransactions has the statements); what it has read as   *)
(* the report makes it, it may leave out then.  The order of the reads is left open,  *)
(* and reports that are alike count as one.                                           *)

Watch == seen' = [r \in UnderWay' |->
                    Shown(r)' \union (IF r \in DOMAIN seen THEN seen[r] ELSE {})]

\* Report r is committed, without what the backend read before it was overtaken.
Reaches(r) == \E left \in SUBSET (MayLeave(r) \intersect seen[r]) : Callback(r, left)

-----------------------------------------------------------------------------
(* The handlers. *)

\* The first call of the handler for task t; an empty file has no chunk to store.
Start(t) == IF t.type = "delete" THEN At("removing", 0, 1, FALSE)
            ELSE IF NumChunks[t.file] = 0 THEN At("reporting", 0, 1, FALSE)
            ELSE At("storing", 0, 1, FALSE)

TakeMessage(w) == /\ Queue!Deliver(w)
                  /\ progress' = [progress EXCEPT ![w] = Start(held'[w].job)]
                  /\ UNCHANGED <<backendVars, objects, late, errors, early>>

Moves(w, p) == progress' = [progress EXCEPT ![w] = p]

\* Mutant: put_object_all never raises.
AfterPutUnchecked(w, stored) ==
    LET p == progress[w]
    IN  IF p.endpoint < NumEndpoints THEN At("storing", p.chunk, p.endpoint + 1, stored)
        ELSE IF p.chunk + 1 < NumChunks[file(w)] THEN At("storing", p.chunk + 1, 1, FALSE)
        ELSE At("reporting", 0, 1, FALSE)

\* put_object_all goes on to the next endpoint, raises after the last one if none
\* has taken the chunk, and store_bytes goes on to the next chunk otherwise.
AfterPut(w, stored) ==
    LET p == progress[w]
    IN  IF p.endpoint < NumEndpoints THEN At("storing", p.chunk, p.endpoint + 1, stored)
        ELSE IF ~stored THEN At("failing", 0, 1, FALSE)
        ELSE IF p.chunk + 1 < NumChunks[file(w)] THEN At("storing", p.chunk + 1, 1, FALSE)
        ELSE At("reporting", 0, 1, FALSE)

StoreChunk(w) ==
    /\ progress[w].stage = "storing"
    /\ Put(progress[w].endpoint, file(w), progress[w].chunk)
    /\ Moves(w, AfterPut(w, TRUE))
    /\ UNCHANGED <<backendVars, queueVars, late, errors, early>>

StoreChunkFails(w) ==
    /\ progress[w].stage = "storing"
    /\ errors < MaxErrors
    /\ errors' = errors + 1
    /\ PutFails(progress[w].endpoint, file(w), progress[w].chunk)
    /\ Moves(w, AfterPut(w, progress[w].stored))
    /\ UNCHANGED <<backendVars, queueVars, late, early>>

\* Mutants: only the first endpoint is cleaned, as delete_prefix would; one
\* endpoint too many is.
AfterRemoveFirst(w) == At("reporting", 0, 1, FALSE)
AfterRemovePastEnd(w) == IF progress[w].endpoint <= NumEndpoints
                         THEN At("removing", 0, progress[w].endpoint + 1, FALSE)
                         ELSE At("reporting", 0, 1, FALSE)

\* delete_prefix_all goes through every endpoint, whatever fails on the way.
AfterRemove(w) == IF progress[w].endpoint < NumEndpoints
                  THEN At("removing", 0, progress[w].endpoint + 1, FALSE)
                  ELSE At("reporting", 0, 1, FALSE)

RemoveChunks(w) ==
    /\ progress[w].stage = "removing"
    /\ RemovePrefix(progress[w].endpoint, file(w))
    /\ Moves(w, AfterRemove(w))
    /\ UNCHANGED <<backendVars, queueVars, late, errors, early>>

RemoveChunksFails(w) ==
    /\ progress[w].stage = "removing"
    /\ errors < MaxErrors
    /\ errors' = errors + 1
    /\ RemoveFails(progress[w].endpoint, file(w))
    /\ Moves(w, AfterRemove(w))
    /\ UNCHANGED <<backendVars, queueVars, late, early>>

ReportSuccess(w) ==
    /\ progress[w].stage = "reporting"
    /\ Reaches(ReportOf(w))
    /\ Queue!HandlerReturns(w)
    /\ Moves(w, Resting)
    /\ UNCHANGED <<objects, late, errors, early>>

\* task_success raises: the call took longer than BACKEND_TIMEOUT_SECONDS and is still
\* on its way.  One that was refused or never got there is a late one that is never
\* carried out.
ReportSuccessFails(w) ==
    /\ progress[w].stage = "reporting"
    /\ errors < MaxErrors
    /\ errors' = errors + 1
    /\ late' = late \union {ReportOf(w)}
    /\ Moves(w, At("failing", 0, 1, FALSE))
    /\ UNCHANGED <<backendVars, queueVars, objects, early>>

\* Mutant: the handler raises without telling the backend.
ReportFailureNever(w) ==
    /\ progress[w].stage = "failing"
    /\ Queue!HandlerRaises(w)
    /\ Moves(w, Resting)
    /\ UNCHANGED <<backendVars, objects, late, errors, early>>

ReportFailure(w) ==
    /\ progress[w].stage = "failing"
    /\ Reaches(ReportOf(w))
    /\ Queue!HandlerRaises(w)
    /\ Moves(w, Resting)
    /\ UNCHANGED <<objects, late, errors, early>>

\* task_failure raises too, which the handler swallows.
ReportFailureFails(w) ==
    /\ progress[w].stage = "failing"
    /\ errors < MaxErrors
    /\ errors' = errors + 1
    /\ late' = late \union {ReportOf(w)}
    /\ Queue!HandlerRaises(w)
    /\ Moves(w, Resting)
    /\ UNCHANGED <<backendVars, objects, early>>

\* The backend carries out a report its sender has given up on.
LateReport(r) ==
    /\ r \in late
    /\ late' = late \ {r}
    /\ Reaches(r)
    /\ UNCHANGED <<queueVars, objects, progress, errors, early>>

-----------------------------------------------------------------------------
(* The worker loop around the handler, and its faults. *)

LoopStep(w) ==
    /\ Queue!Connect(w) \/ Queue!Acknowledge(w) \/ Queue!Republish(w) \/ Queue!Discard(w)
    /\ UNCHANGED <<backendVars, objects, handlerVars, early>>

LoopFault(w) ==
    /\ Queue!RepublishFails(w) \/ Queue!LoseConnection(w)
    /\ UNCHANGED <<backendVars, objects, handlerVars, early>>

\* The handler dies with its process, between any two calls.
Crash(w) == /\ Queue!Crash(w)
            /\ Moves(w, Resting)
            /\ UNCHANGED <<backendVars, objects, late, errors, early>>

\* It dies during its report, which is still on its way: a failed call as well.
CrashDuringReport(w) == /\ w \in Calling
                        /\ Queue!Crash(w)
                        /\ errors < MaxErrors
                        /\ errors' = errors + 1
                        /\ late' = late \union {ReportOf(w)}
                        /\ Moves(w, Resting)
                        /\ UNCHANGED <<backendVars, objects, early>>

-----------------------------------------------------------------------------

\* What worker w does by itself when no call fails.
WorkerStep(w) == \/ TakeMessage(w) \/ StoreChunk(w) \/ RemoveChunks(w)
                 \/ ReportSuccess(w) \/ ReportFailure(w) \/ LoopStep(w)

WorkerFault(w) == \/ StoreChunkFails(w) \/ RemoveChunksFails(w)
                  \/ ReportSuccessFails(w) \/ ReportFailureFails(w)
                  \/ LoopFault(w) \/ Crash(w) \/ CrashDuringReport(w)

DriveStep == \/ \E f \in Files : CreateStep(f) \/ \E n \in 1..MaxDeletes : DeleteRequest(f, n)
             \/ \E t \in Tasks : PublishTask(t) \/ PublishFails(t)
             \/ \E w \in Workers : WorkerStep(w) \/ WorkerFault(w)
             \/ \E r \in late : LateReport(r)

Next == DriveStep /\ Watch

\* Some worker that can go on does: they keep running (see JobQueue) and every call they
\* make returns or times out.  Each such step changes their queues or their progress.
\* Nothing is assumed of the clients or of a report given up on.
Fairness == WF_<<queueVars, progress>>(\E w \in Workers : WorkerStep(w))

Spec == Init /\ [][Next]_vars /\ Fairness

-----------------------------------------------------------------------------
(* Safety. *)

DeleteRequested(f) == \E t \in DeletesOf(f) : taskStatus[t] # "none"

Stored(f, c) == \E e \in Endpoints : Holds(e, f, c)

\* As long as nobody asks for its deletion, a file shown as ready is on the
\* object store, every chunk on some endpoint, whatever retries, crashes,
\* redeliveries, late and overlapping reports led there; and its rows say so, unless
\* one of the reports was overtaken.  Then they may be "failed": a second failure
\* that has read task and file as failed writes the rows alone, after a success.
ReadyIsStored ==
    \A f \in Files :
        fileStatus[f] = "ready" /\ ~DeleteRequested(f) =>
            /\ \A c \in 0..NumChunks[f] - 1 : Stored(f, c)
            /\ NumChunks[f] > 0 /\ f \notin overtaken => rowStatus[f] = "ready"

\* Every message and every report still under way names a task the backend has
\* committed: no callback ends in "Task no encontrada".
ReportsNameTasks ==
    /\ \A t \in published : taskStatus[t] # "none" /\ t \notin toPublish
    /\ \A r \in late : taskStatus[r.task] # "none"

\* Without a failed call or a fault nothing is ever reported as failed, and a
\* delete requested after the upload was reported leaves no object behind: what
\* goes wrong then always starts with an error, a fault or an early delete.
CalmDeleteIsClean ==
    \A f \in Files \ early :
        errors = 0 /\ faults = 0 =>
            /\ fileStatus[f] # "failed"
            /\ fileStatus[f] = "deleted" => \A e \in Endpoints : OfFile(e, f) = {}

-----------------------------------------------------------------------------
(* What the documents say and the code does not do. *)

\* "El backend solo registra el fallo final informado por el worker": a task is
\* shown as failed only after its last attempt.  handle_upload and handle_delete
\* report the failure of every attempt, before the queue retries it.
FailureIsFinal == \A t \in Tasks : taskStatus[t] = "failed" => MaxRetries \in failedAt[t]

\* worker-delete removes the file from MinIO: when the file is shown as deleted
\* and both queues are at rest, nothing of it is left.  An upload that is still to
\* come, of this queue or from a retry, stores the objects again, and they stay until
\* the user asks for the deletion once more.
CompletedDeleteLeavesNothing ==
    \A f \in Files :
        /\ fileStatus[f] = "deleted"
        /\ \A q \in DOMAIN queue : queue[q] = <<>>
        /\ \A w \in Workers : held[w] = NoMessage
        => \A e \in Endpoints : OfFile(e, f) = {}

-----------------------------------------------------------------------------
(* Liveness. *)

\* Every task whose message was accepted is reported in the end, as completed or
\* failed, as long as fewer calls fail than it takes to silence every attempt (the
\* success and the failure report of each): the accepted and the reported tasks only
\* grow, so it is enough that they meet time and again.
AcceptedTaskIsReported == []<>(\A t \in published : taskStatus[t] \in {"completed", "failed"})
=============================================================================
