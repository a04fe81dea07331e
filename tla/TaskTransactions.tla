-------------------------- MODULE TaskTransactions --------------------------
(***************************************************************************)
(* The backend's handlers statement by statement (backend/app/main.py).    *)
(* Backend has each of them change the records in one step, leaving out    *)
(* what it may have been overtaken on.  Really a handler runs in a thread  *)
(* of its own with a session of its own (database.py): it SELECTs task,    *)
(* file and rows one after the other, assigns to what it has read, and     *)
(* db.commit() sends the UPDATEs and commits.  A callback that timed out   *)
(* at the worker, the report of the next attempt, the callbacks of the     *)
(* other queue and delete requests come in between.                        *)
(*                                                                         *)
(* PostgreSQL is external: READ COMMITTED, so that each statement reads    *)
(* what is committed then, and a row that is written stays locked until    *)
(* the transaction ends.  SQLAlchemy is external too: an attribute that is *)
(* assigned the value it was read with is not written; of the UPDATEs of   *)
(* one commit the file's comes first, those of what refers to it follow in *)
(* either order; one that finds its row deleted raises.                    *)
(*                                                                         *)
(* The statuses of Backend are the committed ones.                         *)
(***************************************************************************)
EXTENDS Backend, Sequences, SequencesExt

CONSTANTS MaxCalls,     \* bound on the callbacks and delete requests
          NoTask        \* the task of a call that has none

ASSUME MaxCallsAssumption == MaxCalls \in Nat
ASSUME NoTaskAssumption == NoTask \notin Tasks

\* The requests, in the order in which they arrive.
Calls == 1..MaxCalls

VARIABLES calls,        \* per request, where its handler stands
          retryCount,   \* tasks.retry_count
          failures      \* history: how many failure reports of a task were committed

records == <<backendVars, retryCount, failures>>
vars == <<records, calls>>

\* kind     "success" and "failure" are the callbacks, "delete" is DELETE /files/{id}
\* pc       the next statement: SELECT the file, SELECT or DELETE the rows, UPDATE or
\*          COMMIT; "done" once committed, "refused" once rolled back
\* sawTask, sawFile, sawRows, sawCount   the statuses and retry_count as they were read
\* todo     the UPDATEs still to send
\* holds    what it has written and not committed, each item locked by itself
Call == [kind : {"success", "failure", "delete"},
         pc : {"idle", "file", "rows", "flush", "done", "refused"},
         task : Tasks \union {NoTask}, file : Files,
         sawTask : TaskStatuses,
         sawFile : FileStatuses,
         sawRows : RowStatuses, sawCount : Nat,
         todo : Seq(Items), holds : SUBSET Items]

Opened(kind, pc, t, f, sawTask, sawFile) ==
    [kind |-> kind, pc |-> pc, task |-> t, file |-> f, sawTask |-> sawTask,
     sawFile |-> sawFile, sawRows |-> "none", sawCount |-> 0, todo |-> <<>>, holds |-> {}]

\* A call that has not begun, or of which nothing is left but its answer.
Without(c, pc) == Opened("delete", pc, NoTask, calls[c].file, "none", "absent")

TransactionsTypeOK ==
    /\ BackendTypeOK
    /\ calls \in [Calls -> Call]
    /\ retryCount \in [Tasks -> Nat]
    /\ failures \in [Tasks -> Nat]
    /\ \A c \in Calls : /\ calls[c].todo # <<>> => calls[c].pc = "flush"
                        /\ calls[c].holds # {} => calls[c].pc = "flush"

Init == /\ BackendInit
        /\ retryCount = [t \in Tasks |-> 0]
        /\ failures = [t \in Tasks |-> 0]
        /\ \E f \in Files :
             calls = [c \in Calls |-> Opened("delete", "idle", NoTask, f, "none", "absent")]

-----------------------------------------------------------------------------
(* What a call assigns. *)

NewTask(c) == IF calls[c].kind = "success" THEN "completed" ELSE "failed"

\* Mutants: a file that is being deleted is left alone by failures; the failure of a delete
\* gives the file back.
NewFileUnlessDeleting(c) == CASE calls[c].kind = "failure" ->
                                   IF calls[c].sawFile = "deleting" THEN "deleting" ELSE "failed"
                              [] calls[c].kind = "delete" -> "deleting"
                              [] OTHER -> IF calls[c].task.type = "upload" THEN "ready" ELSE "deleted"
NewFileRestored(c) == CASE calls[c].kind = "failure" ->
                             IF calls[c].task.type = "upload" THEN "failed" ELSE "ready"
                        [] calls[c].kind = "delete" -> "deleting"
                        [] OTHER -> IF calls[c].task.type = "upload" THEN "ready" ELSE "deleted"

NewFile(c) == CASE calls[c].kind = "failure" -> "failed"
                [] calls[c].kind = "delete" -> "deleting"
                [] OTHER -> IF calls[c].task.type = "upload" THEN "ready" ELSE "deleted"

NewRows(c) == IF calls[c].kind = "failure" THEN "failed" ELSE "ready"

\* The success of a delete removes the rows instead of marking them.
RemovesRows(c) == calls[c].kind = "success" /\ calls[c].task.type = "delete"

\* Call d has written what c is about to write, and has not committed.
Blocks(d, c, item) == /\ d # c
                      /\ item \in calls[d].holds
                      /\ calls[d].file = calls[c].file
                      /\ item = "task" => calls[d].task = calls[c].task

\* The item the present statement of c writes, if it writes one.
Writes(c) == IF calls[c].pc = "flush" /\ calls[c].todo # <<>> THEN {Head(calls[c].todo)}
             ELSE IF calls[c].pc = "rows" /\ RemovesRows(c) THEN {"rows"}
             ELSE {}

WaitsFor(c, d) == \E item \in Writes(c) : Blocks(d, c, item)

Free(c) == \A d \in Calls : ~WaitsFor(c, d)

-----------------------------------------------------------------------------
(* The statements. *)

Goes(c, call) == calls' = [calls EXCEPT ![c] = call]

\* A callback reads its task.
ReadTask(c, t, kind) ==
    /\ calls[c].pc = "idle"
    /\ kind \in {"success", "failure"}
    /\ taskStatus[t] # "none"
    /\ Goes(c, [Opened(kind, "file", t, t.file, taskStatus[t], "absent")
                EXCEPT !.sawCount = retryCount[t]])
    /\ UNCHANGED records

\* Mutant: who finds the file as it should be takes the rows to be so too.
DueUnlessFileSame(c, sawRows) ==
    {"task"} \union (IF calls[c].sawFile = NewFile(c) THEN {} ELSE {"file"})
             \union (IF \/ sawRows \in {"none", NewRows(c)}
                        \/ calls[c].sawFile = NewFile(c) THEN {} ELSE {"rows"})

\* UPDATEs are due for what differs from what was read; completed_at, retry_count
\* and error_message always do, so that the row of the task is always written.
Due(c, sawRows) ==
    {"task"} \union (IF calls[c].sawFile = NewFile(c) THEN {} ELSE {"file"})
             \union (IF sawRows \in {"none", NewRows(c)} THEN {} ELSE {"rows"})

\* The orders in which db.commit() may send them.
Flushes(due) == {s \in SetToSeqs(due) : "file" \in due => s[1] = "file"}

\* A callback reads the file.
ReadFile(c) == /\ calls[c].pc = "file"
               /\ Goes(c, [calls[c] EXCEPT !.pc = "rows", !.sawFile = fileStatus[calls[c].file]])
               /\ UNCHANGED records

\* The delete requests for f under way, which MaxDeletes bounds too.
Deleting(f) == {d \in Calls : calls[d].pc = "flush" /\ calls[d].kind = "delete"
                                                   /\ calls[d].file = f}

\* DELETE /files/{id} reads the file; adding its task waits for nothing.
ReadFileToDelete(c, f) ==
    /\ calls[c].pc = "idle"
    /\ fileStatus[f] # "absent"
    /\ Cardinality({t \in DeletesOf(f) : taskStatus[t] # "none"}) + Cardinality(Deleting(f))
           < MaxDeletes
    /\ Goes(c, [Opened("delete", "flush", NoTask, f, "none", fileStatus[f])
                EXCEPT !.todo = IF fileStatus[f] = "deleting" THEN <<>> ELSE <<"file">>])
    /\ UNCHANGED records

\* A callback reads the rows, and db.commit() begins.
ReadRows(c) ==
    /\ calls[c].pc = "rows"
    /\ ~RemovesRows(c)
    /\ LET saw == rowStatus[calls[c].file]
       IN  \E order \in Flushes(Due(c, saw)) :
             Goes(c, [calls[c] EXCEPT !.pc = "flush", !.sawRows = saw, !.todo = order])
    /\ UNCHANGED records

\* query(...).delete() is sent at once, and locks the rows there are.
DeleteRows(c) ==
    /\ calls[c].pc = "rows"
    /\ RemovesRows(c)
    /\ Free(c)
    /\ LET saw == rowStatus[calls[c].file]
       IN  \E order \in Flushes(Due(c, saw) \ {"rows"}) :
             Goes(c, [calls[c] EXCEPT !.pc = "flush", !.sawRows = saw, !.todo = order,
                                      !.holds = IF saw = "none" THEN {} ELSE {"rows"}])
    /\ UNCHANGED records

\* Mutant: a row that is not there any more is added again, as merge() does.
UpdateOrInsert(c) ==
    /\ calls[c].pc = "flush"
    /\ calls[c].todo # <<>>
    /\ Free(c)
    /\ Goes(c, [calls[c] EXCEPT !.todo = Tail(@), !.holds = @ \union {Head(calls[c].todo)}])
    /\ UNCHANGED records

\* An UPDATE, once nobody else holds the row.
Update(c) ==
    /\ calls[c].pc = "flush"
    /\ calls[c].todo # <<>>
    /\ Free(c)
    /\ Head(calls[c].todo) = "rows" => rowStatus[calls[c].file] # "none"
    /\ Goes(c, [calls[c] EXCEPT !.todo = Tail(@), !.holds = @ \union {Head(calls[c].todo)}])
    /\ UNCHANGED records

\* Mutant: the session of a handler that raised is never closed.
RefusedUnclosed(c) == [calls[c] EXCEPT !.pc = "refused", !.todo = <<>>]

\* get_db closes the session, which rolls back.
Refused(c) == Without(c, "refused")

\* The rows to UPDATE have been deleted since they were read: StaleDataError.
UpdateFindsNoRows(c) == /\ calls[c].pc = "flush"
                        /\ Free(c)
                        /\ calls[c].todo # <<>>
                        /\ Head(calls[c].todo) = "rows"
                        /\ rowStatus[calls[c].file] = "none"
                        /\ Goes(c, Refused(c))
                        /\ UNCHANGED records

\* PostgreSQL picks a victim among the transactions that wait for each other.
DeadlockVictim(c) ==
    /\ ~Free(c)
    /\ \E ring \in SUBSET Calls :
         /\ c \in ring
         /\ \A d \in ring : \E e \in ring : WaitsFor(d, e)
         /\ \A e \in ring : \E d \in ring : WaitsFor(d, e)
    /\ Goes(c, Refused(c))
    /\ UNCHANGED records

RowsCommitted(c) == IF "rows" \notin calls[c].holds THEN rowStatus
                    ELSE [rowStatus EXCEPT ![calls[c].file] =
                            IF RemovesRows(c) THEN "none" ELSE NewRows(c)]

FileCommitted(c) == IF "file" \notin calls[c].holds THEN fileStatus
                    ELSE [fileStatus EXCEPT ![calls[c].file] = NewFile(c)]

\* Mutant: a success starts counting afresh.
CountCommittedAfresh(c) ==
    [retryCount EXCEPT ![calls[c].task] =
        IF calls[c].kind = "failure" THEN calls[c].sawCount + 1 ELSE 0]

\* A failure counts from what was read.
CountCommitted(c) ==
    IF calls[c].kind = "success" THEN retryCount
    ELSE [retryCount EXCEPT ![calls[c].task] = calls[c].sawCount + 1]

ReportOf(c) == Report(calls[c].task, calls[c].kind = "success")

\* What callback c does not write, having read it as it would make it, and what another
\* call, which overtook it, has changed since.
Missed(c) == {i \in Items \ Shown(ReportOf(c)) :
                 IF i = "task" THEN calls[c].sawTask = NewTask(c) ELSE i \notin calls[c].holds}

\* COMMIT: what was written is there for all to see, and no longer locked.
Commit(c) ==
    /\ calls[c].pc = "flush"
    /\ calls[c].todo = <<>>
    /\ fileStatus' = FileCommitted(c)
    /\ rowStatus' = RowsCommitted(c)
    /\ Goes(c, Without(c, "done"))
    /\ \/ /\ calls[c].kind # "delete"
          /\ taskStatus' = IF calls[c].sawTask = NewTask(c) THEN taskStatus
                           ELSE [taskStatus EXCEPT ![calls[c].task] = NewTask(c)]
          /\ retryCount' = CountCommitted(c)
          /\ failures' = IF calls[c].kind = "success" THEN failures
                         ELSE [failures EXCEPT ![calls[c].task] = @ + 1]
          /\ reported' = reported \union {ReportOf(c)}
          /\ overtaken' = IF Missed(c) = {} THEN overtaken \ {calls[c].file}
                                                  ELSE overtaken \union {calls[c].file}
          /\ UNCHANGED toPublish
       \/ /\ calls[c].kind = "delete"
          /\ \E n \in 1..MaxDeletes :
               LET t == DeleteOf(calls[c].file, n)
               IN  /\ taskStatus[t] = "none"
                   /\ \A m \in 1..n - 1 : taskStatus[DeleteOf(calls[c].file, m)] # "none"
                   /\ taskStatus' = [taskStatus EXCEPT ![t] = "pending"]
                   /\ toPublish' = toPublish \union {t}
          /\ UNCHANGED <<retryCount, failures, histories>>
    /\ UNCHANGED creating

-----------------------------------------------------------------------------

\* create_file only adds records, each in a commit of its own.
Elsewhere == /\ \/ \E f \in Files : Create(f)
                \/ \E t \in Tasks : Sent(t)
             /\ UNCHANGED <<calls, retryCount, failures>>

CallBegins(c) ==
    /\ \A d \in 1..c - 1 : calls[d].pc # "idle"
    /\ \/ \E t \in Tasks, kind \in {"success", "failure"} : ReadTask(c, t, kind)
       \/ \E f \in Files : ReadFileToDelete(c, f)

CallStep(c) == \/ ReadFile(c) \/ ReadRows(c) \/ DeleteRows(c) \/ Update(c)
               \/ UpdateFindsNoRows(c) \/ DeadlockVictim(c) \/ Commit(c)

Next == Elsewhere \/ \E c \in Calls : CallBegins(c) \/ CallStep(c)

\* Some request that can go on does, and PostgreSQL looks for deadlocks
\* (deadlock_timeout).  Requests are short and none has to come.
Fairness == WF_vars(\E c \in Calls : CallStep(c))

Spec == Init /\ [][Next]_vars /\ Fairness

-----------------------------------------------------------------------------
(* Properties. *)

Commits(c) == calls[c].pc = "flush" /\ calls'[c].pc = "done"

Atomically(c) ==
    CASE calls[c].kind = "success" -> TaskSuccess(calls[c].task, Missed(c))
      [] calls[c].kind = "failure" -> TaskFailure(calls[c].task, Missed(c))
      [] calls[c].kind = "delete" -> \E n \in 1..MaxDeletes : RequestDelete(calls[c].file, n)

\* Whatever statements of other calls come between the reads and the writes of a
\* call, its commit does to the records what the handler of Backend does in one step that
\* leaves out exactly what the call was overtaken on: the locks and the refusal to
\* UPDATE deleted rows leave no other way for two callbacks to mix, and nothing is
\* missed but what an earlier report had made that way.
CommitsAreAtomic == [][\A c \in Calls : Commits(c) => Atomically(c)]_vars

\* retry_count is read, incremented and written back, so reports that overlap count
\* once, and a slow one may even set it back.  It still never exceeds the failures that
\* were recorded, and is never 0 for a task that has failed, whatever else came.
RetryCountIsPlausible ==
    \A t \in Tasks : /\ retryCount[t] <= failures[t]
                     /\ failures[t] > 0 => retryCount[t] > 0

\* RowsNeverReturn of Backend holds here too: a report that read the rows before they
\* were deleted and writes after is rolled back whole.  So do StatusIsReported, whatever
\* was overtaken, and RecordsAgree, until a report is.

\* The callbacks lock tasks, files and rows in different orders, and a delete locks
\* its rows first; every call that has begun is answered all the same.
CallsAreAnswered == <>[](\A c \in Calls : calls[c].pc \in {"idle", "done", "refused"})

-----------------------------------------------------------------------------
(* What the documents say and the code does not do. *)

\* POST /internal/tasks/failure: TASK.status = failed, FILE.status = failed.  A report
\* that reads the statuses of an earlier failed attempt writes neither, and when the
\* late success of an attempt in between commits first, the failure is answered
\* with 200 and task and file stay as the success has left them.
FailureIsRecorded ==
    [][\A c \in Calls : Commits(c) /\ calls[c].kind = "failure" =>
           /\ taskStatus'[calls[c].task] = "failed"
           /\ fileStatus'[calls[c].file] = "failed"]_vars
=============================================================================
