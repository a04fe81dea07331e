------------------------------- MODULE Backend -------------------------------
(***************************************************************************)
(* The backend's record of files, chunk rows and tasks                     *)
(* (backend/app/main.py, models.py): the upload and delete requests of the *)
(* owner, and the success and failure callbacks of the workers.            *)
(*                                                                         *)
(* A handler runs in a thread of its own and commits one or more times.    *)
(* Each commit is one action: create_file commits the file, then its chunk *)
(* rows, then its task, and only then publishes, so that other requests    *)
(* and callbacks come in between.  Which callback comes when, and since    *)
(* when its handler has been reading, is left open.  The statements before *)
(* a commit are in TaskTransactions.                                       *)
(*                                                                         *)
(* All rows of a file are written together, so one status stands for them. *)
(* Names, sizes, error_message and times are left out; retry_count is in   *)
(* TaskTransactions.  A callback that ends in an exception, because the    *)
(* rows it UPDATEs have gone or as the victim of a deadlock, is rolled     *)
(* back and no step here.                                                  *)
(***************************************************************************)
EXTENDS Naturals

CONSTANTS Files,        \* file ids; the client chooses them
          NumChunks,    \* Files -> Nat: chunk rows the data is split into
          MaxDeletes    \* bound on the delete requests per file

ASSUME NumChunksAssumption == NumChunks \in [Files -> Nat]
ASSUME MaxDeletesAssumption == MaxDeletes \in Nat

\* One upload task per file (a second POST breaks the primary key of files and
\* changes nothing), one delete task per delete request.
UploadOf(f) == [type |-> "upload", file |-> f, n |-> 0]
DeleteOf(f, n) == [type |-> "delete", file |-> f, n |-> n]
DeletesOf(f) == {DeleteOf(f, n) : n \in 1..MaxDeletes}
TasksOf(f) == {UploadOf(f)} \union DeletesOf(f)
Tasks == UNION {TasksOf(f) : f \in Files}

\* What the workers report of a task.
Reports == [task : Tasks, success : BOOLEAN]

\* What a report assigns to.
Items == {"task", "file", "rows"}

VARIABLES fileStatus,   \* files.status, "absent" before the row exists
          rowStatus,    \* file_chunks.status, "none" when the file has no rows
          taskStatus,   \* tasks.status, "none" before the row exists
          creating,     \* where the create_file request of each file stands
          toPublish,    \* tasks committed whose message is not sent yet
          reported,     \* history: the reports that have been committed
          overtaken     \* history: files of which the last report has left something out

histories == <<reported, overtaken>>
backendVars == <<fileStatus, rowStatus, taskStatus, creating, toPublish, histories>>

FileStatuses == {"absent", "pending", "ready", "failed", "deleting", "deleted"}

RowStatuses == {"none", "pending", "ready", "failed"}

TaskStatuses == {"none", "pending", "completed", "failed"}

BackendTypeOK ==
    /\ fileStatus \in [Files -> FileStatuses]
    /\ rowStatus \in [Files -> RowStatuses]
    /\ taskStatus \in [Tasks -> TaskStatuses]
    /\ creating \in [Files -> {"no", "file", "rows", "done", "aborted"}]
    /\ toPublish \in SUBSET Tasks
    /\ reported \in SUBSET Reports
    /\ overtaken \in SUBSET Files

BackendInit ==
    /\ fileStatus = [f \in Files |-> "absent"]
    /\ rowStatus = [f \in Files |-> "none"]
    /\ taskStatus = [t \in Tasks |-> "none"]
    /\ creating = [f \in Files |-> "no"]
    /\ toPublish = {}
    /\ reported = {}
    /\ overtaken = {}

-----------------------------------------------------------------------------
(* POST /files, one action per commit. *)

CommitFile(f) == /\ creating[f] = "no"
                 /\ creating' = [creating EXCEPT ![f] = "file"]
                 /\ fileStatus' = [fileStatus EXCEPT ![f] = "pending"]
                 /\ UNCHANGED <<rowStatus, taskStatus, toPublish, histories>>

\* Mutant: the message is sent before its task is committed.
CommitRowsAndSend(f) ==
    /\ creating[f] = "file"
    /\ creating' = [creating EXCEPT ![f] = "rows"]
    /\ rowStatus' = [rowStatus EXCEPT ![f] = IF NumChunks[f] = 0 THEN @ ELSE "pending"]
    /\ toPublish' = toPublish \union {UploadOf(f)}
    /\ UNCHANGED <<fileStatus, taskStatus, histories>>

CommitRows(f) == /\ creating[f] = "file"
                 /\ creating' = [creating EXCEPT ![f] = "rows"]
                 /\ rowStatus' = [rowStatus EXCEPT ![f] = IF NumChunks[f] = 0 THEN @ ELSE "pending"]
                 /\ UNCHANGED <<fileStatus, taskStatus, toPublish, histories>>

CommitUploadTask(f) == /\ creating[f] = "rows"
                       /\ creating' = [creating EXCEPT ![f] = "done"]
                       /\ taskStatus' = [taskStatus EXCEPT ![UploadOf(f)] = "pending"]
                       /\ toPublish' = toPublish \union {UploadOf(f)}
                       /\ UNCHANGED <<fileStatus, rowStatus, histories>>

\* data_base64 is not base64, a commit fails, or the backend stops: what has been
\* committed stays.
AbortCreate(f) == /\ creating[f] \in {"file", "rows"}
                  /\ creating' = [creating EXCEPT ![f] = "aborted"]
                  /\ UNCHANGED <<fileStatus, rowStatus, taskStatus, toPublish, histories>>

-----------------------------------------------------------------------------
(* DELETE /files/{id}: any status will do, and every request makes a task.  One  *)
(* that has read "deleting", of an earlier request, does not write it; if the    *)
(* task of that request has been reported since, the file stays as reported.     *)

RequestDelete(f, n) ==
    /\ fileStatus[f] # "absent"
    /\ taskStatus[DeleteOf(f, n)] = "none"
    /\ \A m \in 1..n - 1 : taskStatus[DeleteOf(f, m)] # "none"
    /\ \/ fileStatus' = [fileStatus EXCEPT ![f] = "deleting"]
       \/ n > 1 /\ UNCHANGED fileStatus
    /\ taskStatus' = [taskStatus EXCEPT ![DeleteOf(f, n)] = "pending"]
    /\ toPublish' = toPublish \union {DeleteOf(f, n)}
    /\ UNCHANGED <<rowStatus, creating, histories>>

-----------------------------------------------------------------------------
(* publish_message, after the last commit of either request, whether or not    *)
(* the message gets through: the request is over and the task stays.           *)

Sent(t) == /\ t \in toPublish
           /\ toPublish' = toPublish \ {t}
           /\ UNCHANGED <<fileStatus, rowStatus, taskStatus, creating, histories>>

-----------------------------------------------------------------------------
(* The callbacks.  Neither looks at the present status of task or file.  A     *)
(* handler reads task, file and rows one after the other, assigns to all of    *)
(* them and commits; SQLAlchemy writes what is assigned another value than was *)
(* read.  So a report that found an item as it would make it leaves the item   *)
(* out, also if another report, which overtook it, has changed it since.       *)

Report(t, success) == [task |-> t, success |-> success]

TaskAfter(r) == IF r.success THEN "completed" ELSE "failed"

FileAfter(r) == IF ~r.success THEN "failed"
                ELSE IF r.task.type = "upload" THEN "ready" ELSE "deleted"

RowsAfter(r) == IF ~r.success THEN "failed"
                ELSE IF r.task.type = "upload" THEN "ready" ELSE "none"

\* The items that are now as report r makes them.  Without rows there is nothing to do.
Shown(r) ==
    {i \in Items : \/ i = "task" /\ taskStatus[r.task] = TaskAfter(r)
                   \/ i = "file" /\ fileStatus[r.task.file] = FileAfter(r)
                   \/ i = "rows" /\ rowStatus[r.task.file] \in {"none", RowsAfter(r)}}

\* Reports that make an item the same.
SameFor(i, q, r) ==
    \/ i = "task" /\ q = r
    \/ i = "file" /\ q.task.file = r.task.file /\ FileAfter(q) = FileAfter(r)
    \/ i = "rows" /\ q.task.file = r.task.file /\ RowsAfter(q) = RowsAfter(r)

\* What report r may leave out although it is not as r makes it: an earlier report had
\* made it so, and the handler may have read it then.  Rows are pending only until some
\* report writes them; but a delete may overtake create_file and find none yet.
MayLeave(r) ==
    {i \in Items \ Shown(r) :
        \/ /\ \E q \in reported : SameFor(i, q, r)
           /\ i = "rows" => rowStatus[r.task.file] # "pending"
        \/ i = "rows" /\ r.task.type = "delete"}

\* Only the rows that exist are updated.
RowsBecome(f, status) == [rowStatus EXCEPT ![f] = IF @ = "none" THEN @ ELSE status]

\* Report r is committed, but for what it leaves out.
Records(r, left, rows) ==
    /\ taskStatus[r.task] # "none"
    /\ left \subseteq MayLeave(r)
    /\ taskStatus' = IF "task" \in left THEN taskStatus
                     ELSE [taskStatus EXCEPT ![r.task] = TaskAfter(r)]
    /\ fileStatus' = IF "file" \in left THEN fileStatus
                     ELSE [fileStatus EXCEPT ![r.task.file] = FileAfter(r)]
    /\ rowStatus' = IF "rows" \in left THEN rowStatus ELSE rows
    /\ reported' = reported \union {r}
    /\ overtaken' = IF left = {} THEN overtaken \ {r.task.file}
                                 ELSE overtaken \union {r.task.file}
    /\ UNCHANGED <<creating, toPublish>>

\* Mutant: the delete branch marks the chunk rows.
TaskSuccessMarkingRows(t, left) ==
    Records(Report(t, TRUE), left,
            RowsBecome(t.file, IF t.type = "upload" THEN "ready" ELSE "deleted"))

TaskSuccess(t, left) ==
    Records(Report(t, TRUE), left,
            IF t.type = "upload" THEN RowsBecome(t.file, "ready")
                                 ELSE [rowStatus EXCEPT ![t.file] = "none"])

TaskFailure(t, left) == Records(Report(t, FALSE), left, RowsBecome(t.file, "failed"))

Callback(r, left) == IF r.success THEN TaskSuccess(r.task, left) ELSE TaskFailure(r.task, left)

-----------------------------------------------------------------------------

Create(f) == CommitFile(f) \/ CommitRows(f) \/ CommitUploadTask(f) \/ AbortCreate(f)

Request(f) == Create(f) \/ \E n \in 1..MaxDeletes : RequestDelete(f, n)

BackendNext == \/ \E f \in Files : Request(f)
               \/ \E t \in Tasks : Sent(t)
               \/ \E r \in Reports : \E left \in SUBSET MayLeave(r) : Callback(r, left)

BackendSpec == BackendInit /\ [][BackendNext]_backendVars

-----------------------------------------------------------------------------
(* Safety, for callbacks in any order and any number. *)

\* What the statuses of f and its tasks say has been reported, and what has been
\* reported has left none of them pending.
Told(f) ==
    /\ \A t \in TasksOf(f) :
           /\ taskStatus[t] = "completed" => Report(t, TRUE) \in reported
           /\ taskStatus[t] = "failed" => Report(t, FALSE) \in reported
    /\ fileStatus[f] = "ready" => Report(UploadOf(f), TRUE) \in reported
    /\ fileStatus[f] = "failed" => \E t \in TasksOf(f) : Report(t, FALSE) \in reported
    /\ fileStatus[f] = "deleted" => \E t \in DeletesOf(f) : Report(t, TRUE) \in reported
    /\ rowStatus[f] = "ready" => Report(UploadOf(f), TRUE) \in reported
    /\ rowStatus[f] = "failed" => \E t \in TasksOf(f) : Report(t, FALSE) \in reported
    /\ \A t \in TasksOf(f), success \in BOOLEAN : Report(t, success) \in reported =>
           /\ taskStatus[t] \in {"completed", "failed"}
           /\ fileStatus[f] # "pending"
           /\ t = UploadOf(f) => rowStatus[f] # "pending"

\* However many reports overlap, and whatever they leave out for it, no status comes
\* from nowhere, and no report that is answered with 200 leaves anything pending:
\* task, file and rows are each as some report on them said.
StatusIsReported == \A f \in Files : Told(f)

\* The status of f is that of some task of f.
Witnessed(f) ==
    /\ fileStatus[f] = "ready" => taskStatus[UploadOf(f)] = "completed"
    /\ fileStatus[f] = "failed" => \E t \in TasksOf(f) : taskStatus[t] = "failed"
    /\ fileStatus[f] = "deleting" => \E t \in DeletesOf(f) : taskStatus[t] = "pending"
    /\ fileStatus[f] = "deleted" => \E t \in DeletesOf(f) : taskStatus[t] = "completed"
    /\ fileStatus[f] = "pending" =>
           /\ taskStatus[UploadOf(f)] \in {"none", "pending"}
           /\ \A t \in DeletesOf(f) : taskStatus[t] = "none"

\* The chunk rows of f, from which downloads and repairs work, agree with f.
\* Rows may be missing (a delete has run, or the file is empty) and may still be
\* pending when the file is not (create_file commits them apart).
RowsAgree(f) ==
    /\ rowStatus[f] \in {"ready", "failed"} => fileStatus[f] \in {rowStatus[f], "deleting"}
    /\ fileStatus[f] = "ready" => rowStatus[f] \in {"none", "ready"}

\* Unless the last report on a file was overtaken, its status rests on a task that stands
\* the same way and its rows do not say otherwise, in whatever order reports come and
\* however often.  After a report that was overtaken neither need hold: task, file and
\* rows may each tell of another report, until the next one.
RecordsAgree == \A f \in Files \ overtaken : Witnessed(f) /\ RowsAgree(f)

\* Once a delete has removed the rows of a created file no callback brings them
\* back, so a file that a late upload report turns "ready" again stays without.
RowsNeverReturn ==
    [][\A f \in Files : creating[f] \in {"rows", "done", "aborted"} /\ rowStatus[f] = "none"
                            => rowStatus'[f] = "none"]_backendVars
=============================================================================
