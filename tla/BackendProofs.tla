---------------------------- MODULE BackendProofs ----------------------------
(***************************************************************************)
(* Theorems about Backend for any set of files, any numbers of chunks and  *)
(* of delete requests, and callbacks in any order.                         *)
(***************************************************************************)
EXTENDS Backend, TLAPS

\* A task belongs to exactly one file and is its upload or one of its deletes.
LEMMA TaskFacts ==
    /\ \A f \in Files : UploadOf(f) \in TasksOf(f) /\ UploadOf(f).type = "upload"
    /\ \A f \in Files : \A n \in 1..MaxDeletes : DeleteOf(f, n) \in DeletesOf(f)
    /\ \A f \in Files : DeletesOf(f) \subseteq TasksOf(f) /\ TasksOf(f) \subseteq Tasks
    /\ \A f \in Files : \A t \in TasksOf(f) : t.file = f
    /\ \A f \in Files : \A t \in DeletesOf(f) : t.type = "delete" /\ t # UploadOf(f)
    /\ \A t \in Tasks : /\ t.file \in Files
                        /\ t \in TasksOf(t.file)
                        /\ t.type = "upload" => t = UploadOf(t.file)
                        /\ t.type = "delete" => t \in DeletesOf(t.file)
                        /\ t.type \in {"upload", "delete"}
<1>1. \A f \in Files : UploadOf(f) \in TasksOf(f) /\ UploadOf(f).type = "upload" /\ UploadOf(f).file = f
  BY DEF UploadOf, TasksOf
<1>2. \A f \in Files : \A t \in DeletesOf(f) : t.type = "delete" /\ t.file = f /\ t # UploadOf(f)
  BY DEF DeletesOf, DeleteOf, UploadOf
<1>3. \A f \in Files : \A n \in 1..MaxDeletes : DeleteOf(f, n) \in DeletesOf(f)
  BY DEF DeletesOf
<1>4. \A f \in Files : DeletesOf(f) \subseteq TasksOf(f) /\ TasksOf(f) \subseteq Tasks
  BY DEF TasksOf, Tasks
<1>5. \A f \in Files : \A t \in TasksOf(f) : t = UploadOf(f) \/ t \in DeletesOf(f)
  BY DEF TasksOf
<1>6. \A t \in Tasks : \E f \in Files : t \in TasksOf(f)
  BY DEF Tasks
<1> QED
  BY <1>1, <1>2, <1>3, <1>4, <1>5, <1>6

-----------------------------------------------------------------------------
(* The inductive invariant adds where create_file stands: nothing exists     *)
(* before its first commit, and no upload task before its last.              *)

CreationOrder(f) ==
    /\ creating[f] = "no" <=> fileStatus[f] = "absent"
    /\ creating[f] \in {"no", "file"} => rowStatus[f] = "none"
    /\ taskStatus[UploadOf(f)] # "none" => creating[f] = "done"
    /\ fileStatus[f] = "absent" => \A t \in TasksOf(f) : taskStatus[t] = "none"

\* Only a file of which the last report was not overtaken has a status its tasks explain.
FileInv(f) == /\ Told(f)
              /\ CreationOrder(f)
              /\ f \notin overtaken => Witnessed(f) /\ RowsAgree(f)

BackendInv == BackendTypeOK /\ \A f \in Files : FileInv(f)

\* Nothing of file g, of its tasks or of the reports on them changes.
Untouched(g) == /\ fileStatus'[g] = fileStatus[g]
                /\ rowStatus'[g] = rowStatus[g]
                /\ creating'[g] = creating[g]
                /\ \A t \in TasksOf(g) : taskStatus'[t] = taskStatus[t]
                /\ g \in overtaken' <=> g \in overtaken
                /\ \A t \in TasksOf(g), s \in BOOLEAN :
                       Report(t, s) \in reported' <=> Report(t, s) \in reported

\* A report names a task of its file.
LEMMA ReportFacts ==
    /\ \A t \in Tasks : \A s \in BOOLEAN :
           /\ Report(t, s) \in Reports
           /\ Report(t, s).task = t
           /\ Report(t, s).success = s
    /\ \A r \in Reports : /\ r.task \in Tasks
                          /\ r.success \in BOOLEAN
                          /\ r = Report(r.task, r.success)
                          /\ r.task.file \in Files
                          /\ r.task \in TasksOf(r.task.file)
BY TaskFacts DEF Report, Reports

\* The invariant of a file speaks only of that file, its tasks and their reports.
LEMMA UntouchedInv ==
    ASSUME NEW g \in Files, Untouched(g), FileInv(g)
    PROVE  FileInv(g)'
<1>1. Told(g)'
  BY TaskFacts DEF Untouched, FileInv, Told
<1>2. CreationOrder(g)' /\ (g \notin overtaken' => Witnessed(g)' /\ RowsAgree(g)')
  BY TaskFacts DEF Untouched, FileInv, Witnessed, RowsAgree, CreationOrder
<1> QED
  BY <1>1, <1>2 DEF FileInv

\* The empty database satisfies the invariant.
LEMMA BackendInitInv == BackendInit => BackendInv
<1> SUFFICES ASSUME BackendInit PROVE BackendInv
  OBVIOUS
<1>1. BackendTypeOK
  BY DEF BackendInit, BackendTypeOK, FileStatuses, RowStatuses, TaskStatuses
<1>2. ASSUME NEW f \in Files PROVE FileInv(f)
  BY TaskFacts DEF BackendInit, FileInv, Told, Witnessed, RowsAgree, CreationOrder
<1> QED
  BY <1>1, <1>2 DEF BackendInv

\* What a callback does, whatever it leaves out.
LEMMA CallbackEffect ==
    ASSUME BackendTypeOK, NEW r \in Reports, NEW left \in SUBSET MayLeave(r), Callback(r, left)
    PROVE  /\ taskStatus[r.task] # "none"
           /\ taskStatus' = IF "task" \in left THEN taskStatus
                            ELSE [taskStatus EXCEPT ![r.task] = TaskAfter(r)]
           /\ fileStatus' = IF "file" \in left THEN fileStatus
                            ELSE [fileStatus EXCEPT ![r.task.file] = FileAfter(r)]
           /\ rowStatus' = IF "rows" \in left \/ rowStatus[r.task.file] = "none" THEN rowStatus
                           ELSE [rowStatus EXCEPT ![r.task.file] = RowsAfter(r)]
           /\ reported' = reported \union {r}
           /\ overtaken' = IF left = {} THEN overtaken \ {r.task.file}
                                        ELSE overtaken \union {r.task.file}
           /\ UNCHANGED <<creating, toPublish>>
<1> DEFINE t == r.task
           f == t.file
<1>1. t \in Tasks /\ f \in Files /\ r.success \in BOOLEAN /\ r = Report(t, r.success)
  BY ReportFacts
<1>2. t.type \in {"upload", "delete"}
  BY <1>1, TaskFacts
<1>3. CASE r.success
  <2> DEFINE rows == IF t.type = "upload" THEN RowsBecome(f, "ready")
                                          ELSE [rowStatus EXCEPT ![f] = "none"]
  <2>1. Records(r, left, rows)
    BY <1>1, <1>3 DEF Callback, TaskSuccess
  <2>2. rows = IF rowStatus[f] = "none" THEN rowStatus
               ELSE [rowStatus EXCEPT ![f] = RowsAfter(r)]
    BY <1>1, <1>2, <1>3 DEF RowsBecome, RowsAfter, BackendTypeOK
  <2> HIDE DEF rows
  <2> QED
    BY <2>1, <2>2 DEF Records
<1>4. CASE ~r.success
  <2>1. Records(r, left, RowsBecome(f, "failed"))
    BY <1>1, <1>4 DEF Callback, TaskFailure
  <2>2. RowsBecome(f, "failed") = IF rowStatus[f] = "none" THEN rowStatus
                                  ELSE [rowStatus EXCEPT ![f] = RowsAfter(r)]
    BY <1>1, <1>4 DEF RowsBecome, RowsAfter, BackendTypeOK
  <2> QED
    BY <2>1, <2>2 DEF Records
<1> QED
  BY <1>3, <1>4

\* What a report makes of task, file and rows.
LEMMA AfterFacts ==
    ASSUME NEW r \in Reports
    PROVE  /\ TaskAfter(r) \in {"completed", "failed"}
           /\ TaskAfter(r) = "completed" <=> r.success
           /\ FileAfter(r) \in {"ready", "failed", "deleted"}
           /\ FileAfter(r) = "failed" <=> ~r.success
           /\ FileAfter(r) = "ready" <=> r.success /\ r.task.type = "upload"
           /\ FileAfter(r) = "deleted" <=> r.success /\ r.task.type = "delete"
           /\ RowsAfter(r) \in {"ready", "failed", "none"}
           /\ RowsAfter(r) = "failed" <=> ~r.success
           /\ RowsAfter(r) = "ready" <=> r.success /\ r.task.type = "upload"
BY ReportFacts, TaskFacts DEF TaskAfter, FileAfter, RowsAfter

\* Every step keeps the types.
LEMMA BackendStepType == BackendInv /\ [BackendNext]_backendVars => BackendTypeOK'
<1> SUFFICES ASSUME BackendTypeOK, [BackendNext]_backendVars PROVE BackendTypeOK'
  BY DEF BackendInv
<1> USE DEF BackendTypeOK, FileStatuses, RowStatuses, TaskStatuses
<1>1. ASSUME NEW f \in Files, Create(f) PROVE BackendTypeOK'
  BY <1>1, TaskFacts DEF Create, CommitFile, CommitRows, CommitUploadTask, AbortCreate, histories
<1>2. ASSUME NEW f \in Files, NEW n \in 1..MaxDeletes, RequestDelete(f, n) PROVE BackendTypeOK'
  <2>1. DeleteOf(f, n) \in Tasks
    BY TaskFacts
  <2> QED
    BY <1>2, <2>1 DEF RequestDelete, histories
<1>3. ASSUME NEW t \in Tasks, Sent(t) PROVE BackendTypeOK'
  BY <1>3 DEF Sent, histories
<1>4. ASSUME NEW r \in Reports, NEW left \in SUBSET MayLeave(r), Callback(r, left)
      PROVE  BackendTypeOK'
  <2>1. /\ r.task \in Tasks /\ r.task.file \in Files
        /\ TaskAfter(r) \in TaskStatuses /\ FileAfter(r) \in FileStatuses
        /\ RowsAfter(r) \in RowStatuses
    BY ReportFacts, AfterFacts
  <2> QED
    BY <1>4, <2>1, CallbackEffect
<1>5. CASE UNCHANGED backendVars
  BY <1>5 DEF backendVars, histories
<1> QED
  BY <1>1, <1>2, <1>3, <1>4, <1>5 DEF BackendNext, Request

\* A step of file f leaves every other file alone; it is enough to look at f.
LEMMA OtherFiles ==
    ASSUME BackendInv, NEW f \in Files, FileInv(f)',
           \A g \in Files \ {f} : Untouched(g)
    PROVE  \A g \in Files : FileInv(g)'
BY UntouchedInv DEF BackendInv

\* A report, whatever it leaves out, is told of: what it does not write an earlier one has
\* written, or it is as the report makes it.
LEMMA CallbackTold ==
    ASSUME BackendInv, NEW r \in Reports, NEW left \in SUBSET MayLeave(r), Callback(r, left),
           NEW t, t = r.task, NEW f, f = t.file
    PROVE  Told(f)'
<1>a. /\ BackendTypeOK /\ Told(f) /\ CreationOrder(f)
      /\ f \in Files /\ t \in Tasks /\ t \in TasksOf(f)
      /\ r = Report(t, r.success) /\ r.success \in BOOLEAN
      /\ UploadOf(f) \in TasksOf(f) /\ UploadOf(f) \in Tasks
      /\ DeletesOf(f) \subseteq TasksOf(f) /\ TasksOf(f) \subseteq Tasks
  BY ReportFacts, TaskFacts DEF BackendInv, FileInv
<1>b. /\ t.type = "upload" => t = UploadOf(f)
      /\ t.type = "delete" => t \in DeletesOf(f)
      /\ t.type \in {"upload", "delete"}
      /\ UploadOf(f).type = "upload"
  BY <1>a, TaskFacts
<1>1. reported' = reported \union {r}
  BY <1>a, CallbackEffect
<1>2. /\ \A u \in Tasks \ {t} : taskStatus'[u] = taskStatus[u]
      /\ taskStatus'[t] \in {taskStatus[t], TaskAfter(r)}
      /\ taskStatus'[t] # TaskAfter(r) => "task" \in left
  BY <1>a, CallbackEffect DEF BackendTypeOK
<1>3. /\ fileStatus'[f] \in {fileStatus[f], FileAfter(r)}
      /\ fileStatus'[f] # FileAfter(r) => "file" \in left
  BY <1>a, CallbackEffect DEF BackendTypeOK
<1>4. /\ rowStatus'[f] \in {rowStatus[f], RowsAfter(r)}
      /\ rowStatus'[f] = rowStatus[f] => "rows" \in left \/ rowStatus[f] \in {"none", RowsAfter(r)}
  BY <1>a, CallbackEffect DEF BackendTypeOK
<1>5. /\ "task" \in left => r \in reported
      /\ "file" \in left => fileStatus[f] # "pending"
      /\ "rows" \in left /\ t.type = "upload" => rowStatus[f] # "pending"
  <2>1. "task" \in left => r \in reported
    BY DEF MayLeave, SameFor
  <2>2. "rows" \in left /\ t.type = "upload" => rowStatus[f] # "pending"
    BY <1>b DEF MayLeave
  <2>3. "file" \in left => fileStatus[f] # "pending"
    <3>1. SUFFICES ASSUME "file" \in left PROVE fileStatus[f] # "pending"
      OBVIOUS
    <3>2. PICK q \in reported : q.task.file = f
      BY <3>1 DEF MayLeave, SameFor
    <3>3. q = Report(q.task, q.success) /\ q.task \in TasksOf(f) /\ q.success \in BOOLEAN
      BY <1>a, <3>2, ReportFacts DEF BackendTypeOK
    <3> QED
      BY <1>a, <3>2, <3>3 DEF Told
  <2> QED
    BY <2>1, <2>2, <2>3
<1>6. \A u \in TasksOf(f) : \A b \in BOOLEAN : Report(u, b) = r => u = t /\ b = r.success
  <2>1. \A u \in TasksOf(f) : \A b \in BOOLEAN : Report(u, b).task = u /\ Report(u, b).success = b
    BY <1>a, ReportFacts
  <2> QED
    BY <2>1
<1>7. \A u \in TasksOf(f) : /\ taskStatus'[u] = "completed" => Report(u, TRUE) \in reported'
                            /\ taskStatus'[u] = "failed" => Report(u, FALSE) \in reported'
  <2>1. ASSUME NEW u \in TasksOf(f), u # t
        PROVE  /\ taskStatus'[u] = "completed" => Report(u, TRUE) \in reported'
               /\ taskStatus'[u] = "failed" => Report(u, FALSE) \in reported'
    BY <1>a, <1>1, <1>2, <2>1 DEF Told
  <2>2. /\ taskStatus'[t] = "completed" => Report(t, TRUE) \in reported'
        /\ taskStatus'[t] = "failed" => Report(t, FALSE) \in reported'
    BY <1>a, <1>1, <1>2, AfterFacts DEF Told
  <2> QED
    BY <2>1, <2>2
<1>8. /\ fileStatus'[f] = "ready" => Report(UploadOf(f), TRUE) \in reported'
      /\ fileStatus'[f] = "failed" => \E u \in TasksOf(f) : Report(u, FALSE) \in reported'
      /\ fileStatus'[f] = "deleted" => \E u \in DeletesOf(f) : Report(u, TRUE) \in reported'
  BY <1>a, <1>b, <1>1, <1>3, AfterFacts DEF Told
<1>9. /\ rowStatus'[f] = "ready" => Report(UploadOf(f), TRUE) \in reported'
      /\ rowStatus'[f] = "failed" => \E u \in TasksOf(f) : Report(u, FALSE) \in reported'
  BY <1>a, <1>b, <1>1, <1>4, AfterFacts DEF Told
<1>10. ASSUME NEW u \in TasksOf(f), NEW b \in BOOLEAN, Report(u, b) \in reported'
       PROVE  /\ taskStatus'[u] \in {"completed", "failed"}
              /\ fileStatus'[f] # "pending"
              /\ u = UploadOf(f) => rowStatus'[f] # "pending"
  <2>1. u = t \/ Report(u, b) \in reported
    BY <1>1, <1>6, <1>10
  <2>2. Report(u, b) \in reported => /\ taskStatus[u] \in {"completed", "failed"}
                                     /\ fileStatus[f] # "pending"
                                     /\ u = UploadOf(f) => rowStatus[f] # "pending"
    BY <1>a DEF Told
  <2>3. taskStatus'[u] \in {"completed", "failed"}
    <3>1. "task" \in left => taskStatus[t] \in {"completed", "failed"}
      BY <1>a, <1>5 DEF Told
    <3> QED
      BY <1>a, <1>2, <2>1, <2>2, <3>1, AfterFacts
  <2>4. fileStatus'[f] # "pending"
    BY <1>3, <1>5, AfterFacts
  <2>5. u = UploadOf(f) => rowStatus'[f] # "pending"
    <3>1. CASE Report(u, b) \in reported
      BY <1>4, <2>2, <3>1, AfterFacts
    <3>2. CASE u = t
      BY <1>b, <1>4, <1>5, <3>2, AfterFacts
    <3> QED
      BY <2>1, <3>1, <3>2
  <2> QED
    BY <2>3, <2>4, <2>5
<1>11. \A u \in TasksOf(f), b \in BOOLEAN : Report(u, b) \in reported' =>
           /\ taskStatus'[u] \in {"completed", "failed"}
           /\ fileStatus'[f] # "pending"
           /\ u = UploadOf(f) => rowStatus'[f] # "pending"
  BY <1>10
<1> QED
  BY <1>7, <1>8, <1>9, <1>11 DEF Told

\* A report that was not overtaken makes task, file and rows agree, whatever was before.
LEMMA CallbackAgrees ==
    ASSUME BackendInv, NEW r \in Reports, Callback(r, {})
    PROVE  Witnessed(r.task.file)' /\ RowsAgree(r.task.file)'
<1> DEFINE t == r.task
           f == t.file
<1>a. /\ BackendTypeOK
      /\ f \in Files /\ t \in Tasks /\ t \in TasksOf(f) /\ r.success \in BOOLEAN
      /\ t.type = "upload" => t = UploadOf(f)
      /\ t.type = "delete" => t \in DeletesOf(f)
  BY ReportFacts, TaskFacts DEF BackendInv
<1>1. taskStatus'[t] = TaskAfter(r) /\ fileStatus'[f] = FileAfter(r)
  BY <1>a, CallbackEffect DEF BackendTypeOK
<1>2. rowStatus'[f] \in {"none", RowsAfter(r)}
  BY <1>a, CallbackEffect DEF BackendTypeOK
<1> QED
  BY <1>a, <1>1, <1>2, AfterFacts DEF Witnessed, RowsAgree

\* Every step keeps the invariant of every file.
LEMMA BackendStepFiles == BackendInv /\ [BackendNext]_backendVars => \A f \in Files : FileInv(f)'
<1> SUFFICES ASSUME BackendInv, [BackendNext]_backendVars PROVE \A f \in Files : FileInv(f)'
  OBVIOUS
<1>a. BackendTypeOK /\ BackendTypeOK' /\ \A f \in Files : FileInv(f)
  BY BackendStepType DEF BackendInv
<1>b. ASSUME NEW f \in Files, FileInv(f)', \A g \in Files \ {f} : Untouched(g)
      PROVE  \A g \in Files : FileInv(g)'
  BY <1>b, OtherFiles
<1>c. \A f \in Files : \A t \in TasksOf(f), s \in BOOLEAN :
          taskStatus[t] = "none" => Report(t, s) \notin reported
  BY <1>a DEF FileInv, Told
<1> USE DEF BackendTypeOK
<1>1. ASSUME NEW f \in Files, CommitFile(f) PROVE \A g \in Files : FileInv(g)'
  <2>1. FileInv(f)'
    <3>1. /\ creating[f] = "no" /\ creating' = [creating EXCEPT ![f] = "file"]
          /\ fileStatus' = [fileStatus EXCEPT ![f] = "pending"]
          /\ UNCHANGED <<rowStatus, taskStatus, reported, overtaken>>
      BY <1>1 DEF CommitFile, histories
    <3>2. fileStatus[f] = "absent" /\ \A t \in TasksOf(f) : taskStatus[t] = "none"
      BY <1>a, <3>1 DEF FileInv, CreationOrder
    <3>3. \A t \in TasksOf(f), s \in BOOLEAN : Report(t, s) \notin reported
      BY <1>c, <3>2
    <3>4. Told(f)'
      <4>1. fileStatus'[f] = "pending" /\ Told(f)
        BY <1>a, <3>1 DEF FileInv
      <4> QED
        BY <3>1, <3>2, <3>3, <4>1 DEF Told
    <3>5. CreationOrder(f)' /\ (f \notin overtaken' => Witnessed(f)' /\ RowsAgree(f)')
      BY <1>a, <3>1, <3>2, TaskFacts DEF FileInv, CreationOrder, Witnessed, RowsAgree
    <3> QED
      BY <3>4, <3>5 DEF FileInv
  <2>2. \A g \in Files \ {f} : Untouched(g)
    BY <1>a, <1>1 DEF CommitFile, Untouched, histories
  <2> QED
    BY <2>1, <2>2, <1>b
<1>2. ASSUME NEW f \in Files, CommitRows(f) PROVE \A g \in Files : FileInv(g)'
  <2>1. FileInv(f)'
    <3>1. /\ creating[f] = "file" /\ creating' = [creating EXCEPT ![f] = "rows"]
          /\ rowStatus'[f] \in {rowStatus[f], "pending"}
          /\ UNCHANGED <<fileStatus, taskStatus, reported, overtaken>>
      BY <1>a, <1>2 DEF CommitRows, histories
    <3>2. taskStatus[UploadOf(f)] = "none" /\ rowStatus[f] = "none"
      BY <1>a, <3>1, TaskFacts DEF FileInv, CreationOrder
    <3>3. \A s \in BOOLEAN : Report(UploadOf(f), s) \notin reported
      BY <1>c, <3>2, TaskFacts
    <3>4. Told(f)'
      BY <1>a, <3>1, <3>3 DEF FileInv, Told
    <3>5. CreationOrder(f)' /\ (f \notin overtaken' => Witnessed(f)' /\ RowsAgree(f)')
      BY <1>a, <3>1, <3>2, TaskFacts DEF FileInv, CreationOrder, Witnessed, RowsAgree
    <3> QED
      BY <3>4, <3>5 DEF FileInv
  <2>2. \A g \in Files \ {f} : Untouched(g)
    BY <1>a, <1>2 DEF CommitRows, Untouched, histories
  <2> QED
    BY <2>1, <2>2, <1>b
<1>3. ASSUME NEW f \in Files, CommitUploadTask(f) PROVE \A g \in Files : FileInv(g)'
  <2> DEFINE u == UploadOf(f)
  <2>1. /\ u \in TasksOf(f) /\ u \in Tasks
        /\ \A t \in DeletesOf(f) : t # u
    BY TaskFacts
  <2>2. taskStatus'[u] = "pending" /\ \A t \in Tasks \ {u} : taskStatus'[t] = taskStatus[t]
    BY <1>a, <1>3, <2>1 DEF CommitUploadTask, histories
  <2>3. /\ UNCHANGED <<fileStatus, rowStatus, reported, overtaken>>
        /\ creating[f] = "rows" /\ creating' = [creating EXCEPT ![f] = "done"]
    BY <1>3 DEF CommitUploadTask, histories
  <2>4. taskStatus[u] = "none" /\ \A s \in BOOLEAN : Report(u, s) \notin reported
    <3>1. taskStatus[u] = "none"
      BY <1>a, <2>3 DEF FileInv, CreationOrder
    <3> QED
      BY <1>c, <2>1, <3>1
  <2>5. \A t \in TasksOf(f) : t # u => taskStatus'[t] = taskStatus[t]
    BY <2>2, TaskFacts
  <2> HIDE DEF u
  <2>6. UploadOf(f) = u
    BY DEF u
  <2>7. FileInv(f)'
    <3>1. Told(f)'
      <4>1. Told(f)
        BY <1>a DEF FileInv
      <4>2. \A t \in TasksOf(f) : taskStatus'[t] \in {taskStatus[t], "pending"}
        BY <2>1, <2>2, <2>5
      <4>3. \A t \in TasksOf(f), s \in BOOLEAN :
                Report(t, s) \in reported => taskStatus'[t] = taskStatus[t]
        BY <2>4, <2>5
      <4> QED
        BY <2>3, <4>1, <4>2, <4>3 DEF Told
    <3>2. CreationOrder(f)' /\ (f \notin overtaken' => Witnessed(f)' /\ RowsAgree(f)')
      BY <1>a, <2>1, <2>2, <2>3, <2>4, <2>5, <2>6, TaskFacts
         DEF FileInv, CreationOrder, Witnessed, RowsAgree
    <3> QED
      BY <3>1, <3>2 DEF FileInv
  <2>8. \A g \in Files \ {f} : Untouched(g)
    BY <1>a, <2>1, <2>2, <2>3, TaskFacts DEF Untouched, histories
  <2> QED
    BY <2>7, <2>8, <1>b
<1>4. ASSUME NEW f \in Files, AbortCreate(f) PROVE \A g \in Files : FileInv(g)'
  <2>1. FileInv(f)'
    <3>1. /\ creating[f] \in {"file", "rows"} /\ creating' = [creating EXCEPT ![f] = "aborted"]
          /\ UNCHANGED <<fileStatus, rowStatus, taskStatus, reported, overtaken>>
      BY <1>4 DEF AbortCreate, histories
    <3>2. Told(f)' /\ (f \notin overtaken' => Witnessed(f)' /\ RowsAgree(f)')
      <4>1. Told(f) /\ (f \notin overtaken => Witnessed(f) /\ RowsAgree(f))
        BY <1>a DEF FileInv
      <4>2. Told(f)'
        BY <3>1, <4>1 DEF Told
      <4> QED
        BY <3>1, <4>1, <4>2 DEF Witnessed, RowsAgree
    <3>3. CreationOrder(f)'
      BY <1>a, <3>1, TaskFacts DEF FileInv, CreationOrder
    <3> QED
      BY <3>2, <3>3 DEF FileInv
  <2>2. \A g \in Files \ {f} : Untouched(g)
    BY <1>a, <1>4 DEF AbortCreate, Untouched, histories
  <2> QED
    BY <2>1, <2>2, <1>b
<1>5. ASSUME NEW f \in Files, NEW n \in 1..MaxDeletes, RequestDelete(f, n)
      PROVE  \A g \in Files : FileInv(g)'
  <2> DEFINE d == DeleteOf(f, n)
  <2>1. d \in DeletesOf(f) /\ d \in TasksOf(f) /\ d \in Tasks /\ d # UploadOf(f)
    BY TaskFacts
  <2>2. taskStatus'[d] = "pending" /\ \A t \in Tasks \ {d} : taskStatus'[t] = taskStatus[t]
    BY <1>a, <1>5, <2>1 DEF RequestDelete, histories
  <2>3. /\ UNCHANGED <<rowStatus, creating, reported, overtaken>>
        /\ fileStatus[f] # "absent"
        /\ taskStatus[d] = "none"
        /\ \/ fileStatus' = [fileStatus EXCEPT ![f] = "deleting"]
           \/ n > 1 /\ taskStatus[DeleteOf(f, 1)] # "none" /\ fileStatus' = fileStatus
    BY <1>5 DEF RequestDelete, histories
  <2> HIDE DEF d
  <2>4. FileInv(f)'
    <3>1. \A s \in BOOLEAN : Report(d, s) \notin reported
      BY <1>c, <2>1, <2>3
    <3>2. fileStatus'[f] \in {fileStatus[f], "deleting"}
      BY <1>a, <2>3
    <3>3. Told(f)'
      <4>1. Told(f) /\ \A t \in TasksOf(f) : t # d => taskStatus'[t] = taskStatus[t]
        BY <1>a, <2>2, TaskFacts DEF FileInv
      <4> QED
        BY <2>1, <2>2, <2>3, <3>1, <3>2, <4>1 DEF Told
    <3>4. CreationOrder(f)'
      BY <1>a, <2>1, <2>2, <2>3, <3>2, TaskFacts DEF FileInv, CreationOrder
    <3>5. f \notin overtaken' => Witnessed(f)' /\ RowsAgree(f)'
      <4>1. CASE fileStatus'[f] = "deleting"
        BY <1>a, <2>1, <2>2, <2>3, <4>1 DEF FileInv, Witnessed, RowsAgree
      <4>2. CASE fileStatus'[f] = fileStatus[f] /\ n > 1 /\ taskStatus[DeleteOf(f, 1)] # "none"
        <5>1. DeleteOf(f, 1) \in DeletesOf(f)
          BY <4>2, MaxDeletesAssumption, TaskFacts
        <5> QED
          BY <1>a, <2>1, <2>2, <2>3, <4>2, <5>1, TaskFacts DEF FileInv, Witnessed, RowsAgree
      <4> QED
        BY <1>a, <2>3, <4>1, <4>2
    <3> QED
      BY <3>3, <3>4, <3>5 DEF FileInv
  <2>5. \A g \in Files \ {f} : Untouched(g)
    BY <1>a, <2>1, <2>2, <2>3, TaskFacts DEF Untouched, histories
  <2> QED
    BY <2>4, <2>5, <1>b
<1>6. ASSUME NEW t \in Tasks, Sent(t) PROVE \A g \in Files : FileInv(g)'
  BY <1>a, <1>6, UntouchedInv DEF Sent, Untouched, histories
<1>7. ASSUME NEW r \in Reports, NEW left \in SUBSET MayLeave(r), Callback(r, left)
      PROVE  \A g \in Files : FileInv(g)'
  <2> DEFINE f == r.task.file
  <2>1. f \in Files /\ r.task \in TasksOf(f) /\ UploadOf(f) \in Tasks /\ UploadOf(f) \in TasksOf(f)
    BY TaskFacts, ReportFacts
  <2>2. \A g \in Files \ {f} : Untouched(g)
    <3>1. ASSUME NEW g \in Files, g # f PROVE Untouched(g)
      <4>1. \A t \in TasksOf(g) : t # r.task /\ t \in Tasks
        BY <2>1, <3>1, TaskFacts
      <4>2. \A t \in TasksOf(g), s \in BOOLEAN : Report(t, s) # r
        BY <4>1, ReportFacts
      <4>3. /\ fileStatus'[g] = fileStatus[g] /\ rowStatus'[g] = rowStatus[g]
            /\ creating'[g] = creating[g] /\ (g \in overtaken' <=> g \in overtaken)
        BY <1>a, <1>7, <3>1, CallbackEffect
      <4>4. \A t \in TasksOf(g) : taskStatus'[t] = taskStatus[t]
        BY <1>a, <1>7, <4>1, CallbackEffect
      <4>5. reported' = reported \union {r}
        BY <1>a, <1>7, CallbackEffect
      <4> QED
        BY <4>2, <4>3, <4>4, <4>5 DEF Untouched
    <3> QED
      BY <3>1
  <2>3. Told(f)'
    BY <1>7, CallbackTold
  <2>4. CreationOrder(f)'
    <3>1. taskStatus[r.task] # "none" /\ fileStatus[f] # "absent" /\ UNCHANGED creating
      <4>1. taskStatus[r.task] # "none" /\ UNCHANGED creating
        BY <1>a, <1>7, CallbackEffect
      <4> QED
        BY <1>a, <2>1, <4>1 DEF FileInv, CreationOrder
    <3>2. fileStatus'[f] # "absent"
      BY <1>a, <1>7, <2>1, <3>1, CallbackEffect, AfterFacts
    <3>3. rowStatus[f] = "none" => rowStatus'[f] = "none"
      BY <1>a, <1>7, <2>1, CallbackEffect
    <3>4. taskStatus'[UploadOf(f)] # "none" => taskStatus[UploadOf(f)] # "none"
      BY <1>a, <1>7, <2>1, <3>1, CallbackEffect
    <3> QED
      BY <1>a, <2>1, <3>1, <3>2, <3>3, <3>4 DEF FileInv, CreationOrder
  <2>5. f \notin overtaken' => Witnessed(f)' /\ RowsAgree(f)'
    <3>1. f \notin overtaken' => left = {}
      BY <1>7, CallbackEffect, <1>a
    <3> QED
      BY <1>7, <3>1, CallbackAgrees
  <2>6. FileInv(f)'
    BY <2>3, <2>4, <2>5 DEF FileInv
  <2> QED
    BY <2>1, <2>2, <2>6, <1>b
<1>8. CASE UNCHANGED backendVars
  BY <1>a, <1>8, UntouchedInv DEF backendVars, histories, Untouched
<1> QED
  BY <1>1, <1>2, <1>3, <1>4, <1>5, <1>6, <1>7, <1>8 DEF BackendNext, Request, Create

-----------------------------------------------------------------------------
(* The theorems. *)

\* The strengthened invariant holds throughout: whatever reports overlap and leave out, what
\* stands in the records was reported, and what the last report wrote in full agrees.
THEOREM BackendInvariant == BackendSpec => []BackendInv
<1>1. BackendInv /\ [BackendNext]_backendVars => BackendInv'
  BY BackendStepType, BackendStepFiles DEF BackendInv
<1> QED
  BY <1>1, BackendInitInv, PTL DEF BackendSpec

\* The database's columns keep to their values.
THEOREM BackendTypes == BackendSpec => []BackendTypeOK
<1>1. BackendInv => BackendTypeOK
  BY DEF BackendInv
<1> QED
  BY <1>1, BackendInvariant, PTL

\* However reports overlap, no status comes from nowhere and none stays pending after a
\* report.
THEOREM StatusReported == BackendSpec => []StatusIsReported
<1>1. BackendInv => StatusIsReported
  BY DEF BackendInv, FileInv, StatusIsReported
<1> QED
  BY <1>1, BackendInvariant, PTL

\* No order of requests and callbacks leaves a file in a status that none of its tasks
\* explains, or with rows that disagree, unless its last report was overtaken.
THEOREM RecordsStayInAgreement == BackendSpec => []RecordsAgree
<1>1. BackendInv => RecordsAgree
  BY DEF BackendInv, FileInv, RecordsAgree
<1> QED
  BY <1>1, BackendInvariant, PTL

\* Rows that a delete has removed never come back.
THEOREM RowsStayRemoved == BackendSpec => RowsNeverReturn
<1> DEFINE Stay == \A f \in Files : creating[f] \in {"rows", "done", "aborted"} /\ rowStatus[f] = "none"
                                        => rowStatus'[f] = "none"
<1>1. BackendInv /\ [BackendNext]_backendVars => [Stay]_backendVars
  <2> SUFFICES ASSUME BackendTypeOK, BackendNext PROVE Stay
    BY DEF BackendInv
  <2>1. ASSUME NEW f \in Files, Request(f) PROVE Stay
    BY <2>1 DEF Request, Create, CommitFile, CommitRows, CommitUploadTask, AbortCreate,
                RequestDelete, BackendTypeOK
  <2>2. ASSUME NEW t \in Tasks, Sent(t) PROVE Stay
    BY <2>2 DEF Sent
  <2>3. ASSUME NEW r \in Reports, NEW left \in SUBSET MayLeave(r), Callback(r, left) PROVE Stay
    BY <2>3, CallbackEffect, ReportFacts DEF BackendTypeOK
  <2> QED
    BY <2>1, <2>2, <2>3 DEF BackendNext
<1> QED
  BY <1>1, BackendInvariant, PTL DEF BackendSpec, RowsNeverReturn
=============================================================================
