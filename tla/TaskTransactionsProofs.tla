----------------------- MODULE TaskTransactionsProofs -----------------------
(***************************************************************************)
(* Theorems about TaskTransactions for any files, any numbers of chunks,   *)
(* of delete requests and of calls, and their statements in any order.     *)
(***************************************************************************)
EXTENDS TaskTransactions, BackendProofs, FiniteSetTheorems, SequenceTheorems

-----------------------------------------------------------------------------
(* The orders of the UPDATEs of a commit. *)

\* Each order sends every UPDATE that is due, and nothing else.
LEMMA FlushesSendWhatIsDue ==
    ASSUME NEW due \in SUBSET Items, NEW order \in Flushes(due)
    PROVE  order \in Seq(Items) /\ Range(order) = due
<1> DEFINE D == 1..Cardinality(due)
<1>1. IsFiniteSet(due) /\ Cardinality(due) \in Nat
  <2>1. IsFiniteSet({"task"} \union {"file"})
    BY FS_Singleton, FS_AddElement
  <2>2. IsFiniteSet(({"task"} \union {"file"}) \union {"rows"})
    BY <2>1, FS_AddElement
  <2>3. Items = ({"task"} \union {"file"}) \union {"rows"}
    BY DEF Items
  <2> QED
    BY <2>2, <2>3, FS_Subset, FS_CardinalityType
<1>2. order \in [D -> due] /\ \A i, j \in D : i # j => order[i] # order[j]
  BY DEF Flushes, SetToSeqs
<1>3. order \in Injection(D, due)
  BY <1>2 DEF Injection, IsInjective
<1>4. Cardinality(D) = Cardinality(due)
  BY <1>1, FS_Interval
<1>5. order \in Surjection(D, due)
  BY <1>1, <1>3, <1>4, FS_Injection
<1>6. Range(order) = due
  BY <1>2, <1>5 DEF Surjection, Range
<1>7. order \in Seq(due)
  BY <1>1, <1>2, SeqDef
<1> QED
  BY <1>6, <1>7, SeqMonotonic

\* What is sent is taken off the list.
LEMMA HeadAndTail ==
    ASSUME NEW s \in Seq(Items), s # <<>>
    PROVE  Head(s) \in Items /\ Tail(s) \in Seq(Items) /\ Range(s) = {Head(s)} \union Range(Tail(s))
<1>1. /\ Head(s) = s[1] /\ Head(s) \in Items /\ Tail(s) \in Seq(Items)
      /\ Len(s) \in Nat \ {0}
      /\ Len(Tail(s)) = Len(s) - 1
      /\ \A i \in 1..Len(Tail(s)) : Tail(s)[i] = s[i + 1]
      /\ DOMAIN s = 1..Len(s)
      /\ DOMAIN Tail(s) = 1..Len(Tail(s))
  BY HeadTailProperties, LenProperties, EmptySeq
<1>2. Range(Tail(s)) \subseteq Range(s)
  BY <1>1 DEF Range
<1>3. Head(s) \in Range(s)
  BY <1>1 DEF Range
<1>4. ASSUME NEW x \in Range(s), x # Head(s) PROVE x \in Range(Tail(s))
  <2>1. PICK i \in 1..Len(s) : x = s[i]
    BY <1>1 DEF Range
  <2>2. i - 1 \in 1..Len(Tail(s)) /\ Tail(s)[i - 1] = x
    BY <1>1, <1>4, <2>1
  <2> QED
    BY <1>1, <2>2 DEF Range
<1> QED
  BY <1>1, <1>2, <1>3, <1>4

LEMMA ShortLists ==
    /\ <<>> \in Seq(Items) /\ Range(<<>>) = {}
    /\ <<"file">> \in Seq(Items) /\ Range(<<"file">>) = {"file"}
BY EmptySeq DEF Range, Items

-----------------------------------------------------------------------------
(* The inductive invariant. *)

IsCallback(c) == calls[c].kind # "delete"

\* What c has still to write or has written.
Pending(c) == Range(calls[c].todo) \union calls[c].holds

\* A call in its commit has to write what differs from what it read, and has the rows
\* of a deleted file gone already.
PendingIsDue(c) ==
    /\ "file" \in Pending(c) <=> calls[c].sawFile # NewFile(c)
    /\ IsCallback(c) /\ ~RemovesRows(c) =>
           ("rows" \in Pending(c) <=> calls[c].sawRows \notin {"none", NewRows(c)})
    /\ IsCallback(c) /\ RemovesRows(c) =>
           /\ "rows" \notin Range(calls[c].todo)
           /\ "rows" \in calls[c].holds <=> calls[c].sawRows # "none"
    /\ ~IsCallback(c) => "rows" \notin Pending(c)

\* What a call relies on at COMMIT and does not look at again: its task and its file are
\* there, no failure it counts from has been taken back, and rows it has locked stay.
CallInv(c) ==
    /\ IsCallback(c) => /\ calls[c].task \in Tasks
                        /\ calls[c].task.file = calls[c].file
                        /\ taskStatus[calls[c].task] # "none"
                        /\ calls[c].sawCount <= failures[calls[c].task]
    /\ ~IsCallback(c) => calls[c].pc \notin {"file", "rows"}
    /\ ~IsCallback(c) /\ calls[c].pc = "flush" => fileStatus[calls[c].file] # "absent"
    /\ calls[c].pc = "flush" => PendingIsDue(c)
    /\ calls[c].todo # <<>> => calls[c].pc = "flush"
    /\ calls[c].holds # {} => calls[c].pc = "flush"
    /\ "rows" \in calls[c].holds /\ ~RemovesRows(c) => rowStatus[calls[c].file] # "none"

\* The lock on the rows of a file is one transaction's at a time.
LockIsExclusive(c, d) ==
    c # d /\ calls[c].file = calls[d].file =>
        ~("rows" \in calls[c].holds /\ "rows" \in calls[d].holds)

\* Rows are there from their commit on only.
NoRowsYet(f) == creating[f] \in {"no", "file"} => rowStatus[f] = "none"

Counts(t) == /\ retryCount[t] <= failures[t]
             /\ failures[t] > 0 => retryCount[t] > 0

TransactionsInv ==
    /\ TransactionsTypeOK
    /\ \A c \in Calls : CallInv(c)
    /\ \A c, d \in Calls : LockIsExclusive(c, d)
    /\ \A f \in Files : NoRowsYet(f)
    /\ \A t \in Tasks : Counts(t)

-----------------------------------------------------------------------------
(* What one call's step leaves of the others. *)

\* Statuses leave "none" and "absent" for good, failures are only added, and the rows
\* under call d's lock stay: all that another call's invariant rests on.
Kept(d) ==
    /\ calls'[d] = calls[d]
    /\ IsCallback(d) => /\ taskStatus'[calls[d].task] # "none"
                        /\ failures[calls[d].task] <= failures'[calls[d].task]
    /\ fileStatus[calls[d].file] # "absent" => fileStatus'[calls[d].file] # "absent"
    /\ "rows" \in calls[d].holds /\ ~RemovesRows(d) => rowStatus'[calls[d].file] # "none"

LEMMA CallKept ==
    ASSUME TransactionsInv, failures' \in [Tasks -> Nat], NEW d \in Calls, Kept(d)
    PROVE  CallInv(d)'
<1>1. CallInv(d) /\ calls'[d] = calls[d]
  BY DEF TransactionsInv, Kept
<1>2. PendingIsDue(d) <=> PendingIsDue(d)'
  BY <1>1 DEF PendingIsDue, Pending, IsCallback, NewFile, NewRows, RemovesRows
<1>3. (IsCallback(d) <=> IsCallback(d)') /\ (RemovesRows(d) <=> RemovesRows(d)')
  BY <1>1 DEF IsCallback, RemovesRows
<1>4. IsCallback(d) => /\ calls[d].task \in Tasks
                       /\ calls[d].sawCount <= failures'[calls[d].task]
  <2>1. calls[d].sawCount \in Nat /\ failures \in [Tasks -> Nat]
    BY DEF TransactionsInv, TransactionsTypeOK, Call
  <2> QED
    BY <1>1, <2>1 DEF CallInv, Kept
<1> QED
  BY <1>1, <1>2, <1>3, <1>4 DEF CallInv, Kept

\* A statement changes its own call and nothing committed.
LEMMA StatementInv ==
    ASSUME TransactionsInv, NEW c \in Calls, NEW call \in Call, Goes(c, call), UNCHANGED records,
           CallInv(c)',
           "rows" \in call.holds =>
               \A d \in Calls \ {c} : calls[d].file = call.file => "rows" \notin calls[d].holds
    PROVE  TransactionsInv'
<1>1. calls' \in [Calls -> Call] /\ calls'[c] = call /\ \A d \in Calls \ {c} : calls'[d] = calls[d]
  BY DEF Goes, TransactionsInv, TransactionsTypeOK
<1>2. UNCHANGED <<fileStatus, rowStatus, taskStatus, creating, toPublish, retryCount, failures,
                reported, overtaken>>
  BY DEF records, backendVars, histories
<1>3. \A d \in Calls : CallInv(d)'
  <2>1. ASSUME NEW d \in Calls \ {c} PROVE Kept(d)
    <3>1. CallInv(d) /\ calls[d].task \in Tasks \union {NoTask} /\ failures \in [Tasks -> Nat]
      BY DEF TransactionsInv, TransactionsTypeOK, Call
    <3> QED
      BY <1>1, <1>2, <3>1 DEF Kept, CallInv
  <2> QED
    BY <1>2, <2>1, CallKept DEF TransactionsInv, TransactionsTypeOK
<1>4. \A d, e \in Calls : LockIsExclusive(d, e)'
  BY <1>1 DEF TransactionsInv, LockIsExclusive
<1>5. BackendTypeOK' /\ (\A f \in Files : NoRowsYet(f)') /\ (\A t \in Tasks : Counts(t)')
  BY <1>2 DEF TransactionsInv, TransactionsTypeOK, BackendTypeOK, NoRowsYet, Counts
<1>6. TransactionsTypeOK'
  BY <1>1, <1>2, <1>3, <1>5 DEF TransactionsInv, TransactionsTypeOK, CallInv
<1> QED
  BY <1>3, <1>4, <1>5, <1>6 DEF TransactionsInv

-----------------------------------------------------------------------------
(* The statements keep the invariant. *)

LEMMA ReadTaskInv ==
    ASSUME TransactionsInv, NEW c \in Calls, NEW t \in Tasks, NEW kind \in {"success", "failure"},
           ReadTask(c, t, kind)
    PROVE  TransactionsInv'
<1> DEFINE call == [Opened(kind, "file", t, t.file, taskStatus[t], "absent")
                    EXCEPT !.sawCount = retryCount[t]]
<1>1. /\ call.kind = kind /\ call.pc = "file" /\ call.task = t /\ call.file = t.file
      /\ call.sawCount = retryCount[t] /\ call.todo = <<>> /\ call.holds = {}
  BY DEF Opened
<1>2. call \in Call
  BY ShortLists, TaskFacts DEF Opened, Call, TransactionsInv, TransactionsTypeOK,
     BackendTypeOK, FileStatuses, RowStatuses
<1>3. Goes(c, call) /\ UNCHANGED records /\ taskStatus[t] # "none"
  BY DEF ReadTask
<1>4. calls'[c] = call /\ UNCHANGED <<taskStatus, fileStatus, rowStatus, failures>>
  BY <1>3 DEF Goes, TransactionsInv, TransactionsTypeOK, records, backendVars
<1>5. retryCount[t] <= failures[t]
  BY DEF TransactionsInv, Counts
<1>6. CallInv(c)'
  BY <1>1, <1>3, <1>4, <1>5 DEF CallInv, IsCallback
<1> HIDE DEF call
<1> QED
  BY <1>1, <1>2, <1>3, <1>6, StatementInv

LEMMA ReadFileInv ==
    ASSUME TransactionsInv, NEW c \in Calls, ReadFile(c)
    PROVE  TransactionsInv'
<1> DEFINE call == [calls[c] EXCEPT !.pc = "rows", !.sawFile = fileStatus[calls[c].file]]
<1>1. CallInv(c) /\ calls[c] \in Call
  BY DEF TransactionsInv, TransactionsTypeOK
<1>2. Goes(c, call) /\ UNCHANGED records /\ calls[c].pc = "file"
  BY DEF ReadFile
<1>3. calls[c].todo = <<>> /\ calls[c].holds = {}
  BY <1>1, <1>2 DEF CallInv
<1>4. call \in Call
  BY <1>1 DEF Call, TransactionsInv, TransactionsTypeOK, BackendTypeOK
<1>5. /\ call.kind = calls[c].kind /\ call.pc = "rows" /\ call.task = calls[c].task
      /\ call.file = calls[c].file /\ call.sawCount = calls[c].sawCount
      /\ call.todo = <<>> /\ call.holds = {}
  BY <1>1, <1>3 DEF Call
<1>6. calls'[c] = call /\ UNCHANGED <<taskStatus, fileStatus, rowStatus, failures>>
  BY <1>2 DEF Goes, TransactionsInv, TransactionsTypeOK, records, backendVars
<1> HIDE DEF call
<1>7. CallInv(c)'
  BY <1>1, <1>2, <1>5, <1>6 DEF CallInv, IsCallback
<1> QED
  BY <1>2, <1>4, <1>5, <1>7, StatementInv

LEMMA ReadFileToDeleteInv ==
    ASSUME TransactionsInv, NEW c \in Calls, NEW f \in Files, ReadFileToDelete(c, f)
    PROVE  TransactionsInv'
<1> DEFINE list == IF fileStatus[f] = "deleting" THEN <<>> ELSE <<"file">>
           call == [Opened("delete", "flush", NoTask, f, "none", fileStatus[f])
                    EXCEPT !.todo = list]
<1>1. /\ call.kind = "delete" /\ call.pc = "flush" /\ call.file = f /\ call.sawFile = fileStatus[f]
      /\ call.todo = list /\ call.holds = {}
  BY DEF Opened
<1>2. call \in Call
  BY ShortLists DEF Opened, Call, TransactionsInv, TransactionsTypeOK, BackendTypeOK, TaskStatuses,
     RowStatuses
<1>3. Goes(c, call) /\ UNCHANGED records /\ fileStatus[f] # "absent"
  BY DEF ReadFileToDelete
<1>4. calls'[c] = call /\ UNCHANGED <<taskStatus, fileStatus, rowStatus, failures>>
  BY <1>3 DEF Goes, TransactionsInv, TransactionsTypeOK, records, backendVars
<1>5. Range(list) = IF fileStatus[f] = "deleting" THEN {} ELSE {"file"}
  BY ShortLists
<1> HIDE DEF call, list
<1>6. NewFile(c)' = "deleting"
  BY <1>1, <1>4 DEF NewFile
<1>7. PendingIsDue(c)'
  BY <1>1, <1>4, <1>5, <1>6 DEF PendingIsDue, Pending, IsCallback
<1>8. CallInv(c)'
  BY <1>1, <1>3, <1>4, <1>7 DEF CallInv, IsCallback
<1> QED
  BY <1>1, <1>2, <1>3, <1>8, StatementInv

LEMMA ReadRowsInv ==
    ASSUME TransactionsInv, NEW c \in Calls, ReadRows(c)
    PROVE  TransactionsInv'
<1> DEFINE saw == rowStatus[calls[c].file]
<1>1. PICK order \in Flushes(Due(c, saw)) :
         Goes(c, [calls[c] EXCEPT !.pc = "flush", !.sawRows = saw, !.todo = order])
  BY DEF ReadRows
<1> DEFINE call == [calls[c] EXCEPT !.pc = "flush", !.sawRows = saw, !.todo = order]
<1>2. CallInv(c) /\ calls[c] \in Call /\ saw \in RowStatuses
  BY DEF TransactionsInv, TransactionsTypeOK, BackendTypeOK, Call
<1>3. Goes(c, call) /\ UNCHANGED records /\ calls[c].pc = "rows" /\ ~RemovesRows(c)
  BY <1>1 DEF ReadRows
<1>4. calls[c].holds = {} /\ IsCallback(c)
  BY <1>2, <1>3 DEF CallInv
<1>5. Due(c, saw) \in SUBSET Items
  BY DEF Due, Items
<1>6. order \in Seq(Items) /\ Range(order) = Due(c, saw)
  BY <1>1, <1>5, FlushesSendWhatIsDue
<1> HIDE DEF saw
<1>7. call \in Call
  BY <1>2, <1>6 DEF Call
<1>8. /\ call.kind = calls[c].kind /\ call.pc = "flush" /\ call.task = calls[c].task
      /\ call.file = calls[c].file /\ call.sawCount = calls[c].sawCount
      /\ call.sawFile = calls[c].sawFile /\ call.sawRows = saw
      /\ call.todo = order /\ call.holds = {}
  BY <1>2, <1>4 DEF Call
<1>9. calls'[c] = call /\ UNCHANGED <<taskStatus, fileStatus, rowStatus, failures>>
  BY <1>3 DEF Goes, TransactionsInv, TransactionsTypeOK, records, backendVars
<1> HIDE DEF call
<1>10. /\ NewFile(c)' = NewFile(c) /\ NewRows(c)' = NewRows(c)
       /\ ~RemovesRows(c)' /\ IsCallback(c)' /\ Pending(c)' = Due(c, saw)
  BY <1>3, <1>4, <1>6, <1>8, <1>9 DEF NewFile, NewRows, RemovesRows, IsCallback, Pending
<1>11. PendingIsDue(c)'
  BY <1>8, <1>9, <1>10 DEF PendingIsDue, Due
<1>12. CallInv(c)'
  BY <1>2, <1>4, <1>8, <1>9, <1>10, <1>11 DEF CallInv
<1> QED
  BY <1>3, <1>7, <1>8, <1>12, StatementInv

LEMMA DeleteRowsInv ==
    ASSUME TransactionsInv, NEW c \in Calls, DeleteRows(c)
    PROVE  TransactionsInv'
<1> DEFINE saw == rowStatus[calls[c].file]
           held == IF saw = "none" THEN {} ELSE {"rows"}
<1>1. PICK order \in Flushes(Due(c, saw) \ {"rows"}) :
         Goes(c, [calls[c] EXCEPT !.pc = "flush", !.sawRows = saw, !.todo = order, !.holds = held])
  BY DEF DeleteRows
<1> DEFINE call == [calls[c] EXCEPT !.pc = "flush", !.sawRows = saw, !.todo = order,
                                    !.holds = held]
<1>2. CallInv(c) /\ calls[c] \in Call /\ saw \in RowStatuses
  BY DEF TransactionsInv, TransactionsTypeOK, BackendTypeOK, Call
<1>3. Goes(c, call) /\ UNCHANGED records /\ calls[c].pc = "rows" /\ RemovesRows(c) /\ Free(c)
  BY <1>1 DEF DeleteRows
<1>4. IsCallback(c)
  BY <1>3 DEF RemovesRows, IsCallback
<1>5. Due(c, saw) \ {"rows"} \in SUBSET Items
  BY DEF Due, Items
<1>6. order \in Seq(Items) /\ Range(order) = Due(c, saw) \ {"rows"}
  BY <1>1, <1>5, FlushesSendWhatIsDue
<1>7. \A d \in Calls \ {c} : calls[d].file = calls[c].file => "rows" \notin calls[d].holds
  BY <1>3 DEF Free, WaitsFor, Blocks, Writes
<1>8. held \in SUBSET Items /\ ("rows" \in held <=> saw # "none") /\ "file" \notin held
  BY DEF Items
<1> HIDE DEF saw, held
<1>9. call \in Call
  BY <1>2, <1>6, <1>8 DEF Call
<1>10. /\ call.kind = calls[c].kind /\ call.pc = "flush" /\ call.task = calls[c].task
       /\ call.file = calls[c].file /\ call.sawCount = calls[c].sawCount
       /\ call.sawFile = calls[c].sawFile /\ call.sawRows = saw
       /\ call.todo = order /\ call.holds = held
  BY <1>2 DEF Call
<1>11. calls'[c] = call /\ UNCHANGED <<taskStatus, fileStatus, rowStatus, failures>>
  BY <1>3 DEF Goes, TransactionsInv, TransactionsTypeOK, records, backendVars
<1> HIDE DEF call
<1>12. /\ NewFile(c)' = NewFile(c) /\ RemovesRows(c)' /\ IsCallback(c)'
       /\ Pending(c)' = (Due(c, saw) \ {"rows"}) \union held
  BY <1>3, <1>4, <1>6, <1>10, <1>11 DEF NewFile, RemovesRows, IsCallback, Pending
<1>13. PendingIsDue(c)'
  BY <1>6, <1>8, <1>10, <1>11, <1>12 DEF PendingIsDue, Due
<1>14. CallInv(c)'
  BY <1>2, <1>4, <1>10, <1>11, <1>12, <1>13 DEF CallInv
<1> QED
  BY <1>3, <1>7, <1>9, <1>10, <1>14, StatementInv

LEMMA UpdateInv ==
    ASSUME TransactionsInv, NEW c \in Calls, Update(c)
    PROVE  TransactionsInv'
<1> DEFINE call == [calls[c] EXCEPT !.todo = Tail(@), !.holds = @ \union {Head(calls[c].todo)}]
           item == Head(calls[c].todo)
<1>1. CallInv(c) /\ calls[c] \in Call
  BY DEF TransactionsInv, TransactionsTypeOK
<1>2. /\ Goes(c, call) /\ UNCHANGED records /\ calls[c].pc = "flush" /\ calls[c].todo # <<>>
      /\ Free(c)
      /\ item = "rows" => rowStatus[calls[c].file] # "none"
  BY DEF Update
<1>3. /\ item \in Items /\ Tail(calls[c].todo) \in Seq(Items)
      /\ Range(calls[c].todo) = {item} \union Range(Tail(calls[c].todo))
  BY <1>1, <1>2, HeadAndTail DEF Call
<1>4. call \in Call
  BY <1>1, <1>3 DEF Call
<1>5. /\ call.kind = calls[c].kind /\ call.pc = "flush" /\ call.task = calls[c].task
      /\ call.file = calls[c].file /\ call.sawCount = calls[c].sawCount
      /\ call.sawFile = calls[c].sawFile /\ call.sawRows = calls[c].sawRows
      /\ call.todo = Tail(calls[c].todo) /\ call.holds = calls[c].holds \union {item}
  BY <1>1, <1>2 DEF Call
<1>6. calls'[c] = call /\ UNCHANGED <<taskStatus, fileStatus, rowStatus, failures>>
  BY <1>2 DEF Goes, TransactionsInv, TransactionsTypeOK, records, backendVars
<1>7. item = "rows" =>
          \A d \in Calls \ {c} : calls[d].file = calls[c].file => "rows" \notin calls[d].holds
  BY <1>2 DEF Free, WaitsFor, Blocks, Writes
<1>8. "rows" \in calls[c].holds =>
          \A d \in Calls \ {c} : calls[d].file = calls[c].file => "rows" \notin calls[d].holds
  BY DEF TransactionsInv, LockIsExclusive
<1> HIDE DEF call, item
<1>9. /\ NewFile(c)' = NewFile(c) /\ NewRows(c)' = NewRows(c)
      /\ RemovesRows(c)' <=> RemovesRows(c)
      /\ IsCallback(c)' <=> IsCallback(c)
  BY <1>5, <1>6 DEF NewFile, NewRows, RemovesRows, IsCallback
<1>10. Pending(c)' = Pending(c)
  BY <1>3, <1>5, <1>6 DEF Pending
<1>11. RemovesRows(c) /\ IsCallback(c) => item # "rows" /\ "rows" \notin Range(Tail(calls[c].todo))
  BY <1>1, <1>2, <1>3 DEF CallInv, PendingIsDue
<1>12. PendingIsDue(c)'
  BY <1>1, <1>2, <1>5, <1>6, <1>9, <1>10, <1>11 DEF CallInv, PendingIsDue
<1>13. CallInv(c)'
  BY <1>1, <1>2, <1>5, <1>6, <1>9, <1>12 DEF CallInv
<1> QED
  BY <1>2, <1>4, <1>5, <1>7, <1>8, <1>13, StatementInv

\* A transaction that is rolled back leaves nothing.
LEMMA RefusedInv ==
    ASSUME TransactionsInv, NEW c \in Calls, Goes(c, Refused(c)), UNCHANGED records
    PROVE  TransactionsInv'
<1>1. /\ Refused(c).kind = "delete" /\ Refused(c).pc = "refused"
      /\ Refused(c).todo = <<>> /\ Refused(c).holds = {}
  BY DEF Refused, Without, Opened
<1>2. Refused(c) \in Call
  BY ShortLists DEF Refused, Without, Opened, Call, TransactionsInv, TransactionsTypeOK, TaskStatuses,
     FileStatuses, RowStatuses
<1>3. calls'[c] = Refused(c)
  BY DEF Goes, TransactionsInv, TransactionsTypeOK
<1>4. CallInv(c)'
  BY <1>1, <1>3 DEF CallInv, IsCallback
<1> QED
  BY <1>1, <1>2, <1>4, StatementInv

-----------------------------------------------------------------------------
(* COMMIT. *)

\* The first delete task that is still free.
LEMMA FreshDelete ==
    ASSUME TransactionsInv, NEW f \in Files, NEW n \in 1..MaxDeletes,
           taskStatus[DeleteOf(f, n)] = "none",
           taskStatus' = [taskStatus EXCEPT ![DeleteOf(f, n)] = "pending"]
    PROVE  /\ DeleteOf(f, n) \in Tasks
           /\ taskStatus' \in [Tasks -> TaskStatuses]
           /\ \A t \in Tasks : taskStatus[t] # "none" => taskStatus'[t] # "none"
<1>1. DeleteOf(f, n) \in Tasks
  BY TaskFacts
<1> QED
  BY <1>1 DEF TransactionsInv, TransactionsTypeOK, BackendTypeOK, TaskStatuses

\* What a COMMIT does to the records, told by what it holds.
LEMMA CommitRecords ==
    ASSUME TransactionsInv, NEW c \in Calls, Commit(c)
    PROVE  /\ calls'[c] = Without(c, "done") /\ \A d \in Calls \ {c} : calls'[d] = calls[d]
           /\ calls' \in [Calls -> Call]
           /\ BackendTypeOK'
           /\ retryCount' \in [Tasks -> Nat] /\ failures' \in [Tasks -> Nat]
           /\ \A t \in Tasks : taskStatus[t] # "none" => taskStatus'[t] # "none"
           /\ \A t \in Tasks : failures[t] <= failures'[t]
           /\ \A f \in Files : fileStatus[f] # "absent" => fileStatus'[f] # "absent"
           /\ \A f \in Files :
                rowStatus'[f] # rowStatus[f] => /\ f = calls[c].file
                                                /\ "rows" \in calls[c].holds
           /\ \A f \in Files : rowStatus[f] = "none" => rowStatus'[f] = "none"
           /\ creating' = creating
<1>1. CallInv(c) /\ calls[c] \in Call /\ calls \in [Calls -> Call] /\ BackendTypeOK
      /\ retryCount \in [Tasks -> Nat] /\ failures \in [Tasks -> Nat]
  BY DEF TransactionsInv, TransactionsTypeOK
<1>2. calls[c].file \in Files /\ calls[c].kind \in {"success", "failure", "delete"}
  BY <1>1 DEF Call
<1>3. Without(c, "done") \in Call
  BY <1>2, ShortLists DEF Without, Opened, Call, TaskStatuses, FileStatuses, RowStatuses
<1>4. /\ calls'[c] = Without(c, "done") /\ \A d \in Calls \ {c} : calls'[d] = calls[d]
      /\ calls' \in [Calls -> Call]
  BY <1>1, <1>3 DEF Commit, Goes
<1>5. NewTask(c) \in TaskStatuses /\ NewTask(c) # "none"
  BY DEF NewTask, TaskStatuses
<1>6. NewFile(c) \in FileStatuses /\ NewFile(c) # "absent"
  BY <1>2 DEF NewFile, FileStatuses
<1>7. NewRows(c) \in RowStatuses
  BY DEF NewRows, RowStatuses
<1>8. /\ fileStatus' \in [Files -> FileStatuses]
      /\ \A f \in Files : fileStatus[f] # "absent" => fileStatus'[f] # "absent"
  BY <1>1, <1>2, <1>6 DEF Commit, FileCommitted, BackendTypeOK
<1>9. /\ rowStatus' \in [Files -> RowStatuses]
      /\ \A f \in Files :
           rowStatus'[f] # rowStatus[f] => f = calls[c].file /\ "rows" \in calls[c].holds
  BY <1>1, <1>2, <1>7 DEF Commit, RowsCommitted, BackendTypeOK, RowStatuses
<1>10. \A f \in Files : rowStatus[f] = "none" => rowStatus'[f] = "none"
  BY <1>1, <1>2 DEF Commit, RowsCommitted, CallInv, BackendTypeOK
<1>11. creating' = creating /\ creating' \in [Files -> {"no", "file", "rows", "done", "aborted"}]
  BY <1>1 DEF Commit, BackendTypeOK
<1>12. CASE calls[c].kind # "delete"
  <2>1. /\ taskStatus' = IF calls[c].sawTask = NewTask(c) THEN taskStatus
                          ELSE [taskStatus EXCEPT ![calls[c].task] = NewTask(c)]
        /\ retryCount' = CountCommitted(c)
        /\ failures' = IF calls[c].kind = "success" THEN failures
                        ELSE [failures EXCEPT ![calls[c].task] = @ + 1]
        /\ toPublish' = toPublish
        /\ reported' = reported \union {ReportOf(c)}
        /\ overtaken' \in {overtaken \ {calls[c].file}, overtaken \union {calls[c].file}}
    BY <1>12 DEF Commit
  <2>2. calls[c].task \in Tasks /\ calls[c].sawCount \in Nat
    BY <1>1, <1>12 DEF CallInv, IsCallback, Call
  <2>3. /\ taskStatus' \in [Tasks -> TaskStatuses]
        /\ \A t \in Tasks : taskStatus[t] # "none" => taskStatus'[t] # "none"
    BY <1>1, <1>5, <2>1, <2>2 DEF BackendTypeOK
  <2>4. retryCount' \in [Tasks -> Nat]
    BY <1>1, <2>1, <2>2 DEF CountCommitted
  <2>5. failures' \in [Tasks -> Nat] /\ \A t \in Tasks : failures[t] <= failures'[t]
    BY <1>1, <2>1, <2>2
  <2>6. BackendTypeOK'
    <3>1. ReportOf(c) \in Reports
      BY <2>2 DEF ReportOf, Report, Reports
    <3> QED
      BY <1>1, <1>2, <1>8, <1>9, <1>11, <2>1, <2>3, <3>1 DEF BackendTypeOK
  <2> QED
    BY <1>4, <1>8, <1>9, <1>10, <1>11, <2>3, <2>4, <2>5, <2>6
<1>13. CASE calls[c].kind = "delete"
  <2>1. PICK n \in 1..MaxDeletes :
          /\ taskStatus[DeleteOf(calls[c].file, n)] = "none"
          /\ taskStatus' = [taskStatus EXCEPT ![DeleteOf(calls[c].file, n)] = "pending"]
          /\ toPublish' = toPublish \union {DeleteOf(calls[c].file, n)}
    BY <1>13 DEF Commit
  <2>2. /\ DeleteOf(calls[c].file, n) \in Tasks
        /\ taskStatus' \in [Tasks -> TaskStatuses]
        /\ \A t \in Tasks : taskStatus[t] # "none" => taskStatus'[t] # "none"
    BY <1>2, <2>1, FreshDelete
  <2>3. retryCount' = retryCount /\ failures' = failures /\ UNCHANGED <<reported, overtaken>>
    BY <1>13 DEF Commit, histories
  <2>4. \A t \in Tasks : failures[t] <= failures'[t]
    BY <1>1, <2>3
  <2>5. BackendTypeOK'
    BY <1>1, <1>8, <1>9, <1>11, <2>1, <2>2, <2>3 DEF BackendTypeOK
  <2> QED
    BY <1>1, <1>4, <1>8, <1>9, <1>10, <1>11, <2>2, <2>3, <2>4, <2>5
<1> QED
  BY <1>12, <1>13

\* A COMMIT counts one more failure than the one read, which is not more than one more
\* than were recorded.
LEMMA CommitCounts ==
    ASSUME TransactionsInv, NEW c \in Calls, Commit(c), NEW t \in Tasks
    PROVE  Counts(t)'
<1>1. CallInv(c) /\ calls[c] \in Call /\ Counts(t)
      /\ retryCount \in [Tasks -> Nat] /\ failures \in [Tasks -> Nat]
  BY DEF TransactionsInv, TransactionsTypeOK
<1>2. CASE calls[c].kind # "failure"
  <2>1. retryCount' = retryCount /\ failures' = failures
    BY <1>1, <1>2 DEF Commit, CountCommitted, Call
  <2> QED
    BY <1>1, <2>1 DEF Counts
<1>3. CASE calls[c].kind = "failure"
  <2>1. /\ retryCount' = [retryCount EXCEPT ![calls[c].task] = calls[c].sawCount + 1]
        /\ failures' = [failures EXCEPT ![calls[c].task] = @ + 1]
    BY <1>3 DEF Commit, CountCommitted
  <2>2. /\ calls[c].task \in Tasks /\ calls[c].sawCount \in Nat
        /\ calls[c].sawCount <= failures[calls[c].task]
    BY <1>1, <1>3 DEF CallInv, IsCallback, Call
  <2> QED
    BY <1>1, <2>1, <2>2 DEF Counts
<1> QED
  BY <1>2, <1>3

LEMMA CommitInv ==
    ASSUME TransactionsInv, NEW c \in Calls, Commit(c)
    PROVE  TransactionsInv'
<1>1. CallInv(c) /\ calls[c] \in Call /\ calls \in [Calls -> Call] /\ BackendTypeOK
      /\ failures \in [Tasks -> Nat]
  BY DEF TransactionsInv, TransactionsTypeOK
<1>2. /\ calls'[c].kind = "delete" /\ calls'[c].pc = "done"
      /\ calls'[c].todo = <<>> /\ calls'[c].holds = {} /\ calls'[c].file = calls[c].file
  <2>1. calls'[c] = Without(c, "done")
    BY CommitRecords
  <2> QED
    BY <2>1 DEF Without, Opened
<1>3. CallInv(c)'
  BY <1>2 DEF CallInv, IsCallback
<1>4. ASSUME NEW d \in Calls \ {c} PROVE CallInv(d)'
  <2>1. CallInv(d) /\ LockIsExclusive(c, d) /\ calls'[d] = calls[d] /\ calls[d] \in Call
    BY CommitRecords DEF TransactionsInv, TransactionsTypeOK
  <2>2. calls[d].file \in Files
    BY <2>1 DEF Call
  <2>3. IsCallback(d) => /\ calls[d].task \in Tasks
                         /\ taskStatus[calls[d].task] # "none"
    BY <2>1 DEF CallInv
  <2>4. IsCallback(d) => /\ taskStatus'[calls[d].task] # "none"
                         /\ failures[calls[d].task] <= failures'[calls[d].task]
    BY <2>3, CommitRecords
  <2>5. fileStatus[calls[d].file] # "absent" => fileStatus'[calls[d].file] # "absent"
    BY <2>2, CommitRecords
  <2>6. ASSUME "rows" \in calls[d].holds, ~RemovesRows(d) PROVE rowStatus'[calls[d].file] # "none"
    <3>1. rowStatus[calls[d].file] # "none"
      BY <2>1, <2>6 DEF CallInv
    <3>2. rowStatus'[calls[d].file] = rowStatus[calls[d].file]
      BY <2>1, <2>2, <2>6, CommitRecords DEF LockIsExclusive
    <3> QED
      BY <3>1, <3>2
  <2>7. Kept(d)
    BY <2>1, <2>4, <2>5, <2>6 DEF Kept
  <2> QED
    BY <2>7, CallKept, CommitRecords
<1>5. \A d, e \in Calls : LockIsExclusive(d, e)'
  <2>1. \A d \in Calls : calls'[d].file = calls[d].file /\ calls'[d].holds \subseteq calls[d].holds
    BY <1>2, CommitRecords
  <2> QED
    BY <2>1 DEF TransactionsInv, LockIsExclusive
<1>6. \A f \in Files : NoRowsYet(f)'
  BY CommitRecords DEF TransactionsInv, NoRowsYet
<1>7. \A t \in Tasks : Counts(t)'
  BY CommitCounts
<1>8. \A d \in Calls : CallInv(d)'
  BY <1>3, <1>4
<1>9. TransactionsTypeOK'
  BY <1>8, CommitRecords DEF TransactionsTypeOK, CallInv
<1> QED
  BY <1>5, <1>6, <1>7, <1>8, <1>9 DEF TransactionsInv

-----------------------------------------------------------------------------
(* create_file. *)

LEMMA CreateRecords ==
    ASSUME TransactionsInv, NEW g \in Files, Create(g)
    PROVE  /\ BackendTypeOK'
           /\ \A t \in Tasks : taskStatus[t] # "none" => taskStatus'[t] # "none"
           /\ \A f \in Files : fileStatus[f] # "absent" => fileStatus'[f] # "absent"
           /\ \A f \in Files : rowStatus[f] # "none" => rowStatus'[f] # "none"
           /\ \A f \in Files : NoRowsYet(f)'
           /\ \A f \in Files : creating[f] \notin {"no", "file"} => rowStatus'[f] = rowStatus[f]
<1>1. BackendTypeOK /\ \A f \in Files : NoRowsYet(f)
  BY DEF TransactionsInv, TransactionsTypeOK
<1>2. UploadOf(g) \in Tasks
  BY TaskFacts
<1> USE DEF BackendTypeOK, NoRowsYet, FileStatuses, RowStatuses, TaskStatuses, histories
<1>3. CASE CommitFile(g)
  BY <1>1, <1>3 DEF CommitFile
<1>4. CASE CommitRows(g)
  BY <1>1, <1>4 DEF CommitRows
<1>5. CASE CommitUploadTask(g)
  BY <1>1, <1>2, <1>5 DEF CommitUploadTask
<1>6. CASE AbortCreate(g)
  BY <1>1, <1>6 DEF AbortCreate
<1> QED
  BY <1>3, <1>4, <1>5, <1>6 DEF Create

LEMMA ElsewhereInv == TransactionsInv /\ Elsewhere => TransactionsInv'
<1> SUFFICES ASSUME TransactionsInv, Elsewhere PROVE TransactionsInv'
  OBVIOUS
<1>1. BackendTypeOK /\ (\A f \in Files : NoRowsYet(f)) /\ UNCHANGED <<calls, retryCount, failures>>
      /\ failures \in [Tasks -> Nat]
  BY DEF TransactionsInv, TransactionsTypeOK, Elsewhere
<1>2. /\ BackendTypeOK'
      /\ \A t \in Tasks : taskStatus[t] # "none" => taskStatus'[t] # "none"
      /\ \A f \in Files : fileStatus[f] # "absent" => fileStatus'[f] # "absent"
      /\ \A f \in Files : rowStatus[f] # "none" => rowStatus'[f] # "none"
      /\ \A f \in Files : NoRowsYet(f)'
  <2>1. CASE \E f \in Files : Create(f)
    BY <2>1, CreateRecords
  <2>2. CASE \E t \in Tasks : Sent(t)
    BY <1>1, <2>2 DEF Sent, BackendTypeOK, NoRowsYet, histories
  <2> QED
    BY <2>1, <2>2 DEF Elsewhere
<1>3. ASSUME NEW d \in Calls PROVE CallInv(d)'
  <2>1. CallInv(d) /\ calls[d] \in Call
    BY DEF TransactionsInv, TransactionsTypeOK
  <2>2. calls[d].file \in Files
    BY <2>1 DEF Call
  <2>3. Kept(d)
    BY <1>1, <1>2, <2>1, <2>2 DEF Kept, CallInv
  <2> QED
    BY <1>1, <2>3, CallKept
<1>4. \A d, e \in Calls : LockIsExclusive(d, e)'
  BY <1>1 DEF TransactionsInv, LockIsExclusive
<1>5. \A t \in Tasks : Counts(t)'
  BY <1>1 DEF TransactionsInv, Counts
<1>6. TransactionsTypeOK'
  BY <1>1, <1>2 DEF TransactionsInv, TransactionsTypeOK
<1> QED
  BY <1>2, <1>3, <1>4, <1>5, <1>6 DEF TransactionsInv

-----------------------------------------------------------------------------
(* The theorems. *)

LEMMA TransactionsInitInv == Init => TransactionsInv
<1> SUFFICES ASSUME Init PROVE TransactionsInv
  OBVIOUS
<1>1. BackendTypeOK /\ \A f \in Files : NoRowsYet(f)
  BY DEF Init, BackendInit, BackendTypeOK, NoRowsYet, FileStatuses, RowStatuses, TaskStatuses
<1>2. PICK f \in Files : calls = [c \in Calls |-> Opened("delete", "idle", NoTask, f, "none", "absent")]
  BY DEF Init
<1> DEFINE call == Opened("delete", "idle", NoTask, f, "none", "absent")
<1>3. call.kind = "delete" /\ call.pc = "idle" /\ call.todo = <<>> /\ call.holds = {}
  BY DEF Opened
<1>4. call \in Call
  BY ShortLists DEF Opened, Call, TaskStatuses, FileStatuses, RowStatuses
<1> HIDE DEF call
<1>5. calls = [c \in Calls |-> call]
  BY <1>2 DEF call
<1>6. \A c \in Calls : CallInv(c)
  BY <1>3, <1>5 DEF CallInv, IsCallback
<1>7. \A c, d \in Calls : LockIsExclusive(c, d)
  BY <1>3, <1>5 DEF LockIsExclusive
<1>8. retryCount \in [Tasks -> Nat] /\ failures \in [Tasks -> Nat] /\ \A t \in Tasks : Counts(t)
  BY DEF Init, Counts
<1>9. TransactionsTypeOK
  BY <1>1, <1>3, <1>4, <1>5, <1>8 DEF TransactionsTypeOK
<1> QED
  BY <1>1, <1>6, <1>7, <1>8, <1>9 DEF TransactionsInv

LEMMA TransactionsNextInv == TransactionsInv /\ [Next]_vars => TransactionsInv'
<1> SUFFICES ASSUME TransactionsInv, [Next]_vars PROVE TransactionsInv'
  OBVIOUS
<1>1. CASE Elsewhere
  BY <1>1, ElsewhereInv
<1>2. ASSUME NEW c \in Calls, CallBegins(c) PROVE TransactionsInv'
  BY <1>2, ReadTaskInv, ReadFileToDeleteInv DEF CallBegins
<1>3. ASSUME NEW c \in Calls, CallStep(c) PROVE TransactionsInv'
  <2>1. CASE UpdateFindsNoRows(c)
    BY <2>1, RefusedInv DEF UpdateFindsNoRows
  <2>2. CASE DeadlockVictim(c)
    BY <2>2, RefusedInv DEF DeadlockVictim
  <2> QED
    BY <1>3, <2>1, <2>2, ReadFileInv, ReadRowsInv, DeleteRowsInv, UpdateInv, CommitInv DEF CallStep
<1>4. CASE UNCHANGED vars
  <2>1. UNCHANGED <<fileStatus, rowStatus, taskStatus, creating, toPublish, retryCount, failures, calls,
                    reported, overtaken>>
    BY <1>4 DEF vars, records, backendVars, histories
  <2>2. TransactionsTypeOK'
    BY <2>1 DEF TransactionsInv, TransactionsTypeOK, BackendTypeOK
  <2>3. \A f \in Files : NoRowsYet(f)'
    BY <2>1 DEF TransactionsInv, NoRowsYet
  <2>4. \A t \in Tasks : Counts(t)'
    BY <2>1 DEF TransactionsInv, Counts
  <2>5. \A c, d \in Calls : LockIsExclusive(c, d)'
    BY <2>1 DEF TransactionsInv, LockIsExclusive
  <2>6. ASSUME NEW c \in Calls PROVE CallInv(c)'
    <3>1. CallInv(c) /\ calls[c] \in Call /\ failures \in [Tasks -> Nat]
      BY DEF TransactionsInv, TransactionsTypeOK
    <3>2. Kept(c)
      BY <2>1, <3>1 DEF Kept, CallInv
    <3> QED
      BY <2>1, <3>1, <3>2, CallKept
  <2> QED
    BY <2>2, <2>3, <2>4, <2>5, <2>6 DEF TransactionsInv
<1> QED
  BY <1>1, <1>2, <1>3, <1>4 DEF Next

\* The handlers taken statement by statement keep the types of the records and of what
\* each of them has read, has to write and holds locked.
THEOREM TransactionsTypeCorrect == Spec => []TransactionsTypeOK
<1>1. TransactionsInv => TransactionsTypeOK
  BY DEF TransactionsInv
<1> QED
  BY <1>1, TransactionsInitInv, TransactionsNextInv, PTL DEF Spec

\* However many reports of a task overlap and however late they write back what they
\* read, retry_count never exceeds the failures recorded and is not 0 after the first.
THEOREM RetryCountStaysPlausible == Spec => []RetryCountIsPlausible
<1>1. TransactionsInv => RetryCountIsPlausible
  BY DEF TransactionsInv, Counts, RetryCountIsPlausible
<1> QED
  BY <1>1, TransactionsInitInv, TransactionsNextInv, PTL DEF Spec

\* Of any two transactions at most one has written the chunk rows of a file, and rows
\* that a report has locked to mark them are there when it commits.
RowsAreLocked ==
    /\ \A c, d \in Calls : LockIsExclusive(c, d)
    /\ \A c \in Calls : "rows" \in calls[c].holds /\ ~RemovesRows(c)
                          => rowStatus[calls[c].file] # "none"

THEOREM RowsStayLocked == Spec => []RowsAreLocked
<1>1. TransactionsInv => RowsAreLocked
  BY DEF TransactionsInv, CallInv, RowsAreLocked
<1> QED
  BY <1>1, TransactionsInitInv, TransactionsNextInv, PTL DEF Spec

\* No statement but a COMMIT and create_file's changes what is committed.
LEMMA StatementsAreInvisible ==
    ASSUME TransactionsInv, NEW c \in Calls, CallBegins(c) \/ CallStep(c), ~Commit(c)
    PROVE  UNCHANGED records
BY DEF CallBegins, CallStep, ReadTask, ReadFile, ReadFileToDelete, ReadRows, DeleteRows, Update,
   UpdateFindsNoRows, DeadlockVictim

\* A call whose step ends in "done" has committed.
LEMMA OnlyCommitEnds ==
    ASSUME TransactionsInv, NEW c \in Calls, [Next]_vars, Commits(c)
    PROVE  Commit(c)
<1>1. calls \in [Calls -> Call] /\ calls[c].pc = "flush" /\ calls'[c].pc = "done"
  BY DEF TransactionsInv, TransactionsTypeOK, Commits
<1>2. PICK d \in Calls : CallBegins(d) \/ CallStep(d)
  BY <1>1 DEF Next, Elsewhere, vars
<1>3. d = c
  <2>1. ASSUME NEW call, Goes(d, call), d # c PROVE calls'[c] = calls[c]
    BY <1>1, <2>1 DEF Goes
  <2>2. \E call : Goes(d, call)
    BY <1>2 DEF CallBegins, CallStep, ReadTask, ReadFile, ReadFileToDelete, ReadRows, DeleteRows,
       Update, UpdateFindsNoRows, DeadlockVictim, Commit
  <2> QED
    BY <1>1, <2>1, <2>2
<1>4. \A call : Goes(c, call) => calls'[c] = call
  BY <1>1 DEF Goes
<1>5. ~CallBegins(c)
  BY <1>1 DEF CallBegins, ReadTask, ReadFileToDelete
<1>6. ~ReadFile(c) /\ ~ReadRows(c) /\ ~DeleteRows(c)
  BY <1>1 DEF ReadFile, ReadRows, DeleteRows
<1>7. ~Update(c)
  BY <1>1, <1>4 DEF Update, Call
<1>8. ~UpdateFindsNoRows(c) /\ ~DeadlockVictim(c)
  <2>1. Refused(c).pc = "refused"
    BY DEF Refused, Without, Opened
  <2> QED
    BY <1>1, <1>4, <2>1 DEF UpdateFindsNoRows, DeadlockVictim
<1> QED
  BY <1>2, <1>3, <1>5, <1>6, <1>7, <1>8 DEF CallStep

\* Rows that a callback has deleted no COMMIT of another brings back.
LEMMA RowsNeverReturnStep ==
    TransactionsInv /\ [Next]_vars =>
        [\A f \in Files : creating[f] \in {"rows", "done", "aborted"} /\ rowStatus[f] = "none"
                             => rowStatus'[f] = "none"]_backendVars
<1> SUFFICES ASSUME TransactionsInv, [Next]_vars, NEW f \in Files,
                    creating[f] \in {"rows", "done", "aborted"}, rowStatus[f] = "none"
             PROVE  rowStatus'[f] = "none"
  OBVIOUS
<1>1. CASE Elsewhere
  <2>1. CASE \E g \in Files : Create(g)
    BY <2>1, CreateRecords
  <2>2. CASE \E t \in Tasks : Sent(t)
    BY <2>2 DEF Sent
  <2> QED
    BY <1>1, <2>1, <2>2 DEF Elsewhere
<1>2. ASSUME NEW c \in Calls, CallBegins(c) \/ CallStep(c) PROVE rowStatus'[f] = "none"
  <2>1. CASE Commit(c)
    BY <2>1, CommitRecords
  <2>2. CASE ~Commit(c)
    BY <1>2, <2>2, StatementsAreInvisible DEF records, backendVars
  <2> QED
    BY <2>1, <2>2
<1>3. CASE UNCHANGED vars
  BY <1>3 DEF vars, records, backendVars
<1> QED
  BY <1>1, <1>2, <1>3 DEF Next

\* The report that read the rows before they were deleted does not write them.
THEOREM TransactionsNeverReturnRows == Spec => RowsNeverReturn
BY TransactionsInitInv, TransactionsNextInv, RowsNeverReturnStep, PTL DEF Spec, RowsNeverReturn

-----------------------------------------------------------------------------
(* What a call has read was so then, and a report had made it so.  All of this     *)
(* outlasts whatever comes between, because reports are only added.                *)

Requested(f) == MaxDeletes > 0 /\ taskStatus[DeleteOf(f, 1)] # "none"

\* An earlier report made item i what c makes it.
SaidBefore(c, i) == \E q \in reported : SameFor(i, q, ReportOf(c))

\* The rows of f have been written by some report, or have gone, for good.
RowsAreWritten(f) == creating[f] \notin {"no", "file"} /\ rowStatus[f] # "pending"
RowsAreGone(f) == creating[f] \notin {"no", "file"} /\ rowStatus[f] = "none"

\* What c read the way it assigns it, it may leave out.
ReadInv(c) ==
    /\ IsCallback(c) =>
         /\ calls[c].sawTask = NewTask(c) => SaidBefore(c, "task")
         /\ calls[c].pc \in {"rows", "flush"} /\ calls[c].sawFile = NewFile(c) =>
                SaidBefore(c, "file")
         /\ calls[c].pc = "flush" /\ ~RemovesRows(c) =>
                /\ calls[c].sawRows = NewRows(c) =>
                       SaidBefore(c, "rows") /\ RowsAreWritten(calls[c].file)
                /\ calls[c].sawRows = "none" /\ calls[c].task.type = "upload" =>
                       RowsAreGone(calls[c].file)
    /\ ~IsCallback(c) /\ calls[c].pc = "flush" /\ calls[c].sawFile = "deleting" =>
           Requested(calls[c].file)

\* A file is shown as deleting from the first of its delete requests on.
DeletingIsRequested(f) == fileStatus[f] = "deleting" => Requested(f)

ReportsInv == /\ BackendInv
              /\ \A c \in Calls : ReadInv(c)
              /\ \A f \in Files : DeletingIsRequested(f)

\* What a call assigns is what its report makes of task, file and rows.
LEMMA AssignsItsReport ==
    ASSUME TransactionsInv, NEW c \in Calls, IsCallback(c)
    PROVE  /\ ReportOf(c) \in Reports
           /\ ReportOf(c).task = calls[c].task
           /\ ReportOf(c).success <=> calls[c].kind = "success"
           /\ ReportOf(c).task.file = calls[c].file
           /\ calls[c].task \in Tasks /\ calls[c].file \in Files
           /\ NewTask(c) = TaskAfter(ReportOf(c))
           /\ NewFile(c) = FileAfter(ReportOf(c))
           /\ RemovesRows(c) => RowsAfter(ReportOf(c)) = "none"
           /\ ~RemovesRows(c) => NewRows(c) = RowsAfter(ReportOf(c))
           /\ RemovesRows(c) <=> ReportOf(c).success /\ calls[c].task.type = "delete"
<1>1. CallInv(c) /\ calls[c] \in Call
  BY DEF TransactionsInv, TransactionsTypeOK
<1>2. /\ calls[c].kind \in {"success", "failure"} /\ calls[c].file \in Files
      /\ calls[c].task \in Tasks /\ calls[c].task.file = calls[c].file
      /\ calls[c].task.type \in {"upload", "delete"}
  BY <1>1, TaskFacts DEF CallInv, IsCallback, Call
<1>3. /\ ReportOf(c) \in Reports
      /\ ReportOf(c).task = calls[c].task
      /\ ReportOf(c).success <=> calls[c].kind = "success"
  BY <1>2, ReportFacts DEF ReportOf
<1> QED
  BY <1>2, <1>3 DEF NewTask, NewFile, NewRows, RemovesRows, TaskAfter, FileAfter, RowsAfter

\* What a callback misses an earlier report had made the way it read it.
LEMMA MissedIsLeft ==
    ASSUME TransactionsInv, ReportsInv, NEW c \in Calls, Commit(c), IsCallback(c)
    PROVE  Missed(c) \in SUBSET MayLeave(ReportOf(c))
<1> DEFINE r == ReportOf(c)
           f == calls[c].file
<1>1. CallInv(c) /\ ReadInv(c) /\ calls[c] \in Call /\ calls[c].pc = "flush"
  BY DEF TransactionsInv, TransactionsTypeOK, ReportsInv, Commit
<1>2. Pending(c) = calls[c].holds /\ PendingIsDue(c)
  BY <1>1, ShortLists DEF CallInv, Commit, Pending
<1>3. r.task.file = f
  BY AssignsItsReport
<1>5. "file" \in Missed(c) => SaidBefore(c, "file")
  BY <1>1, <1>2 DEF Missed, PendingIsDue, ReadInv
<1>6. ASSUME "rows" \in Missed(c)
      PROVE  r.task.type = "delete" \/ (SaidBefore(c, "rows") /\ rowStatus[f] # "pending")
  <2>1. "rows" \notin calls[c].holds /\ rowStatus[f] # "none"
    BY <1>3, <1>6 DEF Missed, Shown
  <2>2. CASE RemovesRows(c)
    BY <2>2, AssignsItsReport
  <2>3. CASE ~RemovesRows(c)
    <3>1. calls[c].sawRows \in {"none", NewRows(c)}
      BY <1>2, <2>1, <2>3 DEF PendingIsDue
    <3>2. calls[c].sawRows = NewRows(c) => SaidBefore(c, "rows") /\ rowStatus[f] # "pending"
      BY <1>1, <2>3 DEF ReadInv, RowsAreWritten
    <3>3. calls[c].sawRows = "none" => calls[c].task.type # "upload"
      BY <1>1, <2>1, <2>3 DEF ReadInv, RowsAreGone
    <3>4. calls[c].task.type \in {"upload", "delete"} /\ r.task = calls[c].task
      BY AssignsItsReport, TaskFacts
    <3> QED
      BY <3>1, <3>2, <3>3, <3>4
  <2> QED
    BY <2>2, <2>3
<1>7. Missed(c) \subseteq Items \ Shown(r)
  BY DEF Missed
<1>8. "task" \in Missed(c) => SaidBefore(c, "task")
  BY <1>1 DEF Missed, ReadInv
<1>9. \A i \in Missed(c) : i \in {"task", "file", "rows"}
  BY <1>7 DEF Items
<1>10. ASSUME NEW i \in Missed(c) PROVE i \in MayLeave(r)
  BY <1>3, <1>5, <1>6, <1>7, <1>8, <1>9, <1>10 DEF MayLeave, SaidBefore
<1> QED
  BY <1>10

\* The COMMIT of a callback is the handler of Backend, without what it has missed.
LEMMA CallbackIsAtomic ==
    ASSUME TransactionsInv, ReportsInv, NEW c \in Calls, Commit(c), IsCallback(c)
    PROVE  Callback(ReportOf(c), Missed(c))
<1> DEFINE r == ReportOf(c)
           t == calls[c].task
           f == calls[c].file
           left == Missed(c)
           rows == IF RemovesRows(c) THEN [rowStatus EXCEPT ![f] = "none"]
                   ELSE RowsBecome(f, NewRows(c))
<1>1. CallInv(c) /\ calls[c] \in Call /\ BackendTypeOK
  BY DEF TransactionsInv, TransactionsTypeOK
<1>2. calls[c].kind \in {"success", "failure"} /\ calls[c].pc = "flush"
  BY <1>1 DEF IsCallback, Call, Commit
<1>3. /\ t \in Tasks /\ f \in Files /\ taskStatus[t] # "none"
      /\ r.task = t /\ r.task.file = f
      /\ NewTask(c) = TaskAfter(r) /\ NewFile(c) = FileAfter(r)
      /\ RemovesRows(c) => RowsAfter(r) = "none"
      /\ ~RemovesRows(c) => NewRows(c) = RowsAfter(r)
  BY <1>1, AssignsItsReport DEF CallInv
<1>4. Pending(c) = calls[c].holds /\ PendingIsDue(c)
  BY <1>1, <1>2, ShortLists DEF CallInv, Commit, Pending
<1>5. \A i \in Items : i \in left <=> /\ i \notin Shown(r)
                                      /\ IF i = "task" THEN calls[c].sawTask = NewTask(c)
                                                       ELSE i \notin calls[c].holds
  BY DEF Missed
<1>6. /\ "task" \in Shown(r) => taskStatus[t] = TaskAfter(r)
      /\ "file" \in Shown(r) => fileStatus[f] = FileAfter(r)
      /\ "rows" \in Shown(r) => rowStatus[f] \in {"none", RowsAfter(r)}
  BY <1>3 DEF Shown
<1>7. "task" \in Items /\ "file" \in Items /\ "rows" \in Items
  BY DEF Items
<1> HIDE DEF r, t, f, left
<1>8. taskStatus' = IF "task" \in left THEN taskStatus
                    ELSE [taskStatus EXCEPT ![r.task] = TaskAfter(r)]
  <2>1. taskStatus' = IF calls[c].sawTask = NewTask(c) THEN taskStatus
                      ELSE [taskStatus EXCEPT ![t] = NewTask(c)]
    BY DEF Commit, IsCallback, t
  <2> QED
    BY <1>1, <1>3, <1>5, <1>6, <1>7, <2>1 DEF BackendTypeOK
<1>9. fileStatus' = IF "file" \in left THEN fileStatus
                    ELSE [fileStatus EXCEPT ![r.task.file] = FileAfter(r)]
  <2>1. fileStatus' = IF "file" \notin calls[c].holds THEN fileStatus
                      ELSE [fileStatus EXCEPT ![f] = NewFile(c)]
    BY DEF Commit, FileCommitted, f
  <2> QED
    BY <1>1, <1>3, <1>5, <1>6, <1>7, <2>1 DEF BackendTypeOK
<1>10. rowStatus' = IF "rows" \in left THEN rowStatus ELSE rows
  <2>1. rowStatus' = IF "rows" \notin calls[c].holds THEN rowStatus
                     ELSE [rowStatus EXCEPT ![f] = IF RemovesRows(c) THEN "none" ELSE NewRows(c)]
    BY DEF Commit, RowsCommitted, f
  <2>2. CASE "rows" \in calls[c].holds
    <3>1. ~RemovesRows(c) => rowStatus[f] # "none"
      BY <1>1, <2>2 DEF CallInv, f
    <3>2. rowStatus' = rows
      BY <1>1, <1>3, <2>1, <2>2, <3>1 DEF RowsBecome, BackendTypeOK
    <3> QED
      BY <1>5, <1>7, <2>2, <3>2
  <2>3. CASE "rows" \notin calls[c].holds
    <3>1. "rows" \notin left => rowStatus[f] \in {"none", RowsAfter(r)}
      BY <1>5, <1>6, <1>7, <2>3
    <3>2. "rows" \notin left => rows = rowStatus
      BY <1>1, <1>3, <3>1 DEF RowsBecome, BackendTypeOK
    <3> QED
      BY <2>1, <2>3, <3>2
  <2> QED
    BY <2>2, <2>3
<1>11. /\ reported' = reported \union {r}
       /\ overtaken' = IF left = {} THEN overtaken \ {f} ELSE overtaken \union {f}
       /\ UNCHANGED <<creating, toPublish>>
  BY DEF Commit, IsCallback, r, f, left
<1>12. left \subseteq MayLeave(r)
  BY MissedIsLeft DEF r, left
<1> HIDE DEF rows
<1>13. Records(r, left, rows)
  BY <1>3, <1>8, <1>9, <1>10, <1>11, <1>12 DEF Records
<1>14. CASE calls[c].kind = "success"
  <2>1. r = Report(t, TRUE) /\ r.success
    BY <1>3, <1>14, ReportFacts DEF ReportOf, r, t
  <2>2. rows = IF t.type = "upload" THEN RowsBecome(t.file, "ready")
                                    ELSE [rowStatus EXCEPT ![t.file] = "none"]
    BY <1>3, <1>14, TaskFacts DEF rows, RemovesRows, NewRows, t
  <2>3. TaskSuccess(t, left)
    BY <1>13, <2>1, <2>2 DEF TaskSuccess
  <2> QED
    BY <1>3, <2>1, <2>3 DEF Callback, r, left
<1>15. CASE calls[c].kind = "failure"
  <2>1. r = Report(t, FALSE) /\ ~r.success
    BY <1>3, <1>15, ReportFacts DEF ReportOf, r, t
  <2>2. rows = RowsBecome(t.file, "failed")
    BY <1>3, <1>15 DEF rows, RemovesRows, NewRows
  <2>3. TaskFailure(t, left)
    BY <1>13, <2>1, <2>2 DEF TaskFailure
  <2> QED
    BY <1>3, <2>1, <2>3 DEF Callback, r, left
<1> QED
  BY <1>2, <1>14, <1>15

\* The COMMIT of a delete request is the handler of Backend.
LEMMA DeleteIsAtomic ==
    ASSUME TransactionsInv, ReportsInv, NEW c \in Calls, Commit(c), ~IsCallback(c)
    PROVE  \E n \in 1..MaxDeletes : RequestDelete(calls[c].file, n)
<1> DEFINE f == calls[c].file
<1>1. CallInv(c) /\ ReadInv(c) /\ calls[c] \in Call /\ BackendTypeOK
  BY DEF TransactionsInv, TransactionsTypeOK, ReportsInv
<1>2. /\ calls[c].kind = "delete" /\ calls[c].pc = "flush"
      /\ f \in Files /\ fileStatus[f] # "absent" /\ NewFile(c) = "deleting"
  BY <1>1 DEF IsCallback, Call, CallInv, Commit, NewFile
<1>3. Pending(c) = calls[c].holds /\ PendingIsDue(c)
  BY <1>1, ShortLists DEF CallInv, Commit, Pending
<1>4. "rows" \notin calls[c].holds /\ ("file" \in calls[c].holds <=> calls[c].sawFile # "deleting")
  BY <1>2, <1>3 DEF PendingIsDue, IsCallback
<1>5. \/ fileStatus' = [fileStatus EXCEPT ![f] = "deleting"]
      \/ fileStatus' = fileStatus /\ Requested(f)
  BY <1>1, <1>2, <1>4 DEF Commit, FileCommitted, ReadInv
<1>6. rowStatus' = rowStatus
  BY <1>4 DEF Commit, RowsCommitted
<1>7. PICK n \in 1..MaxDeletes :
        /\ taskStatus[DeleteOf(f, n)] = "none"
        /\ \A m \in 1..n - 1 : taskStatus[DeleteOf(f, m)] # "none"
        /\ taskStatus' = [taskStatus EXCEPT ![DeleteOf(f, n)] = "pending"]
        /\ toPublish' = toPublish \union {DeleteOf(f, n)}
  BY <1>2 DEF Commit
<1>8. UNCHANGED <<creating, histories>>
  BY <1>2 DEF Commit
<1>9. Requested(f) => n > 1
  BY <1>7, MaxDeletesAssumption DEF Requested
<1> QED
  BY <1>2, <1>5, <1>6, <1>7, <1>8, <1>9 DEF RequestDelete

\* So every step is one of Backend, or leaves the records alone.
LEMMA StepIsBackendStep ==
    TransactionsInv /\ ReportsInv /\ [Next]_vars => [BackendNext]_backendVars
<1> SUFFICES ASSUME TransactionsInv, ReportsInv, [Next]_vars PROVE [BackendNext]_backendVars
  OBVIOUS
<1>1. CASE Elsewhere
  BY <1>1 DEF Elsewhere, BackendNext, Request
<1>2. ASSUME NEW c \in Calls, CallBegins(c) \/ CallStep(c) PROVE [BackendNext]_backendVars
  <2>1. CASE ~Commit(c)
    BY <1>2, <2>1, StatementsAreInvisible DEF records
  <2>2. CASE Commit(c) /\ IsCallback(c)
    BY <2>2, CallbackIsAtomic, MissedIsLeft, AssignsItsReport DEF BackendNext
  <2>3. CASE Commit(c) /\ ~IsCallback(c)
    <3>1. calls[c].file \in Files
      BY DEF TransactionsInv, TransactionsTypeOK, Call
    <3> QED
      BY <2>3, <3>1, DeleteIsAtomic DEF BackendNext, Request
  <2> QED
    BY <2>1, <2>2, <2>3
<1>3. CASE UNCHANGED vars
  BY <1>3 DEF vars, records
<1> QED
  BY <1>1, <1>2, <1>3 DEF Next

-----------------------------------------------------------------------------
(* What the reads found is kept. *)

\* Whatever an item shows, some report has made it so.
LEMMA ShownWasSaid ==
    ASSUME BackendInv, NEW r \in Reports
    PROVE  /\ taskStatus[r.task] = TaskAfter(r) => \E q \in reported : SameFor("task", q, r)
           /\ fileStatus[r.task.file] = FileAfter(r) => \E q \in reported : SameFor("file", q, r)
           /\ rowStatus[r.task.file] = RowsAfter(r) /\ RowsAfter(r) # "none" =>
                  \E q \in reported : SameFor("rows", q, r)
<1> DEFINE t == r.task
           f == t.file
<1>1. /\ t \in Tasks /\ f \in Files /\ t \in TasksOf(f) /\ Told(f)
      /\ r = Report(t, r.success) /\ r.success \in BOOLEAN
      /\ UploadOf(f) \in TasksOf(f) /\ DeletesOf(f) \subseteq TasksOf(f)
      /\ TasksOf(f) \subseteq Tasks
  BY ReportFacts, TaskFacts DEF BackendInv, FileInv
<1>2. ASSUME NEW u \in TasksOf(f), NEW s \in BOOLEAN
      PROVE  /\ Report(u, s) \in Reports /\ Report(u, s).task = u /\ Report(u, s).task.file = f
             /\ Report(u, s).success = s
  <2>1. u \in Tasks /\ u.file = f
    BY <1>1, TaskFacts
  <2> QED
    BY <2>1, ReportFacts
<1>3. taskStatus[t] = TaskAfter(r) => r \in reported
  BY <1>1, AfterFacts DEF Told
<1>a. UploadOf(f).type = "upload" /\ \A u \in DeletesOf(f) : u.type = "delete"
  BY <1>1, TaskFacts
<1>b. /\ \A u \in TasksOf(f) : FileAfter(Report(u, FALSE)) = "failed"
                              /\ RowsAfter(Report(u, FALSE)) = "failed"
      /\ FileAfter(Report(UploadOf(f), TRUE)) = "ready"
      /\ RowsAfter(Report(UploadOf(f), TRUE)) = "ready"
      /\ \A u \in DeletesOf(f) : FileAfter(Report(u, TRUE)) = "deleted"
  BY <1>1, <1>2, <1>a DEF FileAfter, RowsAfter
<1> HIDE DEF t, f
<1>4. ASSUME fileStatus[f] = FileAfter(r)
      PROVE  \E u \in TasksOf(f), s \in BOOLEAN :
                 Report(u, s) \in reported /\ FileAfter(Report(u, s)) = FileAfter(r)
  <2>1. CASE FileAfter(r) = "ready"
    BY <1>1, <1>b, <1>4, <2>1 DEF Told
  <2>2. CASE FileAfter(r) = "failed"
    BY <1>1, <1>b, <1>4, <2>2 DEF Told
  <2>3. CASE FileAfter(r) = "deleted"
    BY <1>1, <1>b, <1>4, <2>3 DEF Told
  <2> QED
    BY <2>1, <2>2, <2>3, AfterFacts
<1>5. ASSUME rowStatus[f] = RowsAfter(r), RowsAfter(r) # "none"
      PROVE  \E u \in TasksOf(f), s \in BOOLEAN :
                 Report(u, s) \in reported /\ RowsAfter(Report(u, s)) = RowsAfter(r)
  <2>1. CASE RowsAfter(r) = "ready"
    BY <1>1, <1>b, <1>5, <2>1 DEF Told
  <2>2. CASE RowsAfter(r) = "failed"
    BY <1>1, <1>b, <1>5, <2>2 DEF Told
  <2> QED
    BY <1>5, <2>1, <2>2, AfterFacts
<1>6. r.task.file = f /\ r.task = t
  BY DEF f, t
<1> QED
  BY <1>2, <1>3, <1>4, <1>5, <1>6 DEF SameFor

\* Reports, tasks and what they have written stay.
LEMMA BackendStepGrows ==
    ASSUME BackendInv, [BackendNext]_backendVars
    PROVE  /\ reported \subseteq reported'
           /\ \A f \in Files : /\ RowsAreWritten(f) => RowsAreWritten(f)'
                               /\ RowsAreGone(f) => RowsAreGone(f)'
                               /\ Requested(f) => Requested(f)'
                               /\ DeletingIsRequested(f) => DeletingIsRequested(f)'
<1>a. BackendTypeOK
  BY DEF BackendInv
<1>b. \A f \in Files : MaxDeletes > 0 => DeleteOf(f, 1) \in Tasks
  BY TaskFacts, MaxDeletesAssumption
<1> USE DEF BackendTypeOK, RowsAreWritten, RowsAreGone, Requested, DeletingIsRequested
<1>1. ASSUME NEW g \in Files, Create(g)
      PROVE  /\ reported' = reported
             /\ \A f \in Files : /\ RowsAreWritten(f) => RowsAreWritten(f)'
                                 /\ RowsAreGone(f) => RowsAreGone(f)'
                                 /\ fileStatus'[f] = "deleting" => fileStatus[f] = "deleting"
             /\ \A t \in Tasks : taskStatus[t] # "none" => taskStatus'[t] # "none"
  BY <1>a, <1>1, TaskFacts DEF Create, CommitFile, CommitRows, CommitUploadTask, AbortCreate,
                               histories
<1>2. ASSUME NEW g \in Files, NEW n \in 1..MaxDeletes, RequestDelete(g, n)
      PROVE  /\ reported' = reported /\ UNCHANGED <<rowStatus, creating>>
             /\ \A f \in Files \ {g} : fileStatus'[f] = fileStatus[f]
             /\ \A t \in Tasks : taskStatus[t] # "none" => taskStatus'[t] # "none"
             /\ Requested(g)'
  <2>1. DeleteOf(g, n) \in Tasks /\ DeleteOf(g, 1) \in Tasks /\ MaxDeletes > 0
    BY TaskFacts, MaxDeletesAssumption
  <2>2. n = 1 \/ 1 \in 1..n - 1
    OBVIOUS
  <2>3. taskStatus' = [taskStatus EXCEPT ![DeleteOf(g, n)] = "pending"]
    BY <1>2 DEF RequestDelete
  <2>4. n = 1 \/ taskStatus[DeleteOf(g, 1)] # "none"
    BY <1>2, <2>2 DEF RequestDelete
  <2>5. taskStatus'[DeleteOf(g, 1)] # "none"
    BY <1>a, <2>1, <2>3, <2>4
  <2> QED
    BY <1>a, <1>2, <2>1, <2>3, <2>5 DEF RequestDelete, histories
<1>3. ASSUME NEW t \in Tasks, Sent(t)
      PROVE  reported' = reported /\ UNCHANGED <<fileStatus, rowStatus, taskStatus, creating>>
  BY <1>3 DEF Sent, histories
<1>4. ASSUME NEW r \in Reports, NEW left \in SUBSET MayLeave(r), Callback(r, left)
      PROVE  /\ reported \subseteq reported' /\ UNCHANGED creating
             /\ \A f \in Files : /\ rowStatus[f] # "pending" => rowStatus'[f] # "pending"
                                 /\ rowStatus[f] = "none" => rowStatus'[f] = "none"
                                 /\ fileStatus'[f] = "deleting" => fileStatus[f] = "deleting"
             /\ \A t \in Tasks : taskStatus[t] # "none" => taskStatus'[t] # "none"
  BY <1>a, <1>4, CallbackEffect, AfterFacts, ReportFacts
<1>5. CASE UNCHANGED backendVars
  BY <1>5 DEF backendVars, histories
<1>6. CASE \E f \in Files : Create(f)
  BY <1>b, <1>1, <1>6
<1>7. CASE \E f \in Files, n \in 1..MaxDeletes : RequestDelete(f, n)
  BY <1>b, <1>2, <1>7
<1>8. CASE \E t \in Tasks : Sent(t)
  BY <1>3, <1>8
<1>9. CASE \E r \in Reports : \E left \in SUBSET MayLeave(r) : Callback(r, left)
  BY <1>b, <1>4, <1>9
<1> QED
  BY <1>5, <1>6, <1>7, <1>8, <1>9 DEF BackendNext, Request

\* A call that has not moved relies on the same.
LEMMA ReadKept ==
    ASSUME TransactionsInv, ReportsInv, [BackendNext]_backendVars, NEW c \in Calls,
           calls'[c] = calls[c]
    PROVE  ReadInv(c)'
<1>1. ReadInv(c) /\ calls[c].file \in Files
  BY DEF ReportsInv, TransactionsInv, TransactionsTypeOK, Call
<1>2. /\ IsCallback(c)' <=> IsCallback(c)
      /\ NewTask(c)' = NewTask(c) /\ NewFile(c)' = NewFile(c) /\ NewRows(c)' = NewRows(c)
      /\ RemovesRows(c)' <=> RemovesRows(c)
      /\ ReportOf(c)' = ReportOf(c)
  BY DEF IsCallback, NewTask, NewFile, NewRows, RemovesRows, ReportOf
<1>3. reported \subseteq reported'
  BY BackendStepGrows DEF ReportsInv
<1>4. \A i \in Items : SaidBefore(c, i) => SaidBefore(c, i)'
  BY <1>2, <1>3 DEF SaidBefore, SameFor
<1>5. LET f == calls[c].file
      IN  /\ RowsAreWritten(f) => RowsAreWritten(f)'
          /\ RowsAreGone(f) => RowsAreGone(f)'
          /\ Requested(f) => Requested(f)'
  BY <1>1, BackendStepGrows DEF ReportsInv
<1>6. "task" \in Items /\ "file" \in Items /\ "rows" \in Items
  BY DEF Items
<1> QED
  BY <1>1, <1>2, <1>4, <1>5, <1>6 DEF ReadInv, RowsAreWritten, RowsAreGone, Requested

\* The read of its task: what it shows then has been reported.
LEMMA ReadTaskKnows ==
    ASSUME TransactionsInv, ReportsInv, NEW c \in Calls, NEW t \in Tasks,
           NEW kind \in {"success", "failure"}, ReadTask(c, t, kind)
    PROVE  ReadInv(c)'
<1> DEFINE r == Report(t, kind = "success")
<1>1. /\ calls'[c].kind = kind /\ calls'[c].pc = "file" /\ calls'[c].task = t
      /\ calls'[c].sawTask = taskStatus[t]
  BY DEF ReadTask, Goes, Opened, TransactionsInv, TransactionsTypeOK
<1>2. reported' = reported
  BY DEF ReadTask, records, backendVars, histories
<1>3. r \in Reports /\ r.task = t /\ (r.success <=> kind = "success")
  BY ReportFacts
<1>4. ReportOf(c)' = r
  BY <1>1 DEF ReportOf
<1>5. NewTask(c)' = TaskAfter(r)
  BY <1>1, <1>3 DEF NewTask, TaskAfter
<1> HIDE DEF r
<1>6. taskStatus[t] = TaskAfter(r) => SaidBefore(c, "task")'
  BY <1>2, <1>3, <1>4, ShownWasSaid DEF SaidBefore, ReportsInv
<1> QED
  BY <1>1, <1>5, <1>6 DEF ReadInv, IsCallback

\* A statement of a callback leaves what it has read before.
SameReads(c) == /\ calls'[c].kind = calls[c].kind /\ calls'[c].task = calls[c].task
                /\ calls'[c].file = calls[c].file /\ calls'[c].sawTask = calls[c].sawTask
                /\ UNCHANGED records

LEMMA SameReadsFacts ==
    ASSUME NEW c \in Calls, SameReads(c)
    PROVE  /\ IsCallback(c)' <=> IsCallback(c)
           /\ NewTask(c)' = NewTask(c) /\ NewFile(c)' = NewFile(c) /\ NewRows(c)' = NewRows(c)
           /\ RemovesRows(c)' <=> RemovesRows(c)
           /\ ReportOf(c)' = ReportOf(c)
           /\ \A i \in Items : SaidBefore(c, i)' <=> SaidBefore(c, i)
           /\ \A f \in Files : /\ RowsAreWritten(f)' <=> RowsAreWritten(f)
                               /\ RowsAreGone(f)' <=> RowsAreGone(f)
                               /\ Requested(f)' <=> Requested(f)
           /\ "task" \in Items /\ "file" \in Items /\ "rows" \in Items
<1>1. UNCHANGED <<taskStatus, rowStatus, creating, reported>>
  BY DEF SameReads, records, backendVars, histories
<1>2. ReportOf(c)' = ReportOf(c)
  BY DEF SameReads, ReportOf
<1>3. \A i \in Items : SaidBefore(c, i)' <=> SaidBefore(c, i)
  BY <1>1, <1>2 DEF SaidBefore
<1> QED
  BY <1>1, <1>2, <1>3 DEF SameReads, IsCallback, NewTask, NewFile, NewRows, RemovesRows,
                          RowsAreWritten, RowsAreGone, Requested, Items

LEMMA ReadFileKnows ==
    ASSUME TransactionsInv, ReportsInv, NEW c \in Calls, ReadFile(c)
    PROVE  ReadInv(c)'
<1>1. calls[c] \in Call /\ CallInv(c) /\ ReadInv(c) /\ calls[c].pc = "file"
  BY DEF TransactionsInv, TransactionsTypeOK, ReportsInv, ReadFile
<1>2. /\ SameReads(c) /\ calls'[c].pc = "rows"
      /\ calls'[c].sawFile = fileStatus[calls[c].file]
  BY <1>1 DEF ReadFile, Goes, SameReads, TransactionsInv, TransactionsTypeOK, Call
<1>3. IsCallback(c)
  BY <1>1 DEF CallInv
<1>4. fileStatus[calls[c].file] = NewFile(c) => SaidBefore(c, "file")
  BY <1>3, AssignsItsReport, ShownWasSaid DEF SaidBefore, ReportsInv
<1>5. calls[c].sawTask = NewTask(c) => SaidBefore(c, "task")
  BY <1>1, <1>3 DEF ReadInv
<1> QED
  BY <1>2, <1>3, <1>4, <1>5, SameReadsFacts DEF ReadInv, SameReads

LEMMA ReadRowsKnows ==
    ASSUME TransactionsInv, ReportsInv, NEW c \in Calls, ReadRows(c)
    PROVE  ReadInv(c)'
<1> DEFINE f == calls[c].file
<1>1. /\ calls[c] \in Call /\ CallInv(c) /\ ReadInv(c) /\ f \in Files
      /\ calls[c].pc = "rows" /\ ~RemovesRows(c)
  BY DEF TransactionsInv, TransactionsTypeOK, ReportsInv, ReadRows, Call
<1>2. /\ SameReads(c) /\ calls'[c].pc = "flush"
      /\ calls'[c].sawFile = calls[c].sawFile
      /\ calls'[c].sawRows = rowStatus[f]
  BY <1>1 DEF ReadRows, Goes, SameReads, TransactionsInv, TransactionsTypeOK, Call
<1>3. IsCallback(c)
  BY <1>1 DEF CallInv
<1>4. /\ ReportOf(c) \in Reports /\ ReportOf(c).task = calls[c].task
      /\ ReportOf(c).task.file = f /\ RowsAfter(ReportOf(c)) = NewRows(c)
      /\ NewRows(c) \in {"ready", "failed"}
  BY <1>1, <1>3, AssignsItsReport DEF NewRows
<1>5. rowStatus[f] = NewRows(c) => SaidBefore(c, "rows")
  BY <1>4, ShownWasSaid DEF SaidBefore, ReportsInv
<1>6. CreationOrder(f) /\ taskStatus[calls[c].task] # "none" /\ calls[c].task \in Tasks
      /\ calls[c].task.file = f
  BY <1>1, <1>3 DEF ReportsInv, BackendInv, FileInv, CallInv
<1>7. rowStatus[f] = NewRows(c) => RowsAreWritten(f)
  BY <1>4, <1>6 DEF CreationOrder, RowsAreWritten
<1>8. rowStatus[f] = "none" /\ calls[c].task.type = "upload" => RowsAreGone(f)
  BY <1>6, TaskFacts DEF CreationOrder, RowsAreGone
<1>9. calls'[c].file = f /\ calls'[c].task = calls[c].task
  BY <1>2 DEF SameReads
<1> HIDE DEF f
<1>10. /\ calls[c].sawTask = NewTask(c) => SaidBefore(c, "task")
       /\ calls[c].sawFile = NewFile(c) => SaidBefore(c, "file")
  BY <1>1, <1>3 DEF ReadInv
<1> QED
  BY <1>1, <1>2, <1>3, <1>5, <1>7, <1>8, <1>9, <1>10, SameReadsFacts DEF ReadInv, SameReads

LEMMA DeleteRowsKnows ==
    ASSUME TransactionsInv, ReportsInv, NEW c \in Calls, DeleteRows(c)
    PROVE  ReadInv(c)'
<1>1. calls[c] \in Call /\ ReadInv(c) /\ calls[c].pc = "rows" /\ RemovesRows(c)
  BY DEF TransactionsInv, TransactionsTypeOK, ReportsInv, DeleteRows
<1>2. SameReads(c) /\ calls'[c].pc = "flush" /\ calls'[c].sawFile = calls[c].sawFile
  BY <1>1 DEF DeleteRows, Goes, SameReads, TransactionsInv, TransactionsTypeOK, Call
<1>3. IsCallback(c)
  BY <1>1 DEF RemovesRows, IsCallback
<1> QED
  BY <1>1, <1>2, <1>3, SameReadsFacts DEF ReadInv, SameReads

LEMMA UpdateKnows ==
    ASSUME TransactionsInv, ReportsInv, NEW c \in Calls, Update(c)
    PROVE  ReadInv(c)'
<1>1. calls[c] \in Call /\ ReadInv(c) /\ calls[c].pc = "flush" /\ calls[c].file \in Files
  BY DEF TransactionsInv, TransactionsTypeOK, ReportsInv, Update, Call
<1>2. /\ SameReads(c) /\ calls'[c].pc = "flush" /\ calls'[c].sawFile = calls[c].sawFile
      /\ calls'[c].sawRows = calls[c].sawRows
  BY <1>1 DEF Update, Goes, SameReads, TransactionsInv, TransactionsTypeOK, Call
<1> QED
  BY <1>1, <1>2, SameReadsFacts DEF ReadInv, SameReads

LEMMA ReadFileToDeleteKnows ==
    ASSUME TransactionsInv, ReportsInv, NEW c \in Calls, NEW f \in Files, ReadFileToDelete(c, f)
    PROVE  ReadInv(c)'
<1>1. /\ calls'[c].kind = "delete" /\ calls'[c].pc = "flush" /\ calls'[c].file = f
      /\ calls'[c].sawFile = fileStatus[f]
  BY DEF ReadFileToDelete, Goes, Opened, TransactionsInv, TransactionsTypeOK
<1>2. UNCHANGED taskStatus
  BY DEF ReadFileToDelete, records, backendVars
<1>3. fileStatus[f] = "deleting" => Requested(f)
  BY DEF ReportsInv, DeletingIsRequested
<1> QED
  BY <1>1, <1>2, <1>3 DEF ReadInv, IsCallback, Requested

\* A call that has ended has nothing left that it relies on.
LEMMA EndedKnows ==
    ASSUME TransactionsInv, NEW c \in Calls, NEW pc \in {"done", "refused"}, Goes(c, Without(c, pc))
    PROVE  ReadInv(c)'
<1>1. calls'[c].kind = "delete" /\ calls'[c].pc = pc
  BY DEF Goes, Without, Opened, TransactionsInv, TransactionsTypeOK
<1> QED
  BY <1>1 DEF ReadInv, IsCallback

LEMMA ReportsNextInv ==
    ASSUME TransactionsInv, ReportsInv, [Next]_vars
    PROVE  ReportsInv'
<1>1. [BackendNext]_backendVars
  BY StepIsBackendStep
<1>2. BackendInv'
  BY <1>1, BackendStepType, BackendStepFiles DEF ReportsInv, BackendInv
<1>3. \A f \in Files : DeletingIsRequested(f)'
  BY <1>1, BackendStepGrows DEF ReportsInv
<1>4. ASSUME NEW c \in Calls, calls'[c] = calls[c] PROVE ReadInv(c)'
  BY <1>1, <1>4, ReadKept
<1>5. ASSUME NEW c \in Calls, CallBegins(c) \/ CallStep(c) PROVE ReadInv(c)'
  <2>1. CASE CallBegins(c)
    BY <2>1, ReadTaskKnows, ReadFileToDeleteKnows DEF CallBegins
  <2>2. CASE ReadFile(c) \/ ReadRows(c) \/ DeleteRows(c) \/ Update(c)
    BY <2>2, ReadFileKnows, ReadRowsKnows, DeleteRowsKnows, UpdateKnows
  <2>3. CASE UpdateFindsNoRows(c) \/ DeadlockVictim(c)
    BY <2>3, EndedKnows DEF UpdateFindsNoRows, DeadlockVictim, Refused
  <2>4. CASE Commit(c)
    BY <2>4, EndedKnows DEF Commit
  <2> QED
    BY <1>5, <2>1, <2>2, <2>3, <2>4 DEF CallStep
<1>6. ASSUME NEW c \in Calls, CallBegins(c) \/ CallStep(c), NEW d \in Calls \ {c}
      PROVE  calls'[d] = calls[d]
  <2>1. PICK call : Goes(c, call)
    BY <1>6 DEF CallBegins, CallStep, ReadTask, ReadFile, ReadFileToDelete, ReadRows, DeleteRows,
       Update, UpdateFindsNoRows, DeadlockVictim, Commit
  <2> QED
    BY <2>1 DEF Goes, TransactionsInv, TransactionsTypeOK
<1>7. ASSUME NEW c \in Calls PROVE ReadInv(c)'
  <2>1. CASE Elsewhere
    BY <1>4, <2>1 DEF Elsewhere
  <2>2. CASE \E d \in Calls : CallBegins(d) \/ CallStep(d)
    BY <1>4, <1>5, <1>6, <2>2
  <2>3. CASE UNCHANGED vars
    BY <1>4, <2>3 DEF vars
  <2> QED
    BY <2>1, <2>2, <2>3 DEF Next
<1> QED
  BY <1>2, <1>3, <1>7 DEF ReportsInv

LEMMA ReportsInitInv == Init => ReportsInv
<1> SUFFICES ASSUME Init PROVE ReportsInv
  OBVIOUS
<1>1. BackendInv
  BY BackendInitInv DEF Init
<1>2. ASSUME NEW c \in Calls PROVE ReadInv(c)
  BY DEF Init, Opened, ReadInv, IsCallback
<1>3. \A f \in Files : DeletingIsRequested(f)
  BY DEF Init, BackendInit, DeletingIsRequested
<1> QED
  BY <1>1, <1>2, <1>3 DEF ReportsInv

-----------------------------------------------------------------------------
(* The handlers, statement by statement, implement those of Backend. *)

LEMMA ReportsInvariant == Spec => [](TransactionsInv /\ ReportsInv)
BY TransactionsInitInv, TransactionsNextInv, ReportsInitInv, ReportsNextInv, PTL DEF Spec

\* The commit of a call, in one step, does what the handler of Backend does that leaves
\* out what the call was overtaken on.
LEMMA CommitsAtomically ==
    TransactionsInv /\ ReportsInv /\ [Next]_vars =>
        [\A c \in Calls : Commits(c) => Atomically(c)]_vars
<1> SUFFICES ASSUME TransactionsInv, ReportsInv, [Next]_vars, NEW c \in Calls, Commits(c)
             PROVE  Atomically(c)
  OBVIOUS
<1>1. Commit(c)
  BY OnlyCommitEnds
<1>2. calls[c].kind \in {"success", "failure", "delete"}
  BY DEF TransactionsInv, TransactionsTypeOK, Call
<1>3. CASE calls[c].kind = "delete"
  BY <1>1, <1>3, DeleteIsAtomic DEF IsCallback, Atomically
<1>4. CASE calls[c].kind # "delete"
  <2>1. /\ Callback(ReportOf(c), Missed(c)) /\ ReportOf(c).task = calls[c].task
        /\ ReportOf(c).success <=> calls[c].kind = "success"
    BY <1>1, <1>4, CallbackIsAtomic, AssignsItsReport DEF IsCallback
  <2>2. CASE calls[c].kind = "success"
    BY <2>1, <2>2 DEF Callback, Atomically
  <2>3. CASE calls[c].kind = "failure"
    BY <2>1, <2>3 DEF Callback, Atomically
  <2> QED
    BY <1>2, <1>4, <2>2, <2>3
<1> QED
  BY <1>3, <1>4

\* Whatever statements come between its own, a handler commits as a whole what Backend's
\* handler of the same report writes, but for what it was overtaken on.
THEOREM TransactionsCommitAtomically == Spec => CommitsAreAtomic
BY ReportsInvariant, CommitsAtomically, PTL DEF Spec, CommitsAreAtomic

\* So every run of the statements is a run of Backend: each COMMIT is one of its steps,
\* each other statement changes none of the records.
THEOREM TransactionsRefineBackend == Spec => BackendSpec
<1>1. Init => BackendInit
  BY DEF Init
<1>2. TransactionsInv /\ ReportsInv /\ [Next]_vars => [BackendNext]_backendVars
  BY StepIsBackendStep
<1> QED
  BY <1>1, <1>2, ReportsInvariant, PTL DEF Spec, BackendSpec

\* What Backend promises of the statuses holds of the statements, too.
THEOREM TransactionsKeepTheRecords == Spec => []StatusIsReported /\ []RecordsAgree
BY TransactionsRefineBackend, StatusReported, RecordsStayInAgreement, PTL
=============================================================================
