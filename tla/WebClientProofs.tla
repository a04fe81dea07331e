--------------------------- MODULE WebClientProofs ---------------------------
(***************************************************************************)
(* Theorems about WebClient, for any accounts, files, numbers of flows and *)
(* of clicks: however flows overlap each other, logins, logouts, reloads   *)
(* and requests the page has given up on.                                  *)
(***************************************************************************)
EXTENDS WebClient, BackendProofs

-----------------------------------------------------------------------------
(* The inductive invariant, part by part. *)

\* A flow as the code makes it, by where it stands.
FlowOK(r) ==
    /\ r.pc = "none" => r = None
    /\ r.pc # "none" => r.token \in Users
    /\ r.pc \in {"select", "insert", "login"} => r.user \in Users
    /\ r.type = "delete" => r.file \in Files /\ r.left = 1
    /\ r.pc = "waiting" => /\ r.file \in Files /\ creating[r.file] # "no"
                           /\ owner[r.file] = r.token /\ r.token = r.user
    /\ r.pc = "answered" => \A f \in r.list : owner[f] = r.token
    /\ r.pc # "answered" => ~r.outrun

FlowsOK == \A i \in Slots : FlowOK(flows[i])

StraysOK == \A r \in strays : /\ r.token \in Users
                              /\ r.pc \in {"select", "insert"} => r.user \in Users
                              /\ r.type = "delete" => r.file \in Files

\* A file has an owner from its first commit on.
OwnersOK == \A f \in Files : creating[f] = "no" <=> owner[f] = Nobody

\* The lists that wait to be shown have been read one after the other.
Answered(i) == flows[i].pc = "answered"

OrderOK ==
    /\ \A i, j \in Slots : <<i, j>> \in before => Answered(i) /\ Answered(j) /\ i # j
    /\ \A i, j \in Slots : Answered(i) /\ Answered(j) /\ i # j =>
                               (<<i, j>> \in before \/ <<j, i>> \in before)
    /\ \A i, j, k \in Slots : <<i, j>> \in before /\ <<j, k>> \in before => <<i, k>> \in before

\* Without a token nothing is on display, unless it came late.
SessionOK == token = Nobody /\ ~late => userId = Nobody /\ list = {}

\* Flow i will set error or read a list for the token.
Coming(i) == \/ flows[i].pc \in {"select", "insert", "login"}
             \/ flows[i].pc \in {"sending", "waiting", "asking"} /\ flows[i].token = token

\* Otherwise what will be on display is known.
Settled == token # Nobody /\ ~error /\ \A i \in Slots : ~Coming(i)

\* The list that flow i has read will be shown, and not late.
ToShow(i) == Answered(i) /\ flows[i].token = token /\ ~flows[i].outrun

\* Something the account has is on display, or to be.
AccountOK == Settled /\ ~late => \/ \E i \in Slots : ToShow(i)
                                 \/ userId = token /\ \A f \in list : owner[f] = token

\* A file that must be on display.
Owed(f) == /\ owner[f] = token /\ fileStatus[f] # "deleted" /\ f \notin unanswered
           /\ \A t \in DeletesOf(f) : taskStatus[t] = "none"

\* It is, or is to be.
ListOK == Settled /\ ~late =>
              \A f \in Files : Owed(f) /\ f \notin list =>
                                   \E i \in Slots : ToShow(i) /\ f \in flows[i].list

\* A list without it has been read before one with it.
AnswersOK == Settled =>
                 \A i \in Slots : \A f \in Files :
                     ToShow(i) /\ Owed(f) /\ f \notin flows[i].list =>
                         \E j \in Slots : ToShow(j) /\ f \in flows[j].list /\ <<i, j>> \in before

PageOK == AccountOK /\ ListOK /\ AnswersOK

ClientInv == /\ TypeOK /\ BackendInv
             /\ FlowsOK /\ StraysOK /\ OwnersOK /\ OrderOK
             /\ SpinnersHaveFlows /\ SessionOK /\ PageOK

-----------------------------------------------------------------------------
(* The types. *)

LEMMA ClientConstants ==
    /\ Members \subseteq Users /\ Nobody \notin Users
    /\ NoFile \notin Files
    /\ MaxFlows \in Nat /\ MaxClicks \in Nat /\ MaxDeletes \in Nat /\ 1 \in Slots
BY UsersAssumption, NoFileAssumption, ClientBoundsAssumption, MaxDeletesAssumption DEF Slots

\* The records a flow is made of.
LEMMA FlowTypes ==
    /\ None \in Flow
    /\ \A a \in Users : \A s \in {"none", "loading", "authLoading"} : Asking(s, a) \in Flow
    /\ \A a \in Users : \A pc \in {"select", "login"} :
           [None EXCEPT !.pc = pc, !.spinner = "authLoading", !.token = a, !.user = a] \in Flow
    /\ \A a, b \in Users : \A f \in Files \union {NoFile} : \A k \in Nat : \A type \in {"upload", "delete"} :
           [None EXCEPT !.pc = "sending", !.spinner = "loading", !.token = a,
                        !.user = b, !.type = type, !.file = f, !.left = k] \in Flow
<1> USE ClientConstants
<1>1. None \in Flow
  BY DEF None, Flow
<1>2. \A a \in Users : \A s \in {"none", "loading", "authLoading"} : Asking(s, a) \in Flow
  BY <1>1 DEF Asking, Flow
<1>3. \A a \in Users : \A pc \in {"select", "login"} :
          [None EXCEPT !.pc = pc, !.spinner = "authLoading", !.token = a, !.user = a] \in Flow
  BY <1>1 DEF Flow
<1>4. \A a, b \in Users : \A f \in Files \union {NoFile} : \A k \in Nat : \A type \in {"upload", "delete"} :
          [None EXCEPT !.pc = "sending", !.spinner = "loading", !.token = a,
                       !.user = b, !.type = type, !.file = f, !.left = k] \in Flow
  <2> TAKE a, b \in Users
  <2> TAKE f \in Files \union {NoFile}
  <2> TAKE k \in Nat
  <2> TAKE type \in {"upload", "delete"}
  <2> HIDE ClientConstants
  <2> QED
    BY <1>1 DEF Flow
<1> QED
  BY <1>1, <1>2, <1>3, <1>4

\* And how it goes on.
LEMMA FlowEdits ==
    ASSUME NEW r \in Flow
    PROVE  /\ [r EXCEPT !.pc = "insert"] \in Flow /\ [r EXCEPT !.pc = "login"] \in Flow
           /\ \A f \in Files : [r EXCEPT !.pc = "waiting", !.file = f] \in Flow
           /\ \A n \in 1..MaxDeletes : [r EXCEPT !.pc = "waiting", !.n = n] \in Flow
           /\ \A fs \in SUBSET Files : [r EXCEPT !.pc = "answered", !.list = fs] \in Flow
           /\ \A b \in BOOLEAN : [r EXCEPT !.outrun = b] \in Flow
           /\ r.left > 1 => [r EXCEPT !.pc = "sending", !.file = NoFile, !.left = @ - 1] \in Flow
<1> USE ClientConstants
<1>1. [r EXCEPT !.pc = "insert"] \in Flow /\ [r EXCEPT !.pc = "login"] \in Flow
  BY DEF Flow
<1>2. \A f \in Files : [r EXCEPT !.pc = "waiting", !.file = f] \in Flow
  BY DEF Flow
<1>3. \A n \in 1..MaxDeletes : [r EXCEPT !.pc = "waiting", !.n = n] \in Flow
  <2>1. \A n \in 1..MaxDeletes : n \in 0..MaxDeletes
    OBVIOUS
  <2> QED
    BY <2>1 DEF Flow
<1>4. \A fs \in SUBSET Files : [r EXCEPT !.pc = "answered", !.list = fs] \in Flow
  BY DEF Flow
<1>5. \A b \in BOOLEAN : [r EXCEPT !.outrun = b] \in Flow
  BY DEF Flow
<1>6. r.left > 1 => [r EXCEPT !.pc = "sending", !.file = NoFile, !.left = @ - 1] \in Flow
  <2>1. r.left > 1 => r.left - 1 \in Nat
    BY DEF Flow
  <2> HIDE ClientConstants
  <2> QED
    BY <2>1 DEF Flow
<1> QED
  BY <1>1, <1>2, <1>3, <1>4, <1>5, <1>6

LEMMA FreeSlotFree ==
    ASSUME NEW fs, Room(fs)
    PROVE  FreeSlot(fs) \in Slots /\ fs[FreeSlot(fs)].pc = "none"
BY DEF Room, FreeSlot

-----------------------------------------------------------------------------
(* What the client's steps do to the backend's records: the refinement. *)

\* The page's steps and registrations touch no record of the backend.
LEMMA ServerIdle ==
    ASSUME NEW i \in Slots,
           \/ Clicks \/ CallFails(i) \/ SelectAccount(i) \/ InsertAccount(i) \/ Login(i)
           \/ Refuses(i) \/ ReadList(i) \/ Show(i) \/ \E a \in Users : RegisteredElsewhere(a)
    PROVE  UNCHANGED <<backendVars, owner, unanswered>>
<1> USE DEF server
<1>1. CASE Clicks
  BY <1>1 DEF Clicks, ClickEnter, ClickTask, ClickDelete, ClickUpload, ClickRefresh, ClickLogout, Reload
<1>2. CASE \/ CallFails(i) \/ SelectAccount(i) \/ InsertAccount(i) \/ Login(i)
           \/ Refuses(i) \/ ReadList(i) \/ Show(i) \/ \E a \in Users : RegisteredElsewhere(a)
  BY <1>2 DEF CallFails, SelectAccount, InsertAccount, Login, Refuses, ReadList, Show, RegisteredElsewhere
<1> QED
  BY <1>1, <1>2

\* A file comes with its owner, the account of the request.
LEMMA CreatesStep ==
    ASSUME TypeOK, OwnersOK, NEW r \in Flow, r.token \in Users, NEW f \in Files, Creates(r, f)
    PROVE  /\ BackendNext
           /\ creating[f] = "no" /\ creating' = [creating EXCEPT ![f] = "file"]
           /\ owner[f] = Nobody /\ owner' = [owner EXCEPT ![f] = r.token]
           /\ r.type = "upload" /\ r.token = r.user
           /\ UNCHANGED taskStatus
<1>1. CommitFile(f) /\ owner' = [owner EXCEPT ![f] = r.token] /\ r.type = "upload" /\ r.token = r.user
  BY DEF Creates, MayAct, CurrentUser
<1>2. BackendNext
  BY <1>1 DEF BackendNext, Request, Create
<1> QED
  BY <1>1, <1>2 DEF CommitFile, OwnersOK

\* A delete request for a file the account owns.
LEMMA DeletesStep ==
    ASSUME TypeOK, NEW r, NEW n \in 1..MaxDeletes, r.type = "delete" => r.file \in Files, Deletes(r, n)
    PROVE  /\ BackendNext
           /\ r.type = "delete" /\ r.file \in Files /\ fileStatus[r.file] # "absent"
           /\ owner[r.file] = r.token /\ r.token = r.user
           /\ UNCHANGED <<creating, owner>>
BY DEF Deletes, MayAct, CurrentUser, Finds, RequestDelete, BackendNext, Request

\* A report creates no file and no task, whatever it leaves out.
LEMMA ReportStep ==
    ASSUME BackendTypeOK, WorkersReport
    PROVE  /\ BackendNext
           /\ UNCHANGED <<page, flows, before, strays, owner, unanswered, creating>>
           /\ \A t \in Tasks : taskStatus'[t] = "none" <=> taskStatus[t] = "none"
<1>1. PICK r \in Reports : \E left \in SUBSET MayLeave(r) : Callback(r, left)
  BY DEF WorkersReport
<1>2. PICK left \in SUBSET MayLeave(r) : Callback(r, left)
  BY <1>1
<1>3. /\ r.task \in Tasks /\ taskStatus[r.task] # "none" /\ UNCHANGED creating
      /\ taskStatus' = IF "task" \in left THEN taskStatus
                       ELSE [taskStatus EXCEPT ![r.task] = TaskAfter(r)]
      /\ TaskAfter(r) \in {"completed", "failed"}
  BY <1>2, CallbackEffect, AfterFacts, ReportFacts
<1>4. \A t \in Tasks : taskStatus'[t] = "none" <=> taskStatus[t] = "none"
  BY <1>3 DEF BackendTypeOK
<1> QED
  BY <1>2, <1>3, <1>4 DEF BackendNext, WorkersReport

\* The rest of a create, the messages and the callbacks.
LEMMA AnswersStep ==
    ASSUME TypeOK,
           \/ \E f \in Files : Answers(f) \/ CreateFails(f)
           \/ \E t \in Tasks : PublishFails(t)
           \/ WorkersReport
    PROVE  /\ BackendNext
           /\ UNCHANGED <<owner, unanswered>>
           /\ \A f \in Files : creating[f] # "no" <=> creating'[f] # "no"
<1>1. ASSUME NEW f \in Files, CreateGoesOn(f) \/ CreateFails(f)
      PROVE  /\ BackendNext /\ UNCHANGED <<owner, unanswered>>
             /\ \A g \in Files : creating[g] # "no" <=> creating'[g] # "no"
  <2>1. /\ CommitRows(f) \/ CommitUploadTask(f) \/ AbortCreate(f)
        /\ UNCHANGED <<owner, unanswered>>
    BY <1>1 DEF CreateGoesOn, CreateFails
  <2> QED
    BY <2>1 DEF CommitRows, CommitUploadTask, AbortCreate, BackendNext, Request, Create, TypeOK, BackendTypeOK
<1>2. ASSUME NEW t \in Tasks, Queued(t) \/ PublishFails(t)
      PROVE  /\ BackendNext /\ UNCHANGED <<owner, unanswered>>
             /\ \A g \in Files : creating[g] # "no" <=> creating'[g] # "no"
  BY <1>2 DEF Queued, PublishFails, Sent, BackendNext
<1>3. CASE WorkersReport
  BY <1>3, ReportStep DEF TypeOK
<1> QED
  BY <1>1, <1>2, <1>3, TaskFacts DEF Answers

\* A stray is a request of either kind, or a registration.
LEMMA StrayStep ==
    ASSUME TypeOK, StraysOK, NEW r \in strays, StrayActs(r)
    PROVE  /\ r \in Flow /\ (r.type = "delete" => r.file \in Files)
           /\ strays' \subseteq strays
           /\ UNCHANGED <<page, flows, before, clicks, late>>
           /\ \/ \E f \in Files : Creates(r, f) /\ unanswered' = unanswered \union {f}
              \/ \E n \in 1..MaxDeletes : Deletes(r, n) /\ UNCHANGED unanswered
              \/ UNCHANGED <<backendVars, owner, unanswered>>
BY DEF StrayActs, TypeOK, StraysOK

\* The actions by what they touch.
LEMMA NextCases ==
    ASSUME Next
    PROVE  \/ \E i \in Slots : \/ Clicks \/ CallFails(i) \/ SelectAccount(i) \/ InsertAccount(i) \/ Login(i)
                               \/ Refuses(i) \/ ReadList(i) \/ Show(i) \/ \E a \in Users : RegisteredElsewhere(a)
           \/ \E i \in Slots : CreatesFile(i) \/ DeletesFile(i)
           \/ \E f \in Files : Answers(f) \/ CreateFails(f)
           \/ \E t \in Tasks : PublishFails(t)
           \/ WorkersReport
           \/ \E r \in strays : StrayActs(r)
BY ClientConstants DEF Next, FlowStep

\* Every step of the client is one of the backend's, or none.
LEMMA BackendStep ==
    ASSUME TypeOK, FlowsOK, StraysOK, OwnersOK, [Next]_vars
    PROVE  [BackendNext]_backendVars
<1>1. CASE UNCHANGED vars
  BY <1>1 DEF vars, server
<1>2. CASE Next
  <2>1. ASSUME NEW i \in Slots, CreatesFile(i) \/ DeletesFile(i) PROVE BackendNext
    <3>1. /\ flows[i] \in Flow /\ flows[i].token \in Users
          /\ flows[i].type = "delete" => flows[i].file \in Files
      BY <2>1 DEF CreatesFile, DeletesFile, FlowsOK, FlowOK, TypeOK
    <3> QED
      BY <2>1, <3>1, CreatesStep, DeletesStep DEF CreatesFile, DeletesFile
  <2>2. ASSUME NEW r \in strays, StrayActs(r) PROVE [BackendNext]_backendVars
    <3>1. ASSUME NEW f \in Files, Creates(r, f) PROVE BackendNext
      BY <3>1 DEF Creates, CommitFile, BackendNext, Request, Create
    <3> QED
      BY <2>2, <3>1, StrayStep, DeletesStep
  <2> QED
    BY <1>2, <2>1, <2>2, NextCases, ServerIdle, AnswersStep
<1> QED
  BY <1>1, <1>2

\* A file that has been created keeps its owner, and every file gets one.
Kept == \A f \in Files : creating[f] # "no" => creating'[f] # "no" /\ owner'[f] = owner[f]

LEMMA OwnerStep ==
    ASSUME TypeOK, FlowsOK, StraysOK, OwnersOK, [Next]_vars
    PROVE  Kept /\ OwnersOK' /\ owner' \in [Files -> Users \union {Nobody}]
<1> USE ClientConstants DEF Kept, OwnersOK
<1>0. owner \in [Files -> Users \union {Nobody}] /\ creating \in [Files -> {"no", "file", "rows", "done", "aborted"}]
  BY DEF TypeOK, BackendTypeOK
<1>1. CASE UNCHANGED <<backendVars, owner>>
  BY <1>0, <1>1 DEF backendVars
<1>2. ASSUME NEW r \in Flow, r.token \in Users, NEW f \in Files, Creates(r, f)
      PROVE  Kept /\ OwnersOK' /\ owner' \in [Files -> Users \union {Nobody}]
  BY <1>0, <1>2, CreatesStep
<1>3. CASE UNCHANGED owner /\ \A f \in Files : creating[f] # "no" <=> creating'[f] # "no"
  BY <1>0, <1>3
<1>4. ASSUME NEW i \in Slots, CreatesFile(i) \/ DeletesFile(i)
      PROVE  Kept /\ OwnersOK' /\ owner' \in [Files -> Users \union {Nobody}]
  <2>1. /\ flows[i] \in Flow /\ flows[i].token \in Users
        /\ flows[i].type = "delete" => flows[i].file \in Files
    BY <1>4 DEF CreatesFile, DeletesFile, FlowsOK, FlowOK, TypeOK
  <2> QED
    BY <1>2, <1>3, <1>4, <2>1, DeletesStep DEF CreatesFile, DeletesFile
<1>5. ASSUME NEW r \in strays, StrayActs(r)
      PROVE  Kept /\ OwnersOK' /\ owner' \in [Files -> Users \union {Nobody}]
  <2>1. ASSUME NEW f \in Files, Creates(r, f)
        PROVE  Kept /\ OwnersOK' /\ owner' \in [Files -> Users \union {Nobody}]
    BY <1>2, <2>1, <1>5, StrayStep DEF StraysOK
  <2> QED
    BY <1>1, <1>3, <1>5, <2>1, StrayStep, DeletesStep
<1>6. CASE UNCHANGED vars
  BY <1>1, <1>6 DEF vars, server
<1> QED
  BY <1>1, <1>3, <1>4, <1>5, <1>6, NextCases, ServerIdle, AnswersStep

-----------------------------------------------------------------------------
(* The flows. *)

\* A flow that stays as it is stays as the code makes it.
LEMMA FlowStays ==
    ASSUME FlowsOK, OwnersOK, Kept, TypeOK, NEW i \in Slots, flows'[i] = flows[i]
    PROVE  FlowOK(flows[i])'
<1>1. flows[i] \in Flow /\ FlowOK(flows[i])
  BY DEF TypeOK, FlowsOK
<1>2. \A f \in flows[i].list : f \in Files
  BY <1>1 DEF Flow
<1> QED
  BY <1>1, <1>2, ClientConstants DEF FlowOK, OwnersOK, Kept

\* The flows are as the code makes them, now and after the step.
FlowsFine == flows' \in [Slots -> Flow] /\ FlowsOK'

\* A step changes one flow.
LEMMA OneFlow ==
    ASSUME TypeOK, FlowsOK, OwnersOK, Kept, NEW i \in Slots,
           flows'[i] \in Flow, FlowOK(flows[i])',
           flows' = [flows EXCEPT ![i] = flows'[i]]
    PROVE  FlowsFine
<1>1. flows \in [Slots -> Flow]
  BY DEF TypeOK
<1>2. flows' \in [Slots -> Flow] /\ \A j \in Slots \ {i} : flows'[j] = flows[j]
  BY <1>1
<1> QED
  BY <1>2, FlowStays DEF FlowsOK, FlowsFine

LEMMA SameFlows ==
    ASSUME TypeOK, FlowsOK, OwnersOK, Kept, UNCHANGED flows
    PROVE  FlowsFine
BY FlowStays DEF FlowsOK, FlowsFine, TypeOK

\* A click's flow takes a free slot.
LEMMA StartsStep ==
    ASSUME TypeOK, NEW r \in Flow, Starts(r)
    PROVE  \E i \in Slots : /\ flows[i].pc = "none" /\ flows' = [flows EXCEPT ![i] = r]
                            /\ flows'[i] = r /\ \A j \in Slots \ {i} : flows'[j] = flows[j]
BY FreeSlotFree DEF Starts, TypeOK

\* What is caught ends the flow, with an error.
LEMMA CaughtStep ==
    ASSUME TypeOK, NEW i \in Slots, Caught(i)
    PROVE  /\ flows' = [flows EXCEPT ![i] = None]
           /\ flows'[i] = None /\ \A j \in Slots \ {i} : flows'[j] = flows[j]
           /\ Finally(i) /\ error' = TRUE /\ before' = Without(i)
           /\ UNCHANGED <<token, userId, list>>
BY DEF Caught, GoesOn, TypeOK

\* No flow, and a flow that asks for a list.
LEMMA NewFlows ==
    /\ None \in Flow /\ None.pc = "none" /\ None.spinner = "none"
    /\ None.type = "none" /\ None.outrun = FALSE
    /\ \A a \in Users : \A s \in {"none", "loading", "authLoading"} :
           /\ Asking(s, a) \in Flow /\ Asking(s, a).pc = "asking" /\ Asking(s, a).spinner = s
           /\ Asking(s, a).token = a /\ Asking(s, a).user = a
           /\ Asking(s, a).type = "none" /\ Asking(s, a).outrun = FALSE
<1>1. /\ None.pc = "none" /\ None.spinner = "none" /\ None.type = "none" /\ None.outrun = FALSE
  BY DEF None
<1>2. \A a, s : /\ Asking(s, a).pc = "asking" /\ Asking(s, a).spinner = s
                /\ Asking(s, a).token = a /\ Asking(s, a).user = a /\ Asking(s, a).type = "none" /\ Asking(s, a).outrun = FALSE
  BY DEF Asking, None
<1>3. /\ None \in Flow
      /\ \A a \in Users : \A s \in {"none", "loading", "authLoading"} : Asking(s, a) \in Flow
  BY FlowTypes
<1> QED
  BY <1>1, <1>2, <1>3

\* The page's clicks, one by one.
LEMMA FlowsClicks ==
    ASSUME TypeOK, FlowsOK, OwnersOK, Kept, Clicks
    PROVE  FlowsFine
<1> USE ClientConstants
<1>0. flows \in [Slots -> Flow] /\ token \in Users \union {Nobody} /\ userId \in Users \union {Nobody}
  BY DEF TypeOK
<1>1. ASSUME NEW r \in Flow, Starts(r), r.pc \in {"select", "login", "sending", "asking"},
             r.token \in Users, r.user \in Users, r.type = "delete" => r.file \in Files /\ r.left = 1, ~r.outrun
      PROVE  FlowsFine
  <2>1. PICK i \in Slots : flows[i].pc = "none" /\ flows' = [flows EXCEPT ![i] = r] /\ flows'[i] = r
    BY <1>1, StartsStep
  <2>2. FlowOK(flows[i])'
    BY <1>1, <2>1 DEF FlowOK
  <2> QED
    BY <2>1, <2>2, OneFlow
<1>2. ASSUME NEW a \in Users, NEW pc \in {"select", "login"}, ClickEnter(a, pc)
      PROVE  FlowsFine
  <2> DEFINE r == [None EXCEPT !.pc = pc, !.spinner = "authLoading", !.token = a, !.user = a]
  <2>1. r \in Flow /\ r.pc = pc /\ r.token = a /\ r.user = a /\ r.type = "none" /\ r.outrun = FALSE
    BY FlowTypes DEF None
  <2>2. Starts(r)
    BY <1>2 DEF ClickEnter
  <2> QED
    BY <1>1, <2>1, <2>2
<1>3. ASSUME NEW f \in Files \union {NoFile}, NEW k \in Nat, NEW type \in {"upload", "delete"},
             type = "delete" => f \in Files /\ k = 1, ClickTask(type, f, k)
      PROVE  FlowsFine
  <2> DEFINE r == [None EXCEPT !.pc = "sending", !.spinner = "loading", !.token = token,
                               !.user = userId, !.type = type, !.file = f, !.left = k]
  <2>1. CASE token = Nobody \/ userId = Nobody
    BY <1>3, <2>1, SameFlows DEF ClickTask
  <2>2. CASE token # Nobody /\ userId # Nobody
    <3>1. token \in Users /\ userId \in Users
      BY <1>0, <2>2
    <3>2. r \in Flow
      BY <3>1, FlowTypes
    <3>3. /\ r.pc = "sending" /\ r.token = token /\ r.user = userId /\ r.type = type
          /\ r.file = f /\ r.left = k /\ r.outrun = FALSE
      BY DEF None
    <3>4. Starts(r)
      BY <1>3, <2>2 DEF ClickTask
    <3> QED
      BY <1>1, <1>3, <3>1, <3>2, <3>3, <3>4
  <2> QED
    BY <2>1, <2>2
<1>4. CASE ClickUpload
  BY <1>3, <1>4 DEF ClickUpload
<1>5. ASSUME NEW f \in Files, ClickDelete(f) PROVE FlowsFine
  BY <1>3, <1>5 DEF ClickDelete
<1>6. CASE ClickRefresh
  BY <1>0, <1>1, <1>6, NewFlows DEF ClickRefresh
<1>7. CASE ClickLogout
  BY <1>7, SameFlows DEF ClickLogout
<1>8. CASE Reload
  <2>1. flows' = [i \in Slots |-> IF i = 1 /\ token # Nobody THEN Asking("loading", token) ELSE None]
    BY <1>8 DEF Reload, Loaded
  <2>2. \A i \in Slots : flows'[i] = None \/ (token \in Users /\ flows'[i] = Asking("loading", token))
    BY <1>0, <2>1
  <2>3. \A i \in Slots : flows'[i] \in Flow /\ FlowOK(flows[i])'
    BY <2>2, NewFlows DEF FlowOK
  <2> QED
    BY <2>1, <2>3 DEF FlowsOK, FlowsFine
<1> QED
  BY <1>2, <1>4, <1>5, <1>6, <1>7, <1>8 DEF Clicks

LEMMA FlowsCaught ==
    ASSUME TypeOK, FlowsOK, OwnersOK, Kept, NEW i \in Slots, Caught(i)
    PROVE  FlowsFine
<1>0. /\ flows' = [flows EXCEPT ![i] = None] /\ flows'[i] = None
      /\ None \in Flow
  <2>1. None \in Flow
    BY NewFlows
  <2> QED
    BY <2>1, CaughtStep
<1>1. flows' = [flows EXCEPT ![i] = flows'[i]] /\ flows'[i] \in Flow
  BY <1>0
<1>2. FlowOK(flows[i])'
  BY CaughtStep, NewFlows DEF FlowOK
<1> QED
  BY <1>1, <1>2, OneFlow

\* Register and login.
LEMMA FlowsEntering ==
    ASSUME TypeOK, FlowsOK, OwnersOK, Kept, NEW i \in Slots,
           SelectAccount(i) \/ InsertAccount(i) \/ Login(i)
    PROVE  FlowsFine
<1>0. flows \in [Slots -> Flow] /\ flows[i] \in Flow /\ FlowOK(flows[i])
  BY DEF TypeOK, FlowsOK
<1>1. CASE Caught(i)
  BY <1>1, FlowsCaught
<1>2. ASSUME NEW pc \in {"insert", "login"}, flows[i].pc \in {"select", "insert"},
             GoesOn(i, [flows[i] EXCEPT !.pc = pc])
      PROVE  FlowsFine
  <2>1. flows' = [flows EXCEPT ![i] = flows'[i]] /\ flows'[i] = [flows[i] EXCEPT !.pc = pc]
    BY <1>0, <1>2 DEF GoesOn
  <2>2. flows'[i] \in Flow
    BY <1>0, <2>1 DEF Flow
  <2>3. /\ flows'[i].pc = pc /\ flows'[i].token = flows[i].token /\ flows'[i].user = flows[i].user
        /\ flows'[i].type = flows[i].type
        /\ flows'[i].file = flows[i].file /\ flows'[i].left = flows[i].left
        /\ flows'[i].outrun = flows[i].outrun
    BY <1>0, <2>1 DEF Flow
  <2>4. FlowOK(flows[i])'
    BY <1>0, <1>2, <2>3 DEF FlowOK
  <2> QED
    BY <2>1, <2>2, <2>4, OneFlow
<1>3. CASE Login(i) /\ ~Caught(i)
  <2> DEFINE a == flows[i].user
             went == [flows EXCEPT ![i] = Asking("authLoading", a)]
  <2>1. /\ Room(went) /\ flows' = [went EXCEPT ![FreeSlot(went)] = Asking("loading", a)]
        /\ token' = a /\ <<a, "here">> \in accounts
    BY <1>3 DEF Login
  <2>2. a \in Users
    BY <2>1 DEF TypeOK
  <2>3. FreeSlot(went) \in Slots
    BY <2>1, FreeSlotFree
  <2>4. went \in [Slots -> Flow]
    BY <1>0, <2>2, NewFlows
  <2>5. flows' \in [Slots -> Flow]
    BY <2>1, <2>2, <2>4, NewFlows
  <2>6. ASSUME NEW j \in Slots
        PROVE  \/ flows'[j] = flows[j]
               \/ flows'[j] \in {Asking("authLoading", a), Asking("loading", a)}
    BY <1>0, <2>1, <2>3, <2>4
  <2>7. ASSUME NEW j \in Slots PROVE FlowOK(flows[j])'
    <3>1. CASE flows'[j] = flows[j]
      BY <3>1, FlowStays
    <3>2. CASE flows'[j] \in {Asking("authLoading", a), Asking("loading", a)}
      BY <2>2, <3>2, NewFlows DEF FlowOK
    <3> QED
      BY <2>6, <3>1, <3>2
  <2> QED
    BY <2>5, <2>7 DEF FlowsOK, FlowsFine
<1> QED
  BY <1>1, <1>2, <1>3 DEF SelectAccount, InsertAccount

\* The requests.
LEMMA FlowsRequests ==
    ASSUME TypeOK, FlowsOK, OwnersOK, Kept, NEW i \in Slots, CreatesFile(i) \/ DeletesFile(i)
    PROVE  FlowsFine
<1>0. flows \in [Slots -> Flow] /\ flows[i] \in Flow /\ FlowOK(flows[i]) /\ flows[i].pc = "sending"
  BY DEF TypeOK, FlowsOK, CreatesFile, DeletesFile
<1>1. flows[i].token \in Users /\ (flows[i].type = "delete" => flows[i].file \in Files)
  BY <1>0 DEF FlowOK
<1>2. CASE CreatesFile(i)
  <2>1. PICK f \in Files : Creates(flows[i], f) /\ flows' = [flows EXCEPT ![i] = [flows[i] EXCEPT !.pc = "waiting", !.file = f]]
    BY <1>2 DEF CreatesFile, GoesOn
  <2>2. flows' = [flows EXCEPT ![i] = flows'[i]] /\ flows'[i] = [flows[i] EXCEPT !.pc = "waiting", !.file = f]
    BY <1>0, <2>1
  <2>3. flows'[i] \in Flow
    BY <1>0, <2>2 DEF Flow
  <2>4. /\ flows'[i].pc = "waiting" /\ flows'[i].token = flows[i].token /\ flows'[i].user = flows[i].user
        /\ flows'[i].type = flows[i].type /\ flows'[i].file = f
        /\ flows'[i].left = flows[i].left /\ flows'[i].outrun = flows[i].outrun
    BY <1>0, <2>2 DEF Flow
  <2>5. /\ creating'[f] # "no" /\ owner'[f] = flows[i].token
        /\ flows[i].type = "upload" /\ flows[i].token = flows[i].user
    BY <1>0, <1>1, <2>1, CreatesStep DEF TypeOK, BackendTypeOK
  <2>6. FlowOK(flows[i])'
    BY <1>0, <1>1, <2>4, <2>5 DEF FlowOK
  <2> QED
    BY <2>2, <2>3, <2>6, OneFlow
<1>3. CASE DeletesFile(i)
  <2>1. PICK n \in 1..MaxDeletes : Deletes(flows[i], n) /\ flows' = [flows EXCEPT ![i] = [flows[i] EXCEPT !.pc = "waiting", !.n = n]]
    BY <1>3 DEF DeletesFile, GoesOn
  <2>2. flows' = [flows EXCEPT ![i] = flows'[i]] /\ flows'[i] = [flows[i] EXCEPT !.pc = "waiting", !.n = n]
    BY <1>0, <2>1
  <2>3. flows'[i] \in Flow
    <3>1. n \in 0..MaxDeletes
      OBVIOUS
    <3> QED
      BY <1>0, <2>2, <3>1 DEF Flow
  <2>4. /\ flows'[i].pc = "waiting" /\ flows'[i].token = flows[i].token /\ flows'[i].user = flows[i].user
        /\ flows'[i].type = flows[i].type /\ flows'[i].file = flows[i].file
        /\ flows'[i].left = flows[i].left /\ flows'[i].outrun = flows[i].outrun
    BY <1>0, <2>2 DEF Flow
  <2>5. /\ flows[i].type = "delete" /\ flows[i].file \in Files /\ owner[flows[i].file] = flows[i].token
        /\ flows[i].token = flows[i].user /\ UNCHANGED <<creating, owner>>
    BY <1>1, <2>1, DeletesStep
  <2>6. creating[flows[i].file] # "no"
    BY <1>1, <2>5, ClientConstants DEF OwnersOK
  <2>7. FlowOK(flows[i])'
    BY <1>0, <1>1, <2>4, <2>5, <2>6 DEF FlowOK
  <2> QED
    BY <2>2, <2>3, <2>7, OneFlow
<1> QED
  BY <1>2, <1>3

\* The answers to them.
LEMMA FlowsAnswers ==
    ASSUME TypeOK, FlowsOK, OwnersOK, Kept,
           \/ \E f \in Files : Answers(f) \/ CreateFails(f)
           \/ \E t \in Tasks : PublishFails(t)
           \/ WorkersReport
    PROVE  FlowsFine
<1>1. ASSUME NEW t, CaughtByWaiting(t) PROVE FlowsFine
  BY <1>1, SameFlows, FlowsCaught DEF CaughtByWaiting, WaitingFor
<1>2. CASE UNCHANGED flows
  BY <1>2, SameFlows
<1>3. ASSUME NEW t, Queued(t) PROVE FlowsFine
  <2>0. flows \in [Slots -> Flow]
    BY DEF TypeOK
  <2>1. ASSUME NEW i \in Slots PROVE flows'[i] \in Flow /\ FlowOK(flows[i])'
    <3>0. flows[i] \in Flow /\ FlowOK(flows[i])
      BY <2>0 DEF FlowsOK
    <3>1. CASE i \notin WaitingFor(t)
      BY <1>3, <3>0, <3>1, FlowStays DEF Queued
    <3>2. CASE i \in WaitingFor(t)
      <4>1. flows[i].pc = "waiting" /\ flows[i].token \in Users
        BY <3>0, <3>2 DEF WaitingFor, FlowOK
      <4>2. CASE flows[i].left > 1
        <5>1. flows'[i] = [flows[i] EXCEPT !.pc = "sending", !.file = NoFile, !.left = @ - 1]
          BY <1>3, <3>2, <4>2 DEF Queued
        <5>2. flows'[i] \in Flow
          BY <3>0, <4>2, <5>1, FlowEdits
        <5>3. /\ flows'[i].pc = "sending" /\ flows'[i].token = flows[i].token
              /\ flows'[i].type = flows[i].type /\ flows'[i].outrun = flows[i].outrun
          BY <3>0, <5>1 DEF Flow
        <5> QED
          BY <3>0, <4>1, <4>2, <5>2, <5>3 DEF FlowOK
      <4>3. CASE ~(flows[i].left > 1)
        <5>1. flows'[i] = Asking(flows[i].spinner, flows[i].token)
          BY <1>3, <3>2, <4>3 DEF Queued
        <5>2. flows[i].spinner \in {"none", "loading", "authLoading"}
          BY <3>0 DEF Flow
        <5> QED
          BY <4>1, <5>1, <5>2, NewFlows DEF FlowOK
      <4> QED
        BY <4>2, <4>3
    <3> QED
      BY <3>1, <3>2
  <2>2. flows' = [i \in Slots |-> flows'[i]]
    BY <1>3 DEF Queued
  <2> QED
    BY <2>1, <2>2 DEF FlowsOK, FlowsFine
<1> QED
  BY <1>1, <1>2, <1>3 DEF Answers, CreateGoesOn, CreateFails, PublishFails, WorkersReport

\* The lists.
LEMMA FlowsLists ==
    ASSUME TypeOK, FlowsOK, OwnersOK, OrderOK, Kept, NEW i \in Slots, ReadList(i) \/ Show(i)
    PROVE  FlowsFine
<1>0. flows \in [Slots -> Flow] /\ flows[i] \in Flow /\ FlowOK(flows[i])
  BY DEF TypeOK, FlowsOK
<1>1. CASE ReadList(i)
  <2> DEFINE fs == Listed(flows[i].token)
  <2>1. /\ flows' = [flows EXCEPT ![i] = [flows[i] EXCEPT !.pc = "answered", !.list = fs]]
        /\ flows[i].pc = "asking" /\ UNCHANGED owner
    BY <1>1 DEF ReadList, GoesOn, CurrentUser, server
  <2>2. fs \in SUBSET Files /\ \A f \in fs : owner[f] = flows[i].token
    BY DEF Listed
  <2>3. flows' = [flows EXCEPT ![i] = flows'[i]] /\ flows'[i] = [flows[i] EXCEPT !.pc = "answered", !.list = fs]
    BY <1>0, <2>1
  <2> HIDE DEF fs
  <2>4. flows'[i] \in Flow
    BY <1>0, <2>2, <2>3 DEF Flow
  <2>5. /\ flows'[i].pc = "answered" /\ flows'[i].token = flows[i].token /\ flows'[i].type = flows[i].type
        /\ flows'[i].file = flows[i].file /\ flows'[i].left = flows[i].left /\ flows'[i].list = fs
    BY <1>0, <2>3 DEF Flow
  <2>6. FlowOK(flows[i])'
    BY <1>0, <2>1, <2>2, <2>5 DEF FlowOK
  <2> QED
    BY <2>3, <2>4, <2>6, OneFlow
<1>2. CASE Show(i)
  <2>1. flows' = [j \in Slots |-> IF j = i THEN None
                                  ELSE [flows[j] EXCEPT !.outrun = @ \/ <<j, i>> \in before]]
    BY <1>2 DEF Show
  <2>2. ASSUME NEW j \in Slots PROVE flows'[j] \in Flow /\ FlowOK(flows[j])'
    <3>1. CASE j = i
      BY <2>1, <3>1, NewFlows DEF FlowOK
    <3>2. CASE j # i /\ <<j, i>> \notin before
      <4>1. flows'[j] = [flows[j] EXCEPT !.outrun = @ \/ FALSE]
        BY <2>1, <3>2
      <4>2. flows[j] \in Flow /\ flows'[j] = flows[j]
        BY <1>0, <4>1 DEF Flow
      <4> QED
        BY <4>2, FlowStays
    <3>3. CASE j # i /\ <<j, i>> \in before
      <4>1. flows'[j] = [flows[j] EXCEPT !.outrun = TRUE]
        BY <2>1, <3>3
      <4>2. flows[j].pc = "answered" /\ flows[j] \in Flow /\ FlowOK(flows[j])
        BY <1>0, <3>3 DEF OrderOK, Answered, FlowsOK
      <4>3. /\ flows'[j].pc = "answered" /\ flows'[j].token = flows[j].token /\ flows'[j].type = flows[j].type
            /\ flows'[j].file = flows[j].file /\ flows'[j].left = flows[j].left /\ flows'[j].list = flows[j].list
        BY <4>1, <4>2 DEF Flow
      <4>4. UNCHANGED owner
        BY <1>2 DEF Show, server
      <4> QED
        BY <4>1, <4>2, <4>3, <4>4, FlowEdits DEF FlowOK
    <3> QED
      BY <3>1, <3>2, <3>3
  <2> QED
    BY <2>1, <2>2 DEF FlowsOK, FlowsFine
<1> QED
  BY <1>1, <1>2

\* Every step leaves the flows as the code makes them.
LEMMA FlowsStep ==
    ASSUME TypeOK, FlowsOK, StraysOK, OwnersOK, OrderOK, [Next]_vars
    PROVE  FlowsFine
<1>1. Kept
  BY OwnerStep
<1>2. CASE UNCHANGED vars
  BY <1>1, <1>2, SameFlows DEF vars
<1>3. ASSUME NEW i \in Slots,
             \/ Clicks \/ CallFails(i) \/ SelectAccount(i) \/ InsertAccount(i) \/ Login(i)
             \/ Refuses(i) \/ ReadList(i) \/ Show(i) \/ \E a \in Users : RegisteredElsewhere(a)
      PROVE  FlowsFine
  <2>1. CASE CallFails(i) \/ Refuses(i)
    BY <1>1, <2>1, FlowsCaught DEF CallFails, Refuses
  <2>2. CASE \E a \in Users : RegisteredElsewhere(a)
    BY <1>1, <2>2, SameFlows DEF RegisteredElsewhere
  <2> QED
    BY <1>1, <1>3, <2>1, <2>2, FlowsClicks, FlowsEntering, FlowsLists
<1>4. ASSUME NEW r \in strays, StrayActs(r) PROVE FlowsFine
  BY <1>1, <1>4, StrayStep, SameFlows
<1> QED
  BY <1>1, <1>2, <1>3, <1>4, NextCases, FlowsRequests, FlowsAnswers

\* What the page gives up on is a request a flow has made.
LEMMA StraysStep ==
    ASSUME TypeOK, FlowsOK, StraysOK, [Next]_vars
    PROVE  strays' \subseteq Flow /\ StraysOK'
<1>1. \A i \in Slots : Unheard(i) => /\ flows[i] \in Flow /\ flows[i].token \in Users
                                     /\ flows[i].pc \in {"select", "insert"} => flows[i].user \in Users
                                     /\ flows[i].type = "delete" => flows[i].file \in Files
  BY DEF Unheard, TypeOK, FlowsOK, FlowOK
<1>2. ASSUME strays' \subseteq strays \union {flows[i] : i \in {j \in Slots : Unheard(j)}}
      PROVE  strays' \subseteq Flow /\ StraysOK'
  BY <1>1, <1>2 DEF StraysOK, TypeOK
<1>3. CASE UNCHANGED strays
  BY <1>2, <1>3
<1>4. CASE Clicks
  BY <1>2, <1>4 DEF Clicks, ClickEnter, ClickTask, ClickDelete, ClickUpload, ClickRefresh, ClickLogout, Reload
<1>5. ASSUME NEW i \in Slots, CallFails(i) PROVE strays' \subseteq Flow /\ StraysOK'
  BY <1>2, <1>5 DEF CallFails
<1>6. ASSUME NEW r \in strays, StrayActs(r) PROVE strays' \subseteq Flow /\ StraysOK'
  BY <1>2, <1>6 DEF StrayActs
<1>7. ASSUME NEW i \in Slots,
             \/ SelectAccount(i) \/ InsertAccount(i) \/ Login(i) \/ Refuses(i) \/ ReadList(i) \/ Show(i)
             \/ CreatesFile(i) \/ DeletesFile(i) \/ \E a \in Users : RegisteredElsewhere(a)
      PROVE  UNCHANGED strays
  BY <1>7 DEF SelectAccount, InsertAccount, Login, Refuses, ReadList, Show,
              CreatesFile, DeletesFile, RegisteredElsewhere
<1>8. ASSUME \/ \E f \in Files : Answers(f) \/ CreateFails(f)
             \/ \E t \in Tasks : PublishFails(t)
             \/ WorkersReport
      PROVE  UNCHANGED strays
  BY <1>8 DEF Answers, CreateGoesOn, Queued, CreateFails, PublishFails, WorkersReport
<1>9. CASE UNCHANGED vars
  BY <1>3, <1>9 DEF vars
<1> QED
  BY <1>3, <1>4, <1>5, <1>6, <1>7, <1>8, <1>9, NextCases

\* The page's variables and the histories keep their types.
PageTypes == /\ token \in Users \union {Nobody} /\ userId \in Users \union {Nobody}
             /\ list \subseteq Files
             /\ loading \in BOOLEAN /\ authLoading \in BOOLEAN
             /\ error \in BOOLEAN /\ late \in BOOLEAN
             /\ clicks \in 0..MaxClicks
             /\ unanswered \subseteq Files
             /\ accounts \subseteq Users \X {"here", "elsewhere"}
             /\ before \subseteq Slots \X Slots

LEMMA PageTypesStep ==
    ASSUME TypeOK, FlowsOK, StraysOK, [Next]_vars
    PROVE  PageTypes'
<1> USE ClientConstants
<1>0. PageTypes /\ \A i \in Slots : flows[i] \in Flow
  BY DEF TypeOK, PageTypes
<1> USE DEF PageTypes
<1>1. CASE UNCHANGED <<page, before, clicks, accounts, late, unanswered>>
  BY <1>0, <1>1 DEF page
<1>2. ASSUME NEW i \in Slots, Caught(i), UNCHANGED <<clicks, accounts, late, unanswered>> PROVE PageTypes'
  BY <1>0, <1>2 DEF Caught, Finally, Without
<1>3. ASSUME Clicks PROVE PageTypes'
  <2>1. ASSUME NEW k \in Nat, Clicked(k) PROVE clicks' \in 0..MaxClicks
    BY <1>0, <2>1 DEF Clicked
  <2>2. ASSUME NEW type, NEW f, NEW k \in Nat, ClickTask(type, f, k) PROVE PageTypes'
    BY <1>0, <2>1, <2>2 DEF ClickTask, server
  <2>3. CASE ClickUpload \/ \E f \in Files : ClickDelete(f)
    BY <2>2, <2>3 DEF ClickUpload, ClickDelete
  <2>4. CASE \E a \in Users, pc \in {"select", "login"} : ClickEnter(a, pc)
    BY <1>0, <2>1, <2>4 DEF ClickEnter, server
  <2>5. CASE ClickRefresh \/ ClickLogout \/ Reload
    BY <1>0, <2>1, <2>5 DEF ClickRefresh, ClickLogout, Reload, Leaves, server, page
  <2> QED
    BY <1>3, <2>3, <2>4, <2>5 DEF Clicks
<1>4. ASSUME NEW i \in Slots,
             CallFails(i) \/ SelectAccount(i) \/ InsertAccount(i) \/ Login(i) \/ Refuses(i)
      PROVE  PageTypes'
  <2>1. CASE CallFails(i) \/ SelectAccount(i) \/ Refuses(i)
    BY <1>0, <1>2, <1>1, <2>1 DEF CallFails, SelectAccount, Refuses, server
  <2>2. CASE InsertAccount(i)
    <3>1. CASE Caught(i) /\ UNCHANGED accounts
      BY <1>2, <2>2, <3>1 DEF InsertAccount
    <3>2. CASE ~(Caught(i) /\ UNCHANGED accounts)
      <4>1. flows[i].pc = "insert" /\ flows[i].user \in Users
        BY <1>0, <2>2 DEF InsertAccount, FlowsOK, FlowOK
      <4> QED
        BY <1>0, <2>2, <3>2, <4>1 DEF InsertAccount, page
    <3> QED
      BY <3>1, <3>2
  <2>3. CASE Login(i)
    <3>1. CASE Caught(i)
      BY <1>2, <2>3, <3>1 DEF Login, server
    <3>2. CASE ~Caught(i)
      BY <1>0, <2>3, <3>2 DEF Login, server
    <3> QED
      BY <3>1, <3>2
  <2> QED
    BY <1>4, <2>1, <2>2, <2>3
<1>5. ASSUME NEW i \in Slots, ReadList(i) \/ Show(i) PROVE PageTypes'
  <2>1. flows[i].list \subseteq Files /\ flows[i].outrun \in BOOLEAN /\ flows[i].token \in Users \union {Nobody}
    BY <1>0 DEF Flow
  <2>2. CASE ReadList(i)
    BY <1>0, <2>2 DEF ReadList, page, server
  <2>3. CASE Show(i)
    BY <1>0, <2>1, <2>3 DEF Show, Displays, CurrentUser, Finally, Without, server
  <2> QED
    BY <1>5, <2>2, <2>3
<1>6. ASSUME NEW a \in Users, RegisteredElsewhere(a) PROVE PageTypes'
  BY <1>0, <1>6 DEF RegisteredElsewhere, page
<1>7. ASSUME NEW i \in Slots, CreatesFile(i) \/ DeletesFile(i) PROVE PageTypes'
  BY <1>1, <1>7 DEF CreatesFile, DeletesFile, Deletes
<1>8. ASSUME NEW t, CaughtByWaiting(t), UNCHANGED <<clicks, accounts, late, unanswered>> PROVE PageTypes'
  BY <1>1, <1>2, <1>8 DEF CaughtByWaiting, WaitingFor
<1>9. ASSUME \/ \E f \in Files : Answers(f) \/ CreateFails(f)
             \/ \E t \in Tasks : PublishFails(t)
             \/ WorkersReport
      PROVE  PageTypes'
  BY <1>1, <1>8, <1>9 DEF Answers, CreateGoesOn, Queued, CreateFails, PublishFails, WorkersReport
<1>10. ASSUME NEW r \in strays, StrayActs(r) PROVE PageTypes'
  <2>1. r.pc \in {"select", "insert"} => r.user \in Users
    BY <1>10 DEF StraysOK
  <2> QED
    BY <1>0, <1>10, <2>1 DEF StrayActs, page
<1>11. CASE UNCHANGED vars
  BY <1>1, <1>11 DEF vars, server
<1> QED
  BY <1>3, <1>4, <1>5, <1>6, <1>7, <1>9, <1>10, <1>11, NextCases

-----------------------------------------------------------------------------
(* The steps by what they do to the page and to the flows.  Apart from       *)
(* logging out, loading the page again, a login and the lists every step is  *)
(* of one of three kinds.                                                    *)

Stays(j) == flows'[j] = flows[j]

\* A flow goes on without a word to the page.
Goes(j) == /\ flows'[j].token = flows[j].token /\ flows'[j].spinner = flows[j].spinner
           /\ \/ flows[j].pc \in {"select", "insert"} /\ flows'[j].pc \in {"insert", "login"}
              \/ flows[j].pc \in {"sending", "waiting"} /\ flows'[j].pc \in {"sending", "waiting", "asking"}

Quiet == /\ \A j \in Slots : Stays(j) \/ Goes(j)
         /\ UNCHANGED <<page, before, late>>

\* It ends with an error, or nothing but an error comes of a click.
Fails(i) == /\ \/ flows'[i] = None /\ Finally(i) /\ before' = Without(i)
               \/ flows'[i] = flows[i] /\ UNCHANGED <<loading, authLoading, before>>
            /\ \A j \in Slots \ {i} : Stays(j)
            /\ error' = TRUE
            /\ UNCHANGED <<token, userId, list, late>>

\* It begins.
Opens(i) == /\ flows[i].pc = "none" /\ \A j \in Slots \ {i} : Stays(j)
            /\ \/ flows'[i].pc \in {"select", "login"}
               \/ flows'[i].pc \in {"sending", "asking"} /\ flows'[i].token = token
            /\ loading' = (loading \/ flows'[i].spinner = "loading")
            /\ authLoading' = (authLoading \/ flows'[i].spinner = "authLoading")
            /\ UNCHANGED <<token, userId, list, late, before>>

\* One that enters the page succeeds: two flows ask for the list.
Enters(i) ==
    \E k \in Slots \ {i} :
        /\ flows[i].pc = "login" /\ flows[k].pc = "none" /\ flows[i].user \in Users
        /\ flows'[i] = Asking("authLoading", flows[i].user)
        /\ flows'[k] = Asking("loading", flows[i].user)
        /\ \A j \in Slots \ {i, k} : Stays(j)
        /\ token' = flows[i].user /\ userId' = flows[i].user /\ loading' = TRUE
        /\ UNCHANGED <<list, authLoading, error, late, before>>

LEMMA ClickKinds ==
    ASSUME TypeOK, Clicks
    PROVE  ClickLogout \/ Reload \/ \E i \in Slots : Opens(i) \/ Fails(i)
<1> USE ClientConstants
<1>0. /\ flows \in [Slots -> Flow] /\ token \in Users \union {Nobody} /\ userId \in Users \union {Nobody}
      /\ loading \in BOOLEAN /\ authLoading \in BOOLEAN
  BY DEF TypeOK
<1>1. ASSUME NEW a \in Users, NEW pc \in {"select", "login"}, ClickEnter(a, pc)
      PROVE  \E i \in Slots : Opens(i)
  <2> DEFINE r == [None EXCEPT !.pc = pc, !.spinner = "authLoading", !.token = a, !.user = a]
  <2>1. r \in Flow /\ r.pc = pc /\ r.spinner = "authLoading"
    BY FlowTypes DEF None
  <2>2. Starts(r) /\ authLoading' = TRUE /\ UNCHANGED <<token, userId, list, loading, before, late>>
    BY <1>1 DEF ClickEnter
  <2> HIDE DEF r
  <2>3. PICK i \in Slots : flows[i].pc = "none" /\ flows'[i] = r /\ \A j \in Slots \ {i} : flows'[j] = flows[j]
    BY <2>1, <2>2, StartsStep
  <2> QED
    BY <1>0, <2>1, <2>2, <2>3 DEF Opens, Stays
<1>2. ASSUME NEW f \in Files \union {NoFile}, NEW k \in Nat, NEW type \in {"upload", "delete"}, ClickTask(type, f, k)
      PROVE  \E i \in Slots : Opens(i) \/ Fails(i)
  <2> DEFINE r == [None EXCEPT !.pc = "sending", !.spinner = "loading", !.token = token,
                               !.user = userId, !.type = type, !.file = f, !.left = k]
  <2>1. CASE token = Nobody \/ userId = Nobody
    <3>1. Fails(1)
      BY <1>2, <2>1 DEF ClickTask, Fails, Stays
    <3> QED
      BY <3>1
  <2>2. CASE token # Nobody /\ userId # Nobody
    <3>1. r \in Flow
      BY <1>0, <2>2, FlowTypes
    <3>2. r.pc = "sending" /\ r.spinner = "loading" /\ r.token = token
      BY DEF None
    <3>3. Starts(r) /\ loading' = TRUE /\ UNCHANGED <<token, userId, list, authLoading, before, late>>
      BY <1>2, <2>2 DEF ClickTask
    <3> HIDE DEF r
    <3>4. PICK i \in Slots : flows[i].pc = "none" /\ flows'[i] = r /\ \A j \in Slots \ {i} : flows'[j] = flows[j]
      BY <3>1, <3>3, StartsStep
    <3> QED
      BY <1>0, <3>2, <3>3, <3>4 DEF Opens, Stays
  <2> QED
    BY <2>1, <2>2
<1>3. CASE ClickRefresh
  <2> DEFINE r == Asking("none", token)
  <2>1. r \in Flow /\ r.pc = "asking" /\ r.spinner = "none" /\ r.token = token
    BY <1>0, <1>3, NewFlows DEF ClickRefresh
  <2>2. Starts(r) /\ UNCHANGED <<token, userId, list, loading, authLoading, before, late>>
    BY <1>3 DEF ClickRefresh, page
  <2> HIDE DEF r
  <2>3. PICK i \in Slots : flows[i].pc = "none" /\ flows'[i] = r /\ \A j \in Slots \ {i} : flows'[j] = flows[j]
    BY <2>1, <2>2, StartsStep
  <2> QED
    BY <1>0, <2>1, <2>2, <2>3 DEF Opens, Stays
<1>4. CASE ClickUpload \/ \E f \in Files : ClickDelete(f)
  BY <1>2, <1>4 DEF ClickUpload, ClickDelete
<1> QED
  BY <1>1, <1>3, <1>4 DEF Clicks

LEMMA CaughtKind ==
    ASSUME TypeOK, NEW i \in Slots, Caught(i), UNCHANGED late
    PROVE  Fails(i)
BY CaughtStep DEF Fails, Stays

LEMMA EnteringKinds ==
    ASSUME TypeOK, NEW i \in Slots, SelectAccount(i) \/ InsertAccount(i) \/ Login(i)
    PROVE  Fails(i) \/ Quiet \/ Enters(i)
<1>0. flows \in [Slots -> Flow] /\ flows[i] \in Flow
  BY DEF TypeOK
<1>1. UNCHANGED late
  BY DEF SelectAccount, InsertAccount, Login
<1>2. CASE Caught(i)
  BY <1>1, <1>2, CaughtKind
<1>3. ASSUME NEW pc \in {"insert", "login"}, flows[i].pc \in {"select", "insert"},
             GoesOn(i, [flows[i] EXCEPT !.pc = pc]), UNCHANGED <<page, before>>
      PROVE  Quiet
  <2>1. flows'[i] = [flows[i] EXCEPT !.pc = pc] /\ \A j \in Slots \ {i} : flows'[j] = flows[j]
    BY <1>0, <1>3 DEF GoesOn
  <2>2. flows'[i].pc = pc /\ flows'[i].token = flows[i].token /\ flows'[i].spinner = flows[i].spinner
    BY <1>0, <2>1 DEF Flow
  <2> QED
    BY <1>1, <1>3, <2>1, <2>2 DEF Quiet, Stays, Goes
<1>4. CASE Login(i) /\ ~Caught(i)
  <2> DEFINE a == flows[i].user
             went == [flows EXCEPT ![i] = Asking("authLoading", a)]
             k == FreeSlot(went)
  <2>1. /\ Room(went) /\ flows' = [went EXCEPT ![k] = Asking("loading", a)]
        /\ <<a, "here">> \in accounts /\ flows[i].pc = "login"
        /\ token' = a /\ userId' = a /\ loading' = TRUE
        /\ UNCHANGED <<list, authLoading, error, before>>
    BY <1>4 DEF Login
  <2>2. a \in Users
    BY <2>1 DEF TypeOK
  <2>3. k \in Slots /\ went[k].pc = "none"
    BY <2>1, FreeSlotFree
  <2>4. went[i] = Asking("authLoading", a) /\ \A j \in Slots \ {i} : went[j] = flows[j]
    BY <1>0
  <2>5. k # i
    BY <2>2, <2>3, <2>4, NewFlows
  <2>6. /\ flows'[k] = Asking("loading", a) /\ flows'[i] = Asking("authLoading", a)
        /\ \A j \in Slots \ {i, k} : flows'[j] = flows[j]
        /\ flows[k].pc = "none"
    BY <1>0, <2>1, <2>3, <2>4, <2>5
  <2> HIDE DEF k, went
  <2>7. k \in Slots \ {i}
    BY <2>3, <2>5
  <2> QED
    BY <1>1, <2>1, <2>2, <2>6, <2>7 DEF Enters, Stays
<1> QED
  BY <1>2, <1>3, <1>4 DEF SelectAccount, InsertAccount

LEMMA RequestKinds ==
    ASSUME TypeOK, NEW i \in Slots, CreatesFile(i) \/ DeletesFile(i)
    PROVE  Quiet
<1>0. flows \in [Slots -> Flow] /\ flows[i] \in Flow
  BY DEF TypeOK
<1>1. flows[i].pc = "sending" /\ UNCHANGED <<page, before, late>>
  BY DEF CreatesFile, DeletesFile
<1>2. /\ flows'[i].pc = "waiting" /\ flows'[i].token = flows[i].token /\ flows'[i].spinner = flows[i].spinner
      /\ \A j \in Slots \ {i} : flows'[j] = flows[j]
  <2>1. CASE CreatesFile(i)
    <3>1. PICK f \in Files : flows' = [flows EXCEPT ![i] = [flows[i] EXCEPT !.pc = "waiting", !.file = f]]
      BY <2>1 DEF CreatesFile, GoesOn
    <3> QED
      BY <1>0, <3>1 DEF Flow
  <2>2. CASE DeletesFile(i)
    <3>1. PICK n \in 1..MaxDeletes : flows' = [flows EXCEPT ![i] = [flows[i] EXCEPT !.pc = "waiting", !.n = n]]
      BY <2>2 DEF DeletesFile, GoesOn
    <3> QED
      BY <1>0, <3>1 DEF Flow
  <2> QED
    BY <2>1, <2>2
<1> QED
  BY <1>1, <1>2 DEF Quiet, Stays, Goes

LEMMA AnswerKinds ==
    ASSUME TypeOK, FlowsOK,
           \/ \E f \in Files : Answers(f) \/ CreateFails(f)
           \/ \E t \in Tasks : PublishFails(t)
           \/ WorkersReport
    PROVE  Quiet \/ \E i \in Slots : Fails(i)
<1>0. flows \in [Slots -> Flow]
  BY DEF TypeOK
<1>1. ASSUME UNCHANGED <<page, flows, before, late>> PROVE Quiet
  BY <1>1 DEF Quiet, Stays
<1>2. ASSUME NEW t, CaughtByWaiting(t), UNCHANGED late PROVE Quiet \/ \E i \in Slots : Fails(i)
  BY <1>1, <1>2, CaughtKind DEF CaughtByWaiting, WaitingFor
<1>3. ASSUME NEW t, Queued(t) PROVE Quiet
  <2>1. ASSUME NEW j \in Slots PROVE Stays(j) \/ Goes(j)
    <3>1. CASE j \notin WaitingFor(t)
      BY <1>3, <3>1 DEF Queued, Stays
    <3>2. CASE j \in WaitingFor(t)
      <4>1. flows[j].pc = "waiting" /\ flows[j] \in Flow /\ flows[j].token \in Users
        BY <1>0, <3>2 DEF WaitingFor, FlowsOK, FlowOK
      <4>2. CASE flows[j].left > 1
        <5>1. flows'[j] = [flows[j] EXCEPT !.pc = "sending", !.file = NoFile, !.left = @ - 1]
          BY <1>3, <3>2, <4>2 DEF Queued
        <5>2. /\ flows'[j].pc = "sending" /\ flows'[j].token = flows[j].token
              /\ flows'[j].spinner = flows[j].spinner
          BY <4>1, <5>1 DEF Flow
        <5> QED
          BY <4>1, <5>2 DEF Goes
      <4>3. CASE ~(flows[j].left > 1)
        <5>1. flows'[j] = Asking(flows[j].spinner, flows[j].token)
          BY <1>3, <3>2, <4>3 DEF Queued
        <5>2. flows[j].spinner \in {"none", "loading", "authLoading"}
          BY <4>1 DEF Flow
        <5> QED
          BY <4>1, <5>1, <5>2, NewFlows DEF Goes
      <4> QED
        BY <4>2, <4>3
    <3> QED
      BY <3>1, <3>2
  <2>2. UNCHANGED <<page, before, late>>
    BY <1>3 DEF Queued
  <2> QED
    BY <2>1, <2>2 DEF Quiet
<1> QED
  BY <1>1, <1>2, <1>3 DEF Answers, CreateGoesOn, CreateFails, PublishFails, WorkersReport

LEMMA StepKinds ==
    ASSUME TypeOK, FlowsOK, StraysOK, [Next]_vars
    PROVE  \/ Quiet \/ ClickLogout \/ Reload
           \/ \E i \in Slots : Opens(i) \/ Fails(i) \/ Enters(i) \/ ReadList(i) \/ Show(i)
<1>1. ASSUME UNCHANGED <<page, flows, before, late>> PROVE Quiet
  BY <1>1 DEF Quiet, Stays
<1>2. ASSUME NEW i \in Slots, CallFails(i) \/ Refuses(i) PROVE Fails(i)
  BY <1>2, CaughtKind DEF CallFails, Refuses
<1>3. ASSUME NEW a \in Users, RegisteredElsewhere(a) PROVE Quiet
  BY <1>1, <1>3 DEF RegisteredElsewhere
<1>4. ASSUME NEW r \in strays, StrayActs(r) PROVE Quiet
  BY <1>1, <1>4, StrayStep
<1>5. CASE UNCHANGED vars
  BY <1>1, <1>5 DEF vars
<1> QED
  BY <1>2, <1>3, <1>4, <1>5, NextCases, ClickKinds, EnteringKinds, RequestKinds, AnswerKinds

\* A list is read.
LEMMA ReadStep ==
    ASSUME TypeOK, FlowsOK, NEW i \in Slots, ReadList(i)
    PROVE  /\ flows[i].pc = "asking" /\ flows'[i].pc = "answered" /\ flows'[i].outrun = FALSE
           /\ flows'[i].token = flows[i].token /\ flows'[i].spinner = flows[i].spinner
           /\ flows'[i].list = Listed(flows[i].token)
           /\ \A j \in Slots \ {i} : Stays(j)
           /\ before' = before \union {<<j, i>> : j \in {k \in Slots : flows[k].pc = "answered"}}
           /\ UNCHANGED <<page, server, late, unanswered>>
<1>0. flows \in [Slots -> Flow] /\ flows[i] \in Flow /\ FlowOK(flows[i])
  BY DEF TypeOK, FlowsOK
<1>1. /\ flows' = [flows EXCEPT ![i] = [flows[i] EXCEPT !.pc = "answered", !.list = Listed(flows[i].token)]]
      /\ flows[i].pc = "asking"
      /\ before' = before \union {<<j, i>> : j \in {k \in Slots : flows[k].pc = "answered"}}
      /\ UNCHANGED <<page, server, late, unanswered>>
  BY DEF ReadList, GoesOn, CurrentUser
<1>2. flows[i].outrun = FALSE
  BY <1>0, <1>1 DEF FlowOK, Flow
<1> QED
  BY <1>0, <1>1, <1>2 DEF Flow, Stays

\* A list is shown.
LEMMA ShowStep ==
    ASSUME TypeOK, NEW i \in Slots, Show(i)
    PROVE  /\ flows[i].pc = "answered" /\ flows'[i] = None
           /\ \A j \in Slots \ {i} :
                  /\ flows'[j].pc = flows[j].pc /\ flows'[j].token = flows[j].token
                  /\ flows'[j].spinner = flows[j].spinner /\ flows'[j].list = flows[j].list
                  /\ flows'[j].outrun = (flows[j].outrun \/ <<j, i>> \in before)
           /\ before' = Without(i) /\ Finally(i)
           /\ userId' = flows[i].token /\ list' = flows[i].list
           /\ late' = (flows[i].outrun \/ flows[i].token # token)
           /\ UNCHANGED <<token, error, server, unanswered>>
<1>1. /\ flows' = [j \in Slots |-> IF j = i THEN None
                                   ELSE [flows[j] EXCEPT !.outrun = @ \/ <<j, i>> \in before]]
      /\ flows[i].pc = "answered" /\ before' = Without(i) /\ Finally(i)
      /\ userId' = flows[i].token /\ list' = flows[i].list
      /\ late' = (flows[i].outrun \/ flows[i].token # token)
      /\ UNCHANGED <<token, error, server, unanswered>>
  BY DEF Show, Displays, CurrentUser
<1>2. ASSUME NEW j \in Slots \ {i}
      PROVE  /\ flows'[j].pc = flows[j].pc /\ flows'[j].token = flows[j].token
             /\ flows'[j].spinner = flows[j].spinner /\ flows'[j].list = flows[j].list
             /\ flows'[j].outrun = (flows[j].outrun \/ <<j, i>> \in before)
  <2>1. flows[j] \in Flow
    BY DEF TypeOK
  <2>2. flows'[j] = [flows[j] EXCEPT !.outrun = flows[j].outrun \/ <<j, i>> \in before]
    BY <1>1
  <2> QED
    BY <2>1, <2>2 DEF Flow
<1> QED
  BY <1>1, <1>2

\* Loading the page leaves at most the flow that asks for the first list.
LEMMA ReloadStep ==
    ASSUME TypeOK, Reload
    PROVE  /\ token # Nobody => token \in Users /\ flows'[1] = Asking("loading", token)
           /\ \A i \in Slots : flows'[i] = None \/ (token # Nobody /\ flows'[i] = Asking("loading", token))
           /\ userId' = Nobody /\ list' = {} /\ error' = FALSE /\ before' = {} /\ late' = FALSE
           /\ authLoading' = FALSE
           /\ UNCHANGED <<token, server, unanswered>>
BY ClientConstants DEF Reload, Loaded, TypeOK

-----------------------------------------------------------------------------
(* The spinners, the order of the lists, the page without a token. *)

LEMMA SpinnersStep ==
    ASSUME TypeOK, FlowsOK, StraysOK, SpinnersHaveFlows, [Next]_vars
    PROVE  SpinnersHaveFlows'
<1>0. \A i \in Slots : flows[i].pc = "none" => flows[i].spinner = "none"
  BY NewFlows DEF FlowsOK, FlowOK
<1>a. loading \in BOOLEAN /\ authLoading \in BOOLEAN
  BY DEF TypeOK
<1>1. CASE Quiet
  BY <1>1 DEF Quiet, Stays, Goes, SpinnersHaveFlows, page
<1>2. ASSUME NEW i \in Slots, Opens(i) PROVE SpinnersHaveFlows'
  BY <1>0, <1>2 DEF Opens, Stays, SpinnersHaveFlows
<1>3. ASSUME NEW i \in Slots, Fails(i) PROVE SpinnersHaveFlows'
  <2>1. CASE Finally(i)
    BY <1>a, <1>3, <2>1 DEF Fails, Stays, Finally, SpinnersHaveFlows
  <2>2. CASE flows'[i] = flows[i] /\ UNCHANGED <<loading, authLoading>>
    BY <1>3, <2>2 DEF Fails, Stays, SpinnersHaveFlows
  <2> QED
    BY <1>3, <2>1, <2>2 DEF Fails
<1>4. ASSUME NEW i \in Slots, Enters(i) PROVE SpinnersHaveFlows'
  BY <1>0, <1>4, NewFlows DEF Enters, Stays, SpinnersHaveFlows
<1>5. ASSUME NEW i \in Slots, ReadList(i) PROVE SpinnersHaveFlows'
  <2>1. UNCHANGED <<loading, authLoading>> /\ \A j \in Slots : flows'[j].spinner = flows[j].spinner
    BY <1>5, ReadStep DEF Stays, page
  <2> QED
    BY <2>1 DEF SpinnersHaveFlows
<1>6. ASSUME NEW i \in Slots, Show(i) PROVE SpinnersHaveFlows'
  BY <1>6, ShowStep DEF Finally, SpinnersHaveFlows
<1>7. CASE Reload
  <2>1. ASSUME loading' PROVE 1 \in Slots /\ flows'[1].spinner = "loading"
    <3>1. token # Nobody
      BY <1>7, <2>1 DEF Reload
    <3>2. 1 \in Slots /\ token \in Users /\ flows'[1] = Asking("loading", token)
      BY <1>7, <3>1, ReloadStep, ClientConstants
    <3> QED
      BY <3>2, NewFlows
  <2>2. ~authLoading'
    BY <1>7, ReloadStep
  <2> QED
    BY <2>1, <2>2 DEF SpinnersHaveFlows
<1>8. CASE ClickLogout
  BY <1>8 DEF ClickLogout, SpinnersHaveFlows
<1> QED
  BY <1>1, <1>2, <1>3, <1>4, <1>5, <1>6, <1>7, <1>8, StepKinds

\* The order stays when the same lists wait to be shown.
LEMMA OrderStays ==
    ASSUME OrderOK, UNCHANGED before, \A j \in Slots : Answered(j)' <=> Answered(j)
    PROVE  OrderOK'
BY DEF OrderOK

\* And when one of them does not any more.
LEMMA OrderEnds ==
    ASSUME OrderOK, NEW i \in Slots, before' = Without(i), ~Answered(i)',
           \A j \in Slots \ {i} : Answered(j)' <=> Answered(j)
    PROVE  OrderOK'
<1>1. \A j, k \in Slots : <<j, k>> \in before' <=> <<j, k>> \in before /\ j # i /\ k # i
  BY DEF Without
<1>2. \A j, k \in Slots : <<j, k>> \in before' => Answered(j)' /\ Answered(k)' /\ j # k
  BY <1>1 DEF OrderOK
<1>3. \A j, k \in Slots : Answered(j)' /\ Answered(k)' /\ j # k => <<j, k>> \in before' \/ <<k, j>> \in before'
  BY <1>1 DEF OrderOK
<1>4. \A j, k, l \in Slots : <<j, k>> \in before' /\ <<k, l>> \in before' => <<j, l>> \in before'
  BY <1>1 DEF OrderOK
<1> QED
  BY <1>2, <1>3, <1>4 DEF OrderOK

\* The list read last comes after all others.
LEMMA OrderGrows ==
    ASSUME OrderOK, NEW i \in Slots, ~Answered(i), Answered(i)',
           before' = before \union {<<j, i>> : j \in {k \in Slots : Answered(k)}},
           \A j \in Slots \ {i} : Answered(j)' <=> Answered(j)
    PROVE  OrderOK'
<1>1. \A j, k \in Slots : <<j, k>> \in before' <=> <<j, k>> \in before \/ (k = i /\ Answered(j))
  OBVIOUS
<1>2. \A j, k \in Slots : <<j, k>> \in before' => Answered(j)' /\ Answered(k)' /\ j # k
  BY <1>1 DEF OrderOK
<1>3. \A j, k \in Slots : Answered(j)' /\ Answered(k)' /\ j # k => <<j, k>> \in before' \/ <<k, j>> \in before'
  BY <1>1 DEF OrderOK
<1>4. \A j, k, l \in Slots : <<j, k>> \in before' /\ <<k, l>> \in before' => <<j, l>> \in before'
  BY <1>1 DEF OrderOK
<1> QED
  BY <1>2, <1>3, <1>4 DEF OrderOK

LEMMA OrderStep ==
    ASSUME TypeOK, FlowsOK, StraysOK, OrderOK, [Next]_vars
    PROVE  OrderOK'
<1>1. CASE Quiet
  BY <1>1, OrderStays DEF Quiet, Stays, Goes, Answered
<1>2. ASSUME NEW i \in Slots, Opens(i) PROVE OrderOK'
  BY <1>2, OrderStays DEF Opens, Stays, Answered
<1>3. ASSUME NEW i \in Slots, Fails(i) PROVE OrderOK'
  <2>1. CASE flows'[i] = None /\ before' = Without(i)
    <3>1. ~Answered(i)' /\ \A j \in Slots \ {i} : Answered(j)' <=> Answered(j)
      BY <1>3, <2>1, NewFlows DEF Fails, Stays, Answered
    <3> QED
      BY <2>1, <3>1, OrderEnds
  <2>2. CASE flows'[i] = flows[i] /\ UNCHANGED before
    BY <1>3, <2>2, OrderStays DEF Fails, Stays, Answered
  <2> QED
    BY <1>3, <2>1, <2>2 DEF Fails
<1>4. ASSUME NEW i \in Slots, Enters(i) PROVE OrderOK'
  <2>1. UNCHANGED before /\ \A j \in Slots : Answered(j)' <=> Answered(j)
    BY <1>4, NewFlows DEF Enters, Stays, Answered
  <2> QED
    BY <2>1, OrderStays
<1>5. ASSUME NEW i \in Slots, ReadList(i) PROVE OrderOK'
  <2>1. /\ ~Answered(i) /\ Answered(i)'
        /\ before' = before \union {<<j, i>> : j \in {k \in Slots : Answered(k)}}
        /\ \A j \in Slots \ {i} : Answered(j)' <=> Answered(j)
    BY <1>5, ReadStep DEF Answered, Stays
  <2> QED
    BY <2>1, OrderGrows
<1>6. ASSUME NEW i \in Slots, Show(i) PROVE OrderOK'
  <2>1. /\ before' = Without(i) /\ ~Answered(i)'
        /\ \A j \in Slots \ {i} : Answered(j)' <=> Answered(j)
    BY <1>6, ShowStep, NewFlows DEF Answered
  <2> QED
    BY <2>1, OrderEnds
<1>7. CASE Reload
  <2>1. before' = {} /\ \A j \in Slots : ~Answered(j)'
    BY <1>7, ReloadStep, NewFlows DEF Answered
  <2> QED
    BY <2>1 DEF OrderOK
<1>8. CASE ClickLogout
  BY <1>8, OrderStays DEF ClickLogout, Answered
<1> QED
  BY <1>1, <1>2, <1>3, <1>4, <1>5, <1>6, <1>7, <1>8, StepKinds

LEMMA SessionStep ==
    ASSUME TypeOK, FlowsOK, StraysOK, SessionOK, [Next]_vars
    PROVE  SessionOK'
<1>1. CASE Quiet
  BY <1>1 DEF Quiet, SessionOK, page
<1>2. ASSUME NEW i \in Slots, Opens(i) \/ Fails(i) PROVE SessionOK'
  BY <1>2 DEF Opens, Fails, SessionOK
<1>3. ASSUME NEW i \in Slots, Enters(i) PROVE SessionOK'
  BY <1>3, ClientConstants DEF Enters, SessionOK
<1>4. ASSUME NEW i \in Slots, ReadList(i) PROVE SessionOK'
  BY <1>4, ReadStep DEF SessionOK, page
<1>5. ASSUME NEW i \in Slots, Show(i) PROVE SessionOK'
  <2>1. flows[i].token \in Users
    BY <1>5, ShowStep DEF FlowsOK, FlowOK
  <2> QED
    BY <1>5, <2>1, ShowStep, ClientConstants DEF SessionOK
<1>6. CASE Reload
  BY <1>6, ReloadStep DEF SessionOK
<1>7. CASE ClickLogout
  BY <1>7 DEF ClickLogout, Leaves, SessionOK
<1> QED
  BY <1>1, <1>2, <1>3, <1>4, <1>5, <1>6, <1>7, StepKinds

-----------------------------------------------------------------------------
(* What the page shows. *)

\* A task that has been created stays.
LEMMA TasksStay ==
    ASSUME BackendTypeOK, [BackendNext]_backendVars, NEW t \in Tasks, taskStatus[t] # "none"
    PROVE  taskStatus'[t] # "none"
<1> USE DEF BackendTypeOK
<1>1. ASSUME NEW f \in Files, Request(f) PROVE taskStatus'[t] # "none"
  BY <1>1 DEF Request, Create, CommitFile, CommitRows, CommitUploadTask, AbortCreate, RequestDelete
<1>2. ASSUME NEW u \in Tasks, Sent(u) PROVE taskStatus'[t] # "none"
  BY <1>2 DEF Sent
<1>3. ASSUME NEW r \in Reports, NEW left \in SUBSET MayLeave(r), Callback(r, left)
      PROVE  taskStatus'[t] # "none"
  <2>1. taskStatus' = IF "task" \in left THEN taskStatus
                      ELSE [taskStatus EXCEPT ![r.task] = TaskAfter(r)]
    BY <1>3, CallbackEffect
  <2>2. TaskAfter(r) \in {"completed", "failed"} /\ r.task \in Tasks
    BY AfterFacts, ReportFacts
  <2> QED
    BY <2>1, <2>2
<1> QED
  BY <1>1, <1>2, <1>3 DEF BackendNext, backendVars

\* Who gets a file: the account of a flow that waits for it, or of a request the page
\* gave up on.
LEMMA NewOwner ==
    ASSUME TypeOK, FlowsOK, StraysOK, OwnersOK, [Next]_vars, NEW f \in Files,
           creating[f] = "no", owner'[f] # Nobody
    PROVE  \/ f \in unanswered'
           \/ \E i \in Slots : flows'[i].pc = "waiting" /\ flows'[i].token = owner'[f]
<1>0. owner[f] = Nobody /\ owner \in [Files -> Users \union {Nobody}]
  BY DEF OwnersOK, TypeOK
<1>1. ASSUME NEW i \in Slots, CreatesFile(i)
      PROVE  \E j \in Slots : flows'[j].pc = "waiting" /\ flows'[j].token = owner'[f]
  <2>1. flows \in [Slots -> Flow] /\ flows[i] \in Flow
    BY DEF TypeOK
  <2>2. PICK g \in Files : Creates(flows[i], g) /\ flows' = [flows EXCEPT ![i] = [flows[i] EXCEPT !.pc = "waiting", !.file = g]]
    BY <1>1 DEF CreatesFile, GoesOn
  <2>3. owner'[f] = flows[i].token
    BY <1>0, <2>2 DEF Creates, CurrentUser
  <2>4. flows'[i].pc = "waiting" /\ flows'[i].token = flows[i].token
    BY <2>1, <2>2 DEF Flow
  <2> QED
    BY <2>3, <2>4
<1>2. ASSUME NEW i \in Slots, DeletesFile(i) PROVE UNCHANGED owner
  BY <1>2 DEF DeletesFile, Deletes
<1>3. ASSUME NEW r \in strays, StrayActs(r) PROVE f \in unanswered'
  <2>1. ASSUME NEW g \in Files, Creates(r, g), unanswered' = unanswered \union {g} PROVE f \in unanswered'
    BY <1>0, <2>1 DEF Creates, CurrentUser
  <2>2. ASSUME NEW n \in 1..MaxDeletes, Deletes(r, n) PROVE UNCHANGED owner
    BY <2>2 DEF Deletes
  <2> QED
    BY <1>0, <1>3, <2>1, <2>2, StrayStep
<1>4. CASE UNCHANGED vars
  BY <1>0, <1>4 DEF vars, server
<1> QED
  BY <1>0, <1>1, <1>2, <1>3, <1>4, NextCases, ServerIdle, AnswersStep

\* What the page gave up on it does not take back.
LEMMA UnansweredStays ==
    ASSUME TypeOK, StraysOK, [Next]_vars
    PROVE  unanswered \subseteq unanswered'
<1>1. ASSUME NEW i \in Slots, CreatesFile(i) \/ DeletesFile(i) PROVE UNCHANGED unanswered
  BY <1>1 DEF CreatesFile, DeletesFile
<1>2. ASSUME NEW r \in strays, StrayActs(r) PROVE unanswered \subseteq unanswered'
  BY <1>2, StrayStep
<1>3. CASE UNCHANGED vars
  BY <1>3 DEF vars
<1> QED
  BY <1>1, <1>2, <1>3, NextCases, ServerIdle, AnswersStep

\* If no flow is coming a file that must be on display had to be before.
LEMMA OwedStep ==
    ASSUME ClientInv, [Next]_vars, UNCHANGED token, Settled', NEW f \in Files, Owed(f)'
    PROVE  Owed(f)
<1>1. /\ owner'[f] = token /\ f \notin unanswered' /\ token # Nobody
      /\ \A t \in DeletesOf(f) : taskStatus'[t] = "none"
  BY DEF Owed, Settled
<1>2. creating[f] # "no"
  <2> SUFFICES ASSUME creating[f] = "no" PROVE FALSE
    OBVIOUS
  <2>1. PICK i \in Slots : flows'[i].pc = "waiting" /\ flows'[i].token = owner'[f]
    BY <1>1, NewOwner DEF ClientInv
  <2>2. Coming(i)'
    BY <1>1, <2>1 DEF Coming
  <2> QED
    BY <2>2 DEF Settled
<1>3. owner[f] = token
  BY <1>1, <1>2, OwnerStep DEF ClientInv, Kept
<1>4. f \notin unanswered
  BY <1>1, UnansweredStays DEF ClientInv
<1>5. \A t \in DeletesOf(f) : taskStatus[t] = "none"
  BY <1>1, TasksStay, BackendStep, TaskFacts DEF ClientInv, TypeOK
<1>6. fileStatus[f] # "deleted"
  <2>1. FileInv(f)
    BY DEF ClientInv, BackendInv
  <2> QED
    BY <1>5, <2>1, TaskFacts DEF FileInv, Told
<1> QED
  BY <1>3, <1>4, <1>5, <1>6 DEF Owed

\* A step after which something is coming owes nothing.
LEMMA PageUnsettled == ASSUME ~Settled' PROVE PageOK'
BY DEF PageOK, AccountOK, ListOK, AnswersOK

\* The owners of the files on display stay.
LEMMA ListKept ==
    ASSUME ClientInv, [Next]_vars, token # Nobody, NEW fs \in SUBSET Files,
           \A f \in fs : owner[f] = token
    PROVE  \A f \in fs : owner'[f] = token
BY OwnerStep DEF ClientInv, OwnersOK, Kept

\* The same lists are to be shown, and nothing is coming.
LEMMA PageQuiet ==
    ASSUME ClientInv, [Next]_vars, UNCHANGED <<page, late>>, Settled' => Settled,
           \A j \in Slots : /\ ToShow(j)' <=> ToShow(j)
                            /\ ToShow(j) => flows'[j].list = flows[j].list,
           \A j, k \in Slots : ToShow(j) /\ ToShow(k) /\ <<j, k>> \in before => <<j, k>> \in before'
    PROVE  PageOK'
<1> SUFFICES ASSUME Settled' PROVE PageOK'
  BY PageUnsettled
<1>1. Settled /\ token # Nobody /\ UNCHANGED <<token, userId, list, late>> /\ list \in SUBSET Files
  BY DEF Settled, page, ClientInv, TypeOK
<1>2. \A f \in Files : Owed(f)' => Owed(f)
  BY <1>1, OwedStep
<1>3. AccountOK'
  <2>1. CASE late
    BY <1>1, <2>1 DEF AccountOK
  <2>2. CASE \E i \in Slots : ToShow(i)
    <3>1. \E i \in Slots : ToShow(i)'
      BY <2>2
    <3> QED
      BY <3>1 DEF AccountOK
  <2>3. CASE userId = token /\ \A f \in list : owner[f] = token
    <3>1. \A f \in list : owner'[f] = token
      BY <1>1, <2>3, ListKept
    <3> QED
      BY <1>1, <2>3, <3>1 DEF AccountOK
  <2>4. AccountOK
    BY DEF ClientInv, PageOK
  <2> QED
    BY <1>1, <2>1, <2>2, <2>3, <2>4 DEF AccountOK
<1>4. ListOK'
  <2> SUFFICES ASSUME ~late, NEW f \in Files, Owed(f)', f \notin list
               PROVE  \E i \in Slots : ToShow(i)' /\ f \in flows'[i].list
    BY <1>1 DEF ListOK
  <2> QED
    BY <1>1, <1>2 DEF ClientInv, PageOK, ListOK
<1>5. AnswersOK'
  <2> SUFFICES ASSUME NEW i \in Slots, NEW f \in Files, ToShow(i)', Owed(f)', f \notin flows'[i].list
               PROVE  \E j \in Slots : ToShow(j)' /\ f \in flows'[j].list /\ <<i, j>> \in before'
    BY DEF AnswersOK
  <2> QED
    BY <1>1, <1>2 DEF ClientInv, PageOK, AnswersOK
<1> QED
  BY <1>3, <1>4, <1>5 DEF PageOK

\* A list of the account that is read is to be shown after all others, and has what
\* is owed.
LEMMA PageRead ==
    ASSUME ClientInv, [Next]_vars, NEW i \in Slots, ReadList(i)
    PROVE  PageOK'
<1> SUFFICES ASSUME Settled' PROVE PageOK'
  BY PageUnsettled
<1>0. TypeOK /\ FlowsOK
  BY DEF ClientInv
<1>1. UNCHANGED <<page, late>> /\ UNCHANGED token /\ token # Nobody
  BY <1>0, ReadStep DEF page, Settled
<1>2. CASE flows[i].token # token
  <2>1. \A j \in Slots : /\ ToShow(j)' <=> ToShow(j)
                         /\ ToShow(j) => flows'[j].list = flows[j].list
                         /\ Coming(j)' <=> Coming(j)
    BY <1>0, <1>1, <1>2, ReadStep DEF ToShow, Answered, Coming, Stays
  <2>2. \A j, k \in Slots : <<j, k>> \in before => <<j, k>> \in before'
    BY <1>0, ReadStep
  <2>3. Settled
    BY <1>1, <2>1 DEF Settled, page
  <2> QED
    BY <1>1, <2>1, <2>2, <2>3, PageQuiet
<1>3. CASE flows[i].token = token
  <2>1. ToShow(i)' /\ flows'[i].list = Listed(token)
    BY <1>0, <1>1, <1>3, ReadStep DEF ToShow, Answered
  <2>2. \A f \in Files : Owed(f)' => f \in flows'[i].list
    BY <1>1, <2>1, OwedStep DEF Owed, Listed
  <2>3. \A j \in Slots : ToShow(j)' /\ j # i => <<j, i>> \in before'
    <3> SUFFICES ASSUME NEW j \in Slots, ToShow(j)', j # i
                 PROVE  <<j, i>> \in before'
      OBVIOUS
    <3>1. flows'[j] = flows[j]
      BY <1>0, ReadStep DEF Stays
    <3>2. Answered(j)
      BY <3>1 DEF ToShow, Answered
    <3> QED
      BY <1>0, <3>2, ReadStep DEF Answered
  <2>4. AccountOK' /\ ListOK'
    BY <2>1, <2>2 DEF AccountOK, ListOK
  <2>5. AnswersOK'
    BY <2>1, <2>2, <2>3 DEF AnswersOK
  <2> QED
    BY <2>4, <2>5 DEF PageOK
<1> QED
  BY <1>2, <1>3

\* A list of the account that is shown in time leaves the newer ones to be shown.
LEMMA PageShown ==
    ASSUME ClientInv, [Next]_vars, NEW i \in Slots, Show(i)
    PROVE  PageOK'
<1> SUFFICES ASSUME Settled' PROVE PageOK'
  BY PageUnsettled
<1>0. TypeOK /\ FlowsOK /\ OrderOK /\ AnswersOK
  BY DEF ClientInv, PageOK
<1>1. /\ UNCHANGED <<token, error>> /\ token # Nobody
      /\ Answered(i) /\ ~Answered(i)'
      /\ userId' = flows[i].token /\ list' = flows[i].list
      /\ ~late' <=> ToShow(i)
  BY <1>0, ShowStep, NewFlows DEF Settled, ToShow, Answered
<1>2. \A j \in Slots \ {i} : /\ ToShow(j)' <=> ToShow(j) /\ <<j, i>> \notin before
                             /\ flows'[j].list = flows[j].list
                             /\ Coming(j)' <=> Coming(j)
  BY <1>0, <1>1, ShowStep DEF ToShow, Answered, Coming
<1>3. ~Coming(i) /\ ~ToShow(i)'
  BY <1>1 DEF Coming, Answered, ToShow
<1>4. Settled
  BY <1>1, <1>2, <1>3 DEF Settled
<1>5. \A j, k \in Slots : <<j, k>> \in before /\ j # i /\ k # i => <<j, k>> \in before'
  BY <1>0, ShowStep DEF Without
<1>6. \A f \in Files : Owed(f)' => Owed(f)
  BY <1>1, OwedStep
<1>7. AccountOK'
  <2> SUFFICES ASSUME ToShow(i) PROVE userId' = token /\ \A f \in list' : owner'[f] = token
    BY <1>1 DEF AccountOK
  <2>1. flows[i].list \in SUBSET Files /\ \A f \in flows[i].list : owner[f] = token
    BY <1>0 DEF ToShow, Answered, FlowsOK, FlowOK, TypeOK, Flow
  <2> QED
    BY <1>1, <2>1, ListKept DEF ToShow
<1>8. ListOK'
  <2> SUFFICES ASSUME ToShow(i), NEW f \in Files, Owed(f), f \notin flows[i].list
               PROVE  \E j \in Slots : ToShow(j)' /\ f \in flows'[j].list
    BY <1>1, <1>6 DEF ListOK
  <2>1. PICK j \in Slots : ToShow(j) /\ f \in flows[j].list /\ <<i, j>> \in before
    BY <1>0, <1>4 DEF AnswersOK
  <2>2. j # i /\ <<j, i>> \notin before
    BY <1>0, <2>1 DEF OrderOK
  <2> QED
    BY <1>2, <2>1, <2>2
<1>9. AnswersOK'
  <2> SUFFICES ASSUME NEW k \in Slots, NEW f \in Files, ToShow(k)', Owed(f), f \notin flows'[k].list
               PROVE  \E j \in Slots : ToShow(j)' /\ f \in flows'[j].list /\ <<k, j>> \in before'
    BY <1>6 DEF AnswersOK
  <2>1. k # i /\ ToShow(k) /\ <<k, i>> \notin before /\ f \notin flows[k].list
    BY <1>2, <1>3
  <2>2. <<i, k>> \in before
    BY <1>0, <1>1, <2>1 DEF OrderOK, ToShow
  <2>3. PICK j \in Slots : ToShow(j) /\ f \in flows[j].list /\ <<k, j>> \in before
    BY <1>0, <1>4, <2>1 DEF AnswersOK
  <2>4. j # i /\ <<j, i>> \notin before
    BY <1>0, <2>1, <2>2, <2>3 DEF OrderOK
  <2> QED
    BY <1>2, <1>5, <2>1, <2>3, <2>4
<1> QED
  BY <1>7, <1>8, <1>9 DEF PageOK

LEMMA PageStep ==
    ASSUME ClientInv, [Next]_vars
    PROVE  PageOK'
<1>0. TypeOK /\ FlowsOK /\ StraysOK
  BY DEF ClientInv
<1>1. CASE Quiet
  <2>1. \A j \in Slots : /\ ToShow(j)' <=> ToShow(j)
                         /\ ToShow(j) => flows'[j].list = flows[j].list
                         /\ Coming(j) => Coming(j)'
    BY <1>1 DEF Quiet, Stays, Goes, ToShow, Answered, Coming, page
  <2>2. Settled' => Settled
    BY <1>1, <2>1 DEF Quiet, Settled, page
  <2>3. UNCHANGED <<page, late, before>>
    BY <1>1 DEF Quiet
  <2> QED
    BY <2>1, <2>2, <2>3, PageQuiet
<1>2. ASSUME NEW i \in Slots, Opens(i) PROVE PageOK'
  <2>1. Coming(i)'
    BY <1>2 DEF Opens, Coming
  <2> QED
    BY <2>1, PageUnsettled DEF Settled
<1>3. ASSUME NEW i \in Slots, Fails(i) PROVE PageOK'
  BY <1>3, PageUnsettled DEF Fails, Settled
<1>4. ASSUME NEW i \in Slots, Enters(i) PROVE PageOK'
  <2>1. Coming(i)'
    BY <1>4, NewFlows DEF Enters, Coming
  <2> QED
    BY <2>1, PageUnsettled DEF Settled
<1>5. CASE Reload
  <2>1. token' # Nobody => Coming(1)'
    BY <1>0, <1>5, ReloadStep, NewFlows DEF Coming
  <2> QED
    BY <2>1, PageUnsettled, ClientConstants DEF Settled
<1>6. CASE ClickLogout
  BY <1>6, PageUnsettled DEF ClickLogout, Leaves, Settled
<1> QED
  BY <1>0, <1>1, <1>2, <1>3, <1>4, <1>5, <1>6, StepKinds, PageRead, PageShown

-----------------------------------------------------------------------------
(* The theorems. *)

LEMMA ClientInitInv == Init => ClientInv
<1> SUFFICES ASSUME Init PROVE ClientInv
  OBVIOUS
<1>0. /\ BackendInit /\ token \in Members \union {Nobody} /\ userId = Nobody /\ list = {}
      /\ flows = Loaded(token) /\ before = {} /\ strays = {} /\ unanswered = {}
      /\ owner = [f \in Files |-> Nobody] /\ clicks = 0 /\ accounts = Members \X {"here"}
      /\ authLoading = FALSE /\ error = FALSE /\ late = FALSE
      /\ loading \in BOOLEAN /\ (loading => token # Nobody)
  BY DEF Init
<1>1. \A i \in Slots : flows[i] = None \/ (token \in Users /\ flows[i] = Asking("loading", token))
  BY <1>0, ClientConstants DEF Loaded
<1>2. token # Nobody => flows[1] = Asking("loading", token) /\ token \in Users
  BY <1>0, ClientConstants DEF Loaded
<1>3. BackendInv
  BY <1>0, BackendInitInv
<1>4. flows \in [Slots -> Flow]
  <2>1. \A i \in Slots : flows[i] \in Flow
    BY <1>1, NewFlows
  <2> QED
    BY <1>0, <2>1 DEF Loaded
<1>5. TypeOK
  <2>1. accounts \subseteq Users \X {"here", "elsewhere"}
    BY <1>0, ClientConstants
  <2>2. clicks \in 0..MaxClicks
    BY <1>0, ClientConstants
  <2>3. owner \in [Files -> Users \union {Nobody}]
    BY <1>0
  <2>4. token \in Users \union {Nobody}
    BY <1>0, ClientConstants
  <2> QED
    BY <1>0, <1>3, <1>4, <2>1, <2>2, <2>3, <2>4 DEF TypeOK, BackendInv
<1>6. FlowsOK
  BY <1>1, NewFlows DEF FlowsOK, FlowOK
<1>7. StraysOK /\ OwnersOK
  BY <1>0 DEF StraysOK, OwnersOK, BackendInit
<1>8. OrderOK
  BY <1>0, <1>1, NewFlows DEF OrderOK, Answered
<1>9. SpinnersHaveFlows
  BY <1>0, <1>2, NewFlows, ClientConstants DEF SpinnersHaveFlows
<1>10. SessionOK
  BY <1>0 DEF SessionOK
<1>11. ~Settled
  BY <1>2, NewFlows, ClientConstants DEF Settled, Coming
<1>12. PageOK
  BY <1>11 DEF PageOK, AccountOK, ListOK, AnswersOK
<1> QED
  BY <1>3, <1>5, <1>6, <1>7, <1>8, <1>9, <1>10, <1>12 DEF ClientInv

LEMMA ClientInvStep == ClientInv /\ [Next]_vars => ClientInv'
<1> SUFFICES ASSUME ClientInv, [Next]_vars PROVE ClientInv'
  OBVIOUS
<1>0. TypeOK /\ BackendInv /\ FlowsOK /\ StraysOK /\ OwnersOK /\ OrderOK /\ SpinnersHaveFlows /\ SessionOK
  BY DEF ClientInv
<1>1. BackendInv'
  BY <1>0, BackendStep, BackendStepType, BackendStepFiles DEF BackendInv
<1>2. flows' \in [Slots -> Flow] /\ FlowsOK'
  BY <1>0, FlowsStep DEF FlowsFine
<1>3. strays' \subseteq Flow /\ StraysOK'
  BY <1>0, StraysStep
<1>4. OwnersOK' /\ owner' \in [Files -> Users \union {Nobody}]
  BY <1>0, OwnerStep
<1>5. PageTypes'
  BY <1>0, PageTypesStep
<1>6. TypeOK'
  BY <1>1, <1>2, <1>3, <1>4, <1>5 DEF TypeOK, PageTypes, BackendInv
<1>7. OrderOK' /\ SpinnersHaveFlows' /\ SessionOK' /\ PageOK'
  BY <1>0, OrderStep, SpinnersStep, SessionStep, PageStep
<1> QED
  BY <1>1, <1>2, <1>3, <1>4, <1>6, <1>7 DEF ClientInv

\* The strengthened invariant holds throughout.
THEOREM ClientInvariant == Spec => []ClientInv
<1> QED
  BY ClientInitInv, ClientInvStep, PTL DEF Spec

\* The page's state, the flows and the requests under way keep to their types.
THEOREM ClientTypes == Spec => []TypeOK
<1>1. ClientInv => TypeOK
  BY DEF ClientInv
<1> QED
  BY <1>1, ClientInvariant, PTL

\* No overlap of sessions has the page act on files of another account than the one
\* on display when the user clicked.
THEOREM ClientActsForTheDisplayed == Spec => []ActsForTheDisplayed
<1>1. ClientInv => ActsForTheDisplayed
  BY DEF ClientInv, FlowsOK, FlowOK, ActsForTheDisplayed
<1> QED
  BY <1>1, ClientInvariant, PTL

\* However flows overlap, a page at rest without an error shows the account of its
\* token and the files it must.
THEOREM ClientPageIsTrue == Spec => []RestingPageIsTrue
<1>1. ClientInv => RestingPageIsTrue
  <2> SUFFICES ASSUME ClientInv, AtRest, ~error, ~late
               PROVE  /\ userId = token /\ \A f \in list : owner[f] = token
                      /\ token # Nobody =>
                             \A f \in Listed(token) \ (list \union unanswered) :
                                 \E t \in DeletesOf(f) : taskStatus[t] # "none"
    BY DEF RestingPageIsTrue
  <2>1. \A i \in Slots : ~Coming(i) /\ ~ToShow(i)
    BY DEF AtRest, Coming, ToShow, Answered
  <2>2. CASE token = Nobody
    BY <2>2 DEF ClientInv, SessionOK
  <2>3. CASE token # Nobody
    <3>1. Settled
      BY <2>1, <2>3 DEF Settled
    <3>2. userId = token /\ \A f \in list : owner[f] = token
      BY <2>1, <3>1 DEF ClientInv, PageOK, AccountOK
    <3>3. \A f \in Files : Owed(f) => f \in list
      BY <2>1, <3>1 DEF ClientInv, PageOK, ListOK
    <3> QED
      BY <3>2, <3>3 DEF Owed, Listed
  <2> QED
    BY <2>2, <2>3
<1> QED
  BY <1>1, ClientInvariant, PTL

\* No spinner turns without a flow that will stop it.
THEOREM ClientSpinners == Spec => []SpinnersHaveFlows
<1>1. ClientInv => SpinnersHaveFlows
  BY DEF ClientInv
<1> QED
  BY <1>1, ClientInvariant, PTL

\* Beside the page, with its accounts and strays, the backend is the one that Backend
\* specifies: every step of the client is one of the backend's, or leaves it alone.
THEOREM ClientImplementsBackend == Spec => BackendSpec
<1>1. Init => BackendInit
  BY DEF Init
<1>2. ClientInv /\ [Next]_vars => [BackendNext]_backendVars
  BY BackendStep DEF ClientInv
<1> QED
  BY <1>1, <1>2, ClientInvariant, PTL DEF Spec, BackendSpec

\* So every status of the client's files has been reported,
THEOREM ClientStatusReported == Spec => []StatusIsReported
BY ClientImplementsBackend, StatusReported, PTL

\* the records of a file agree unless its last report was overtaken,
THEOREM ClientRecordsAgree == Spec => []RecordsAgree
BY ClientImplementsBackend, RecordsStayInAgreement, PTL

\* and removed rows stay away.
THEOREM ClientRowsStayRemoved == Spec => RowsNeverReturn
BY ClientImplementsBackend, RowsStayRemoved, PTL

-----------------------------------------------------------------------------
(* What a step may never do. *)

\* Whose file it is never changes, whoever logs in and whatever strays arrive late.
FilesKeepTheirOwner == [][\A f \in Files : owner[f] # Nobody => owner'[f] = owner[f]]_vars

\* A delete is asked for by a request with the owner's token, made while his account was
\* on display: one of the page's flows, or one the page has given up on.
AsksToDelete(r, f) == r.type = "delete" /\ r.file = f /\ r.token = owner[f] /\ r.user = owner[f]

DeletesAreTheOwners ==
    [][\A f \in Files : \A t \in DeletesOf(f) :
           taskStatus[t] = "none" /\ taskStatus'[t] # "none" =>
               \/ \E i \in Slots : flows[i].pc = "sending" /\ AsksToDelete(flows[i], f)
               \/ \E r \in strays : AsksToDelete(r, f)]_vars

\* No step changes the owner of a file.
THEOREM OwnersAreFinal == Spec => FilesKeepTheirOwner
<1>1. ClientInv /\ [Next]_vars => [\A f \in Files : owner[f] # Nobody => owner'[f] = owner[f]]_vars
  BY OwnerStep DEF ClientInv, OwnersOK, Kept
<1> QED
  BY <1>1, ClientInvariant, PTL DEF Spec, FilesKeepTheirOwner

\* The task that a delete request adds is one of the file it names, and other steps of
\* the backend add no delete task.
LEMMA NewDelete ==
    ASSUME BackendTypeOK, NEW f \in Files, NEW t \in DeletesOf(f),
           taskStatus[t] = "none", taskStatus'[t] # "none"
    PROVE  /\ \A g \in Files : ~Create(g)
           /\ \A u \in Tasks : ~Sent(u)
           /\ ~WorkersReport
           /\ \A r : \A n \in 1..MaxDeletes : r.file \in Files /\ Deletes(r, n) => AsksToDelete(r, f)
           /\ ~UNCHANGED taskStatus
<1>0. /\ t \in Tasks /\ t.file = f /\ t.type = "delete"
      /\ taskStatus \in [Tasks -> TaskStatuses]
  BY TaskFacts DEF BackendTypeOK
<1>1. ASSUME NEW g \in Files, Create(g) PROVE FALSE
  <2>1. UploadOf(g) # t
    BY <1>0 DEF UploadOf
  <2> QED
    BY <1>0, <1>1, <2>1 DEF Create, CommitFile, CommitRows, CommitUploadTask, AbortCreate
<1>2. ASSUME NEW u \in Tasks, Sent(u) PROVE FALSE
  BY <1>0, <1>2 DEF Sent
<1>4. ~WorkersReport
  BY <1>0, ReportStep
<1>3. ASSUME NEW r, NEW n \in 1..MaxDeletes, r.file \in Files, Deletes(r, n) PROVE AsksToDelete(r, f)
  <2>1. taskStatus' = [taskStatus EXCEPT ![DeleteOf(r.file, n)] = "pending"]
    BY <1>3 DEF Deletes, RequestDelete
  <2>2. t = DeleteOf(r.file, n)
    BY <1>0, <2>1
  <2>3. r.file = f
    BY <1>0, <2>2 DEF DeleteOf
  <2> QED
    BY <1>3, <2>3 DEF Deletes, MayAct, Finds, CurrentUser, AsksToDelete
<1> QED
  BY <1>1, <1>2, <1>3, <1>4

\* Nobody but the owner has a file deleted.
THEOREM OnlyOwnersDelete == Spec => DeletesAreTheOwners
<1> DEFINE Asked(f) == \/ \E i \in Slots : flows[i].pc = "sending" /\ AsksToDelete(flows[i], f)
                       \/ \E r \in strays : AsksToDelete(r, f)
           Step == \A f \in Files : \A t \in DeletesOf(f) :
                       taskStatus[t] = "none" /\ taskStatus'[t] # "none" => Asked(f)
<1>1. ClientInv /\ [Next]_vars => [Step]_vars
  <2> SUFFICES ASSUME ClientInv, Next, NEW f \in Files, NEW t \in DeletesOf(f),
                      taskStatus[t] = "none", taskStatus'[t] # "none"
               PROVE  Asked(f)
    OBVIOUS
  <2>0. BackendTypeOK /\ TypeOK /\ FlowsOK /\ StraysOK
    BY DEF ClientInv, TypeOK
  <2>1. /\ \A g \in Files : ~Create(g)
        /\ \A u \in Tasks : ~Sent(u)
        /\ ~WorkersReport
        /\ ~UNCHANGED taskStatus
    BY <2>0, NewDelete
  <2>2. ~UNCHANGED backendVars
    BY <2>1 DEF backendVars
  <2>3. ASSUME NEW i \in Slots, CreatesFile(i) \/ DeletesFile(i) PROVE Asked(f)
    <3>1. PICK n \in 1..MaxDeletes : Deletes(flows[i], n)
      BY <2>1, <2>3 DEF CreatesFile, DeletesFile, Creates, Create
    <3>2. flows[i].file \in Files /\ flows[i].pc = "sending"
      BY <2>0, <2>3, <3>1 DEF CreatesFile, DeletesFile, Deletes, FlowsOK, FlowOK
    <3>3. AsksToDelete(flows[i], f)
      BY <2>0, <3>1, <3>2, NewDelete
    <3> QED
      BY <3>2, <3>3
  <2>4. ASSUME NEW r \in strays, StrayActs(r) PROVE Asked(f)
    <3>1. PICK n \in 1..MaxDeletes : Deletes(r, n)
      BY <2>0, <2>1, <2>2, <2>4, StrayStep DEF Creates, Create
    <3>2. r.file \in Files
      BY <2>0, <3>1 DEF Deletes, StraysOK
    <3>3. AsksToDelete(r, f)
      BY <2>0, <3>1, <3>2, NewDelete
    <3> QED
      BY <3>3
  <2>5. ASSUME NEW g \in Files, Answers(g) \/ CreateFails(g) PROVE FALSE
    BY <2>1, <2>5, TaskFacts DEF Answers, CreateGoesOn, Queued, CreateFails, Create
  <2>6. ASSUME NEW u \in Tasks, PublishFails(u) PROVE FALSE
    BY <2>1, <2>6 DEF PublishFails
  <2> QED
    BY <2>1, <2>2, <2>3, <2>4, <2>5, <2>6, NextCases, ServerIdle
<1> QED
  BY <1>1, ClientInvariant, PTL DEF Spec, DeletesAreTheOwners
=============================================================================
