------------------------------ MODULE WebClient ------------------------------
(***************************************************************************)
(* The page of the web client (frontend/rudydrive, FileSys.tsx, api.ts),   *)
(* one browser tab, beside the backend's records (Backend) and its table   *)
(* of accounts (register, login).                                          *)
(*                                                                         *)
(* A click starts a flow: an async function that keeps the token and the   *)
(* user id of the page as it was, calls the backend, and writes to the     *)
(* page when its answers come.  Nothing cancels a flow, and the next click *)
(* does not wait for it: flows overlap each other, a logout, another login.*)
(*                                                                         *)
(* A token stands for the account it names.  One that has expired is a     *)
(* call that fails.  The list is the set of files on display, those with   *)
(* the status "deleted" left out.  Toasts, health and downloads leave no   *)
(* trace in the page and are left out.                                     *)
(*                                                                         *)
(* A call that fails may still be on its way, and no call is cancelled:    *)
(* the backend may act on it when nobody waits for the answer any more.    *)
(***************************************************************************)
EXTENDS Backend, FiniteSets

CONSTANTS Users,        \* accounts, by their address
          Members,      \* the accounts there are at the beginning
          Nobody,       \* no account: null
          NoFile,       \* no file id yet
          MaxFlows,     \* bound on the flows under way at one time
          MaxClicks,    \* bound on what the user does, each file dropped counting
          MaxReports    \* bound on what the workers report, repetitions not counting

ASSUME UsersAssumption == Members \subseteq Users /\ Nobody \notin Users
ASSUME NoFileAssumption == NoFile \notin Files
ASSUME ClientBoundsAssumption == MaxFlows \in Nat \ {0} /\ MaxClicks \in Nat /\ MaxReports \in Nat

VARIABLES token, userId, list, loading, authLoading, error,   \* the page
          flows,        \* the flows under way
          before,       \* pairs of flows whose lists have been read, the earlier one first
          strays,       \* requests under way that the page gave up on; two of them that
                        \* are alike count as one
          accounts,     \* rows of users: the address and where it was registered
          owner,        \* files.user_id
          clicks,       \* what the user has done so far
          late,         \* history: what is on display came after a newer answer, or
                        \* from the session of another account
          unanswered    \* history: files made by such a request

page == <<token, userId, list, loading, authLoading, error>>
server == <<backendVars, accounts, owner>>
vars == <<page, flows, before, strays, server, clicks, late, unanswered>>

Slots == 1..MaxFlows

\* pc       "select" and "insert" in register, "login", then "sending" and "waiting" for
\*          an upload or a delete, and in refreshData "asking" and "answered"
\* spinner  what its finally clause resets
\* token, user   as the page had them
\* type, file, left   what is uploaded or deleted, and how many files are left to do;
\* n        the number of the delete task
\* list     the answer of GET /files;  outrun   whether a newer one has been shown
Flow == [pc : {"none", "select", "insert", "login", "sending", "waiting", "asking", "answered"},
         spinner : {"none", "loading", "authLoading"},
         token : Users \union {Nobody}, user : Users \union {Nobody},
         type : {"none", "upload", "delete"}, file : Files \union {NoFile},
         left : Nat, n : 0..MaxDeletes,
         list : SUBSET Files, outrun : BOOLEAN]

None == [pc |-> "none", spinner |-> "none", token |-> Nobody, user |-> Nobody,
         type |-> "none", file |-> NoFile, left |-> 0, n |-> 0, list |-> {}, outrun |-> FALSE]

Asking(spinner, a) == [None EXCEPT !.pc = "asking", !.spinner = spinner, !.token = a, !.user = a]

TypeOK == /\ BackendTypeOK
          /\ token \in Users \union {Nobody}
          /\ userId \in Users \union {Nobody}
          /\ list \subseteq Files
          /\ loading \in BOOLEAN /\ authLoading \in BOOLEAN
          /\ error \in BOOLEAN /\ late \in BOOLEAN
          /\ flows \in [Slots -> Flow]
          /\ before \subseteq Slots \X Slots
          /\ strays \subseteq Flow
          /\ accounts \subseteq Users \X {"here", "elsewhere"}
          /\ owner \in [Files -> Users \union {Nobody}]
          /\ clicks \in 0..MaxClicks
          /\ unanswered \subseteq Files

\* The flows of a page that has just been loaded: the effect, if there is a token.
Loaded(a) == [i \in Slots |-> IF i = 1 /\ a # Nobody THEN Asking("loading", a) ELSE None]

\* A member may have left a token.
Init == /\ BackendInit
        /\ accounts = Members \X {"here"}
        /\ token \in Members \union {Nobody}
        /\ userId = Nobody /\ list = {}
        /\ loading = (token # Nobody) /\ authLoading = FALSE /\ error = FALSE
        /\ flows = Loaded(token)
        /\ before = {}
        /\ strays = {}
        /\ owner = [f \in Files |-> Nobody]
        /\ clicks = 0
        /\ late = FALSE
        /\ unanswered = {}

-----------------------------------------------------------------------------
(* Clicks. *)

Room(fs) == \E i \in Slots : fs[i].pc = "none"

FreeSlot(fs) == CHOOSE i \in Slots : fs[i].pc = "none"

Clicked(k) == clicks + k <= MaxClicks /\ clicks' = clicks + k

Starts(flow) == /\ Room(flows)
                /\ flows' = [flows EXCEPT ![FreeSlot(flows)] = flow]

\* handleLogin and handleRegister.
ClickEnter(a, pc) ==
    /\ Clicked(1)
    /\ ~authLoading
    /\ authLoading' = TRUE
    /\ error' = FALSE
    /\ Starts([None EXCEPT !.pc = pc, !.spinner = "authLoading", !.token = a, !.user = a])
    /\ UNCHANGED <<token, userId, list, loading, before, strays, server, late, unanswered>>

\* handleFilesDropped and handleDelete, and their early return.
ClickTask(type, file, left) ==
    /\ Clicked(left)
    /\ IF token = Nobody \/ userId = Nobody
       THEN error' = TRUE /\ UNCHANGED <<flows, loading>>
       ELSE /\ loading' = TRUE
            /\ Starts([None EXCEPT !.pc = "sending", !.spinner = "loading", !.token = token,
                                   !.user = userId, !.type = type, !.file = file, !.left = left])
            /\ UNCHANGED error
    /\ UNCHANGED <<token, userId, list, authLoading, before, strays, server, late, unanswered>>

\* The dialog opens for an account only; one or more files are dropped on it.
ClickUpload == /\ token # Nobody /\ userId # Nobody
               /\ \E k \in 1..MaxClicks : ClickTask("upload", NoFile, k)

\* The table is hidden while the spinner turns.
ClickDelete(f) == /\ f \in list
                  /\ ~loading
                  /\ ClickTask("delete", f, 1)

ClickRefresh == /\ Clicked(1)
                /\ token # Nobody
                /\ Starts(Asking("none", token))
                /\ UNCHANGED <<page, before, strays, server, late, unanswered>>

\* Mutant: the list stays.
LeavesKeepingList == token' = Nobody /\ userId' = Nobody /\ UNCHANGED list

Leaves == token' = Nobody /\ userId' = Nobody /\ list' = {}

ClickLogout == /\ Clicked(1)
               /\ token # Nobody
               /\ Leaves
               /\ late' = FALSE
               /\ UNCHANGED <<loading, authLoading, error, flows, before, strays, server, unanswered>>

\* The flow has a request under way that will change something.
Unheard(i) == flows[i].pc \in {"select", "insert", "sending"}

\* The page is loaded again: its flows are gone, the token is in the local storage.
Reload == /\ Clicked(1)
          /\ userId' = Nobody /\ list' = {} /\ error' = FALSE
          /\ loading' = (token # Nobody) /\ authLoading' = FALSE
          /\ flows' = Loaded(token)
          /\ before' = {}
          /\ strays' = strays \union {flows[i] : i \in {j \in Slots : Unheard(j)}}
          /\ late' = FALSE
          /\ UNCHANGED <<token, server, unanswered>>

-----------------------------------------------------------------------------
(* How flows go on and end. *)

GoesOn(i, flow) == flows' = [flows EXCEPT ![i] = flow]

\* The finally clause.
Finally(i) == /\ loading' = (loading /\ flows[i].spinner # "loading")
              /\ authLoading' = (authLoading /\ flows[i].spinner # "authLoading")

Without(i) == {p \in before : p[1] # i /\ p[2] # i}

\* Mutant: the spinner is reset after the last answer only.
CaughtSpinning(i) == /\ GoesOn(i, None)
                     /\ error' = TRUE
                     /\ before' = Without(i)
                     /\ UNCHANGED <<token, userId, list, loading, authLoading>>

\* The catch clause.
Caught(i) == /\ GoesOn(i, None)
             /\ Finally(i)
             /\ error' = TRUE
             /\ before' = Without(i)
             /\ UNCHANGED <<token, userId, list>>

\* A call fails, on the way there, at the backend (a token that has expired) or on the
\* way back.  One that acts first is CreatesFile or DeletesFile; one that acts later is a
\* stray, and a stray that never acts is lost.
CallFails(i) ==
    /\ flows[i].pc # "none"
    /\ Caught(i)
    /\ strays' = IF Unheard(i) THEN strays \union {flows[i]} ELSE strays
    /\ UNCHANGED <<server, clicks, late, unanswered>>

-----------------------------------------------------------------------------
(* POST /register and POST /login. *)

Registered(a) == \E place \in {"here", "elsewhere"} : <<a, place>> \in accounts

SelectAccount(i) ==
    /\ flows[i].pc = "select"
    /\ IF Registered(flows[i].user) THEN Caught(i)
       ELSE GoesOn(i, [flows[i] EXCEPT !.pc = "insert"]) /\ UNCHANGED <<page, before>>
    /\ UNCHANGED <<strays, server, clicks, late, unanswered>>

\* The unique index on users.email.
Admits(a) == ~Registered(a)

InsertAccount(i) ==
    /\ flows[i].pc = "insert"
    /\ IF Admits(flows[i].user)
       THEN /\ accounts' = accounts \union {<<flows[i].user, "here">>}
            /\ GoesOn(i, [flows[i] EXCEPT !.pc = "login"])
            /\ UNCHANGED <<page, before>>
       ELSE Caught(i) /\ UNCHANGED accounts
    /\ UNCHANGED <<strays, backendVars, owner, clicks, late, unanswered>>

\* Somebody else registers the address in between.  At other times it would be as if
\* the account had been there from the beginning.
RegisteredElsewhere(a) ==
    /\ ~Registered(a)
    /\ \E i \in Slots : flows[i].pc = "insert" /\ flows[i].user = a
    /\ accounts' = accounts \union {<<a, "elsewhere">>}
    /\ UNCHANGED <<page, flows, before, strays, backendVars, owner, clicks, late, unanswered>>

\* The password fits the row that is found.  The new token sets off the effect, whose
\* refreshData runs beside that of the handler.
Login(i) ==
    LET a == flows[i].user
        went == [flows EXCEPT ![i] = Asking("authLoading", a)]
    IN  /\ flows[i].pc = "login"
        /\ \/ /\ <<a, "here">> \in accounts
              /\ Room(went)
              /\ flows' = [went EXCEPT ![FreeSlot(went)] = Asking("loading", a)]
              /\ token' = a /\ userId' = a /\ loading' = TRUE
              /\ UNCHANGED <<list, authLoading, error, before>>
           \/ /\ \E row \in accounts : row = <<a, "elsewhere">>
              /\ Caught(i)
           \/ ~Registered(a) /\ Caught(i)
        /\ UNCHANGED <<strays, server, clicks, late, unanswered>>

-----------------------------------------------------------------------------
(* POST /files and DELETE /files/{id}. *)

\* The account a token names: get_current_user.  Accounts are never removed.
CurrentUser(r) == r.token

\* Mutant: the body is not compared with the token.
MayActUnchecked(r) == TRUE

\* Not for the account the body names: 403.
MayAct(r) == r.user = CurrentUser(r)

\* The file of that id and that user; 404 if there is none.
Finds(r) == fileStatus[r.file] # "absent" /\ owner[r.file] = CurrentUser(r)

\* The first commit of create_file.  randomUUID: any id that is not in use.
Creates(r, f) == /\ r.type = "upload" /\ MayAct(r)
                 /\ CommitFile(f)
                 /\ owner' = [owner EXCEPT ![f] = CurrentUser(r)]

Deletes(r, n) == /\ r.type = "delete" /\ MayAct(r) /\ Finds(r)
                 /\ RequestDelete(r.file, n)
                 /\ UNCHANGED owner

Refuses(i) ==
    /\ flows[i].pc = "sending"
    /\ MayAct(flows[i]) => flows[i].type = "delete" /\ ~Finds(flows[i])
    /\ Caught(i)
    /\ UNCHANGED <<strays, server, clicks, late, unanswered>>

CreatesFile(i) ==
    /\ flows[i].pc = "sending"
    /\ \E f \in Files : /\ Creates(flows[i], f)
                        /\ GoesOn(i, [flows[i] EXCEPT !.pc = "waiting", !.file = f])
    /\ UNCHANGED <<page, before, strays, accounts, clicks, late, unanswered>>

DeletesFile(i) ==
    /\ flows[i].pc = "sending"
    /\ \E n \in 1..MaxDeletes : /\ Deletes(flows[i], n)
                                /\ GoesOn(i, [flows[i] EXCEPT !.pc = "waiting", !.n = n])
    /\ UNCHANGED <<page, before, strays, accounts, clicks, late, unanswered>>

\* A request that nobody waits for is served like any other.
StrayActs(r) ==
    /\ strays' = strays \ {r}
    /\ \/ /\ \E f \in Files : Creates(r, f) /\ unanswered' = unanswered \union {f}
          /\ UNCHANGED accounts
       \/ /\ \E n \in 1..MaxDeletes : Deletes(r, n)
          /\ UNCHANGED <<accounts, unanswered>>
       \/ /\ r.pc \in {"select", "insert"} /\ Admits(r.user)
          /\ accounts' = accounts \union {<<r.user, "here">>}
          /\ UNCHANGED <<backendVars, owner, unanswered>>
    /\ UNCHANGED <<page, flows, before, clicks, late>>

\* The flow that waits for the answer about task t, if it has not given up.
WaitingFor(t) == {i \in Slots : /\ flows[i].pc = "waiting" /\ flows[i].type = t.type
                                /\ flows[i].file = t.file /\ flows[i].n = t.n}

\* The handler goes on whether or not anybody waits.
CreateGoesOn(f) == /\ CommitRows(f) \/ CommitUploadTask(f)
                   /\ UNCHANGED <<page, flows, before, strays, accounts, owner, clicks, late, unanswered>>

CaughtByWaiting(t) == IF WaitingFor(t) = {} THEN UNCHANGED <<page, flows, before>>
                      ELSE \E i \in WaitingFor(t) : Caught(i)

CreateFails(f) == /\ AbortCreate(f)
                  /\ CaughtByWaiting(UploadOf(f))
                  /\ UNCHANGED <<strays, accounts, owner, clicks, late, unanswered>>

PublishFails(t) == /\ Sent(t)
                   /\ CaughtByWaiting(t)
                   /\ UNCHANGED <<strays, accounts, owner, clicks, late, unanswered>>

\* The answer's status is "queued", so the loop that polls while it is "pending" does
\* not turn once: the next file, or refreshData.
Queued(t) ==
    /\ Sent(t)
    /\ flows' = [i \in Slots |->
                   IF i \notin WaitingFor(t) THEN flows[i]
                   ELSE IF flows[i].left > 1
                   THEN [flows[i] EXCEPT !.pc = "sending", !.file = NoFile, !.left = @ - 1]
                   ELSE Asking(flows[i].spinner, flows[i].token)]
    /\ UNCHANGED <<page, before, strays, accounts, owner, clicks, late, unanswered>>

\* What the workers report, see Backend.
WorkersReport ==
    /\ \E r \in Reports : \E missed \in SUBSET MayLeave(r) : Callback(r, missed)
    /\ Cardinality(reported') <= MaxReports
    /\ UNCHANGED <<page, flows, before, strays, accounts, owner, clicks, late, unanswered>>

-----------------------------------------------------------------------------
(* refreshData. *)

Listed(a) == {f \in Files : owner[f] = a /\ fileStatus[f] # "deleted"}

\* GET /files is answered, as the records are now.
ReadList(i) ==
    /\ flows[i].pc = "asking"
    /\ GoesOn(i, [flows[i] EXCEPT !.pc = "answered", !.list = Listed(CurrentUser(flows[i]))])
    /\ before' = before \union {<<j, i>> : j \in {k \in Slots : flows[k].pc = "answered"}}
    /\ UNCHANGED <<page, strays, server, clicks, late, unanswered>>

Displays(i) == list' = flows[i].list

\* All of Promise.all has come.
Show(i) ==
    /\ flows[i].pc = "answered"
    /\ userId' = CurrentUser(flows[i])
    /\ Displays(i)
    /\ Finally(i)
    /\ flows' = [j \in Slots |-> IF j = i THEN None
                                 ELSE [flows[j] EXCEPT !.outrun = @ \/ <<j, i>> \in before]]
    /\ before' = Without(i)
    /\ late' = (flows[i].outrun \/ flows[i].token # token)
    /\ UNCHANGED <<token, error, strays, server, clicks, unanswered>>

-----------------------------------------------------------------------------

Clicks == \/ \E a \in Users, pc \in {"select", "login"} : ClickEnter(a, pc)
          \/ \E f \in Files : ClickDelete(f)
          \/ ClickUpload \/ ClickRefresh \/ ClickLogout \/ Reload

FlowStep(i) == \/ SelectAccount(i) \/ InsertAccount(i) \/ Login(i) \/ Refuses(i)
               \/ CreatesFile(i) \/ DeletesFile(i) \/ ReadList(i) \/ Show(i)

Answers(f) == CreateGoesOn(f) \/ \E t \in TasksOf(f) : Queued(t)

Next == \/ Clicks
        \/ \E i \in Slots : FlowStep(i) \/ CallFails(i)
        \/ \E f \in Files : Answers(f) \/ CreateFails(f)
        \/ \E t \in Tasks : PublishFails(t)
        \/ \E r \in strays : StrayActs(r)
        \/ WorkersReport
        \/ \E a \in Users : RegisteredElsewhere(a)

Spec == Init /\ [][Next]_vars

-----------------------------------------------------------------------------
(* Properties. *)

AtRest == \A i \in Slots : flows[i].pc = "none"

\* What a flow has the backend do is done to files of the account that was on display
\* when the user clicked, even if token and user id of the page had come from
\* answers to different sessions.
ActsForTheDisplayed ==
    \A i \in Slots : flows[i].pc = "waiting" =>
        owner[flows[i].file] = flows[i].token /\ flows[i].token = flows[i].user

\* A page at rest without an error shows the account of its token and all of its files,
\* except those a request it gave up on has made and those somebody has deleted, unless
\* the answer it shows was a late one: logins, logouts, uploads and refreshes may overlap
\* in every other way.
RestingPageIsTrue ==
    AtRest /\ ~error /\ ~late =>
        /\ userId = token
        /\ \A f \in list : owner[f] = token
        /\ token # Nobody =>
               \A f \in Listed(token) \ (list \union unanswered) :
                   \E t \in DeletesOf(f) : taskStatus[t] # "none"

\* A spinner turns, and disables its buttons, only while a flow that will stop it is
\* under way, however flows overlap and end.
SpinnersHaveFlows ==
    /\ loading => \E i \in Slots : flows[i].spinner = "loading"
    /\ authLoading => \E i \in Slots : flows[i].spinner = "authLoading"
=============================================================================
