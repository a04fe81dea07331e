---------------------------- MODULE NodeRegistry -----------------------------
(***************************************************************************)
(* The heartbeats of the hosts (distributed/heartbeat/heartbeat.py), the   *)
(* rows the backend keeps of them (node_heartbeat, backend/app/main.py)    *)
(* and what /health says of the workers (check_workers).                   *)
(*                                                                         *)
(* Time is discrete, in ticks of 5 seconds: every period of the code is a  *)
(* multiple of them.  An event takes no time unless it waits, and what is  *)
(* due happens before the next tick.  A time is kept as an age, and ages   *)
(* beyond the window of check_workers are all the same.                    *)
(*                                                                         *)
(* nodes.hostname is not unique, so a host may have several rows.  status  *)
(* is always "alive", and ip_address is never sent; both are left out, as  *)
(* are the messages on the queue node.heartbeat, which nothing consumes.   *)
(***************************************************************************)
EXTENDS Naturals, Sequences

CONSTANTS Hosts,
          Interval,     \* INTERVAL_SECONDS, between two beats
          Timeout,      \* of each wait of a beat's HTTP request: to connect, for the answer
          Pause,        \* before the connection to RabbitMQ is tried again
          Window,       \* for how long check_workers counts a beat
          MaxOpen,      \* bound on the requests of one host at the backend
          MaxFaults     \* bound on what goes wrong

ASSUME PeriodsAssumption == /\ Interval \in Nat /\ Timeout \in Nat
                            /\ Pause \in Nat /\ Window \in Nat
ASSUME BoundsAssumption == MaxOpen \in Nat /\ MaxFaults \in Nat

\* How long a beat's request may take.
Patience == 2 * Timeout

\* The window holds one pause between beats and two slow requests.
ASSUME WindowAssumption == Interval + 2 * Patience <= Window

Slots == 1..MaxOpen

VARIABLES broker,       \* whether RabbitMQ is up
          linked,       \* per host, whether its connection to RabbitMQ is good
          place,        \* per host, where its loop stands
          left,         \* per host, ticks it will wait there at most
          request,      \* per host, the request it waits for; 0 when it does not
          handler,      \* per host and slot, a request at the backend
          rows,         \* per host, the age of last_heartbeat in each of its rows
          faults,       \* what has gone wrong so far
          calm,         \* history: ticks since something last disturbed the host
          seen,         \* history: age of the last beat the backend has looked at
          abandoned     \* history: hosts that gave up on a beat before they had a row

hostVars == <<linked, place, left, request>>
history == <<calm, seen, abandoned>>
vars == <<broker, hostVars, handler, rows, faults, history>>

Ages == 0..Window + 1

Older(age) == IF age > Window THEN age ELSE age + 1

\* One beat is due within this time, whatever the host is doing when calm sets in.
Settled == Interval + Patience + 1

\* row: the row the SELECT has found, 0 for none;  age: of the timestamp taken then
Handler == [pc : {"free", "arrived", "read"}, row : Nat, age : Ages]

Free == [pc |-> "free", row |-> 0, age |-> 0]
Arrived == [pc |-> "arrived", row |-> 0, age |-> 0]

\* Requests of h that h no longer waits for.
Strays(h) == {s \in Slots : handler[h][s].pc # "free" /\ s # request[h]}

TypeOK ==
    /\ broker \in BOOLEAN
    /\ linked \in [Hosts -> BOOLEAN]
    /\ place \in [Hosts -> {"connecting", "publishing", "waiting", "sleeping", "pausing"}]
    /\ left \in [Hosts -> 0..Interval + Patience + Pause]
    /\ request \in [Hosts -> 0..MaxOpen]
    /\ handler \in [Hosts -> [Slots -> Handler]]
    /\ rows \in [Hosts -> Seq(Ages)]
    /\ faults \in 0..MaxFaults
    /\ calm \in [Hosts -> 0..Settled]
    /\ seen \in [Hosts -> Ages]
    /\ abandoned \in SUBSET Hosts
    /\ \A h \in Hosts : request[h] # 0 <=> place[h] = "waiting"

Init ==
    /\ broker = TRUE
    /\ linked = [h \in Hosts |-> FALSE]
    /\ place = [h \in Hosts |-> "connecting"]
    /\ left = [h \in Hosts |-> 0]
    /\ request = [h \in Hosts |-> 0]
    /\ handler = [h \in Hosts |-> [s \in Slots |-> Free]]
    /\ rows = [h \in Hosts |-> <<>>]
    /\ faults = 0
    /\ calm = [h \in Hosts |-> 0]
    /\ seen = [h \in Hosts |-> Window + 1]
    /\ abandoned = {}

-----------------------------------------------------------------------------
(* The loop of a host. *)

Goes(h, p, ticks) == /\ place' = [place EXCEPT ![h] = p]
                     /\ left' = [left EXCEPT ![h] = ticks]

Connect(h) == /\ place[h] = "connecting"
              /\ broker
              /\ linked' = [linked EXCEPT ![h] = TRUE]
              /\ Goes(h, "publishing", 0)
              /\ UNCHANGED <<broker, request, handler, rows, faults, history>>

ConnectFails(h) == /\ place[h] = "connecting"
                   /\ ~broker
                   /\ Goes(h, "pausing", Pause)
                   /\ UNCHANGED <<broker, linked, request, handler, rows, faults, history>>

\* Mutant: the loop goes on with the connection it has.
PublishRaisesKeeping(h) == /\ place[h] = "publishing"
                           /\ ~linked[h]
                           /\ Goes(h, "sleeping", Interval)
                           /\ UNCHANGED <<broker, linked, request, handler, rows, faults, history>>

\* The broken connection is noticed, and the loop begins again.
PublishRaises(h) == /\ place[h] = "publishing"
                    /\ ~linked[h]
                    /\ Goes(h, "pausing", Pause)
                    /\ UNCHANGED <<broker, linked, request, handler, rows, faults, history>>

\* The message is published, or lost in a broken connection that nobody has noticed
\* yet; then the backend is called.
Beat(h) == /\ place[h] = "publishing"
           /\ \E s \in Slots : /\ handler[h][s].pc = "free"
                               /\ \A r \in 1..s - 1 : handler[h][r].pc # "free"
                               /\ handler' = [handler EXCEPT ![h][s] = Arrived]
                               /\ request' = [request EXCEPT ![h] = s]
           /\ Goes(h, "waiting", Patience)
           /\ UNCHANGED <<broker, linked, rows, faults, history>>

Fault == faults < MaxFaults /\ faults' = faults + 1

Disturbed(H) == calm' = [h \in Hosts |-> IF h \in H THEN 0 ELSE calm[h]]

\* The backend cannot be reached, which notify_backend swallows.
BeatRefused(h) == /\ place[h] = "publishing"
                  /\ Fault
                  /\ Disturbed({h})
                  /\ Goes(h, "sleeping", Interval)
                  /\ UNCHANGED <<broker, linked, request, handler, rows, seen, abandoned>>

\* Mutant: the host goes on and still takes the answer for one to its present beat.
GivesUpStillAsking(h) ==
    /\ UNCHANGED request
    /\ abandoned' = IF request[h] # 0 /\ rows[h] = <<>>
                    THEN abandoned \union {h} ELSE abandoned

\* h stops waiting for its request, if it waits for one, and the handler goes on.
GivesUp(h) == /\ request' = [request EXCEPT ![h] = 0]
              /\ abandoned' = IF request[h] # 0 /\ rows[h] = <<>>
                              THEN abandoned \union {h} ELSE abandoned

\* One of its waits has been too long; which one cannot be told from here.
TimeOut(h) == /\ place[h] = "waiting"
              /\ left[h] <= Timeout
              /\ Fault
              /\ Disturbed({h})
              /\ GivesUp(h)
              /\ Goes(h, "sleeping", Interval)
              /\ UNCHANGED <<broker, linked, handler, rows, seen>>

Wake(h) == /\ left[h] = 0
           /\ \/ place[h] = "sleeping" /\ Goes(h, "publishing", 0)
              \/ place[h] = "pausing" /\ Goes(h, "connecting", 0)
           /\ UNCHANGED <<broker, linked, request, handler, rows, faults, history>>

\* The process dies, and its container is started again.
Restart(h) == /\ Fault
              /\ Disturbed({h})
              /\ GivesUp(h)
              /\ linked' = [linked EXCEPT ![h] = FALSE]
              /\ Goes(h, "connecting", 0)
              /\ UNCHANGED <<broker, handler, rows, seen>>

-----------------------------------------------------------------------------
(* POST /internal/nodes/heartbeat. *)

\* Mutant: the row is looked for by the address, which no beat carries.
ReadByAddress(h, s) ==
    /\ handler[h][s].pc = "arrived"
    /\ handler' = [handler EXCEPT ![h][s] = [pc |-> "read", row |-> 0, age |-> 0]]
    /\ seen' = [seen EXCEPT ![h] = 0]
    /\ UNCHANGED <<broker, hostVars, rows, faults, calm, abandoned>>

\* SELECT, any row of the host being the first, and utcnow().
Read(h, s) ==
    /\ handler[h][s].pc = "arrived"
    /\ \E r \in IF rows[h] = <<>> THEN {0} ELSE DOMAIN rows[h] :
         handler' = [handler EXCEPT ![h][s] = [pc |-> "read", row |-> r, age |-> 0]]
    /\ seen' = [seen EXCEPT ![h] = 0]
    /\ UNCHANGED <<broker, hostVars, rows, faults, calm, abandoned>>

\* Mutant: only a new row gets the time.
WrittenOnce(h, s) == IF handler[h][s].row = 0 THEN Append(rows[h], handler[h][s].age)
                     ELSE rows[h]

\* INSERT, or UPDATE of the row that was found.
Written(h, s) == IF handler[h][s].row = 0 THEN Append(rows[h], handler[h][s].age)
                 ELSE [rows[h] EXCEPT ![handler[h][s].row] = handler[h][s].age]

\* The handler is over; the host goes to sleep if it still waits for it.
Answered(h, s) ==
    /\ handler' = [handler EXCEPT ![h][s] = Free]
    /\ \/ /\ request[h] = s
          /\ request' = [request EXCEPT ![h] = 0]
          /\ Goes(h, "sleeping", Interval)
       \/ /\ request[h] # s
          /\ UNCHANGED <<request, place, left>>

\* A stray may overwrite what a later beat has written.
Commit(h, s) == /\ handler[h][s].pc = "read"
                /\ rows' = [rows EXCEPT ![h] = Written(h, s)]
                /\ Answered(h, s)
                /\ IF request[h] = s THEN UNCHANGED calm ELSE Disturbed({h})
                /\ UNCHANGED <<broker, linked, faults, seen, abandoned>>

\* The database fails: 500, swallowed by the host.
HandlerFails(h, s) == /\ handler[h][s].pc # "free"
                      /\ Fault
                      /\ Disturbed({h})
                      /\ Answered(h, s)
                      /\ UNCHANGED <<broker, linked, rows, seen, abandoned>>

\* The backend dies with all its requests.  Who waits for one gets an error that
\* notify_backend does not catch, and drops its connection to RabbitMQ too.
BackendStops ==
    LET waiting == {h \in Hosts : place[h] = "waiting"}
    IN  /\ Fault
        /\ Disturbed(Hosts)
        /\ handler' = [h \in Hosts |-> [s \in Slots |-> Free]]
        /\ request' = [h \in Hosts |-> 0]
        /\ linked' = [h \in Hosts |-> linked[h] /\ h \notin waiting]
        /\ place' = [h \in Hosts |-> IF h \in waiting THEN "pausing" ELSE place[h]]
        /\ left' = [h \in Hosts |-> IF h \in waiting THEN Pause ELSE left[h]]
        /\ UNCHANGED <<broker, rows, seen, abandoned>>

-----------------------------------------------------------------------------
(* RabbitMQ and time. *)

BrokerStops == /\ broker
               /\ Fault
               /\ broker' = FALSE
               /\ linked' = [h \in Hosts |-> FALSE]
               /\ Disturbed(Hosts)
               /\ UNCHANGED <<place, left, request, handler, rows, seen, abandoned>>

BrokerStarts == /\ ~broker
                /\ broker' = TRUE
                /\ UNCHANGED <<hostVars, handler, rows, faults, history>>

\* A host with a stray request, a broken connection or no connection is not calm.
Undisturbed(h) == broker /\ linked[h] /\ Strays(h) = {}

Tick ==
    /\ \A h \in Hosts : left[h] > 0
    /\ left' = [h \in Hosts |-> left[h] - 1]
    /\ rows' = [h \in Hosts |-> [i \in DOMAIN rows[h] |-> Older(rows[h][i])]]
    /\ handler' = [h \in Hosts |-> [s \in Slots |->
                     IF handler[h][s].pc = "read"
                     THEN [handler[h][s] EXCEPT !.age = Older(@)] ELSE handler[h][s]]]
    /\ seen' = [h \in Hosts |-> Older(seen[h])]
    /\ calm' = [h \in Hosts |-> IF ~Undisturbed(h) THEN 0
                                ELSE IF calm[h] < Settled THEN calm[h] + 1 ELSE calm[h]]
    /\ UNCHANGED <<broker, linked, place, request, faults, abandoned>>

-----------------------------------------------------------------------------

HostStep(h) == Connect(h) \/ ConnectFails(h) \/ PublishRaises(h) \/ Beat(h) \/ Wake(h)

HandlerStep(h, s) == Read(h, s) \/ Commit(h, s)

HostFault(h) == \/ BeatRefused(h) \/ TimeOut(h) \/ Restart(h)
                \/ \E s \in Slots : HandlerFails(h, s)

Next == \/ \E h \in Hosts : \/ HostStep(h) \/ HostFault(h)
                            \/ \E s \in Slots : HandlerStep(h, s)
        \/ BackendStops \/ BrokerStops \/ BrokerStarts \/ Tick

\* Processes and handlers go on, RabbitMQ is started again, and time passes.
Fairness == /\ \A h \in Hosts : WF_vars(HostStep(h))
            /\ \A h \in Hosts, s \in Slots : WF_vars(HandlerStep(h, s))
            /\ WF_vars(BrokerStarts)
            /\ WF_vars(Tick)

Spec == Init /\ [][Next]_vars /\ Fairness

-----------------------------------------------------------------------------
(* Properties. *)

\* Mutant: any row counts, however old.
ActiveRowsEver(h) == DOMAIN rows[h]

\* Nodes with last_heartbeat within the window.
ActiveRows(h) == {i \in DOMAIN rows[h] : rows[h][i] <= Window}

\* check_workers says "up".
WorkersUp == \E h \in Hosts : ActiveRows(h) # {}

\* A host that nothing has disturbed for as long as a beat takes is counted at
\* every moment, however slow the answers it gets within the timeout and however
\* many rows it has: last_heartbeat is renewed before the window has passed.
CalmHostIsActive == \A h \in Hosts : calm[h] = Settled => ActiveRows(h) # {}

\* The workers are only up if the backend has looked at a beat within the window:
\* no retry, stray or second row makes a host that is gone seem alive.
SilentHostExpires == WorkersUp => \E h \in Hosts : seen[h] <= Window

\* node_heartbeat looks for the row and then inserts it, with nothing that forbids
\* a second.  Still a host gets a second row only if it gave up on a beat before it had
\* one: its beats follow each other.
SecondRowNeedsTimeout == \A h \in Hosts \ abandoned : Len(rows[h]) <= 1

\* Once nothing goes wrong any more the workers are up for good: the loop finds
\* its way back from every exception.
WorkersComeBack == <>[]WorkersUp
=============================================================================
