------------------------- MODULE NodeRegistryProofs --------------------------
(***************************************************************************)
(* Theorems about NodeRegistry for any hosts, any periods that the window  *)
(* of check_workers leaves room for, any number of requests at a time and  *)
(* any number of faults.                                                   *)
(***************************************************************************)
EXTENDS NodeRegistry, SequenceTheorems, TLAPS

USE PeriodsAssumption, BoundsAssumption DEF Slots, Patience

-----------------------------------------------------------------------------
(* Ages. *)

\* An age stays an age, never falls, and keeps the order of two.
LEMMA OlderFacts ==
    /\ \A a \in Ages : Older(a) \in Ages /\ Older(a) <= a + 1 /\ a <= Older(a)
    /\ \A a \in Ages : a <= Window => Older(a) = a + 1
    /\ \A a, b \in Ages : a <= b => Older(a) <= Older(b)
BY DEF Older, Ages

\* Growing older changes no row but its age.
LEMMA OlderRows ==
    ASSUME NEW s \in Seq(Ages)
    PROVE  /\ [i \in DOMAIN s |-> Older(s[i])] \in Seq(Ages)
           /\ Len([i \in DOMAIN s |-> Older(s[i])]) = Len(s)
           /\ DOMAIN [i \in DOMAIN s |-> Older(s[i])] = DOMAIN s
<1> DEFINE t == [i \in DOMAIN s |-> Older(s[i])]
<1>1. Len(s) \in Nat /\ DOMAIN s = 1..Len(s)
  BY LenProperties
<1>2. \A i \in 1..Len(s) : s[i] \in Ages
  BY ElementOfSeq
<1>3. t \in [1..Len(s) -> Ages]
  BY <1>1, <1>2, OlderFacts
<1>4. t \in Seq(Ages) /\ Len(t) = Len(s)
  BY <1>1, <1>3
<1> QED
  BY <1>1, <1>3, <1>4

-----------------------------------------------------------------------------
(* The inductive invariant, host by host. *)

\* Nobody but the host itself, if it waits, has a request of h under way.
NoStrays(h) == \A s \in Slots : handler[h][s].pc = "free" \/ s = request[h]

\* The present wait of the loop is no longer than the code says, and a calm host has
\* its connection and no stray request.
LoopInv(h) ==
    /\ place[h] \in {"connecting", "pausing"} => ~linked[h]
    /\ place[h] = "publishing" => left[h] = 0
    /\ place[h] = "sleeping" => left[h] <= Interval
    /\ place[h] = "waiting" => left[h] <= Patience
    /\ calm[h] > 0 => linked[h] /\ NoStrays(h)

\* A handler that has read names a row that is there, and its time was taken when
\* the backend looked at a beat: within the timeout, if the host still waits for it.
HandlerInv(h) ==
    \A s \in Slots : handler[h][s].pc = "read" =>
        /\ handler[h][s].row <= Len(rows[h])
        /\ seen[h] <= handler[h][s].age
        /\ s = request[h] => handler[h][s].age + left[h] <= Patience

\* No row is younger than the last beat the backend has looked at.
RowsInv(h) == \A i \in 1..Len(rows[h]) : seen[h] <= rows[h][i]

\* Unless the host gave up on a beat too early, a handler that is to insert the row
\* is the only one of the host.
OnceInv(h) ==
    h \notin abandoned =>
        /\ Len(rows[h]) <= 1
        /\ rows[h] = <<>> => NoStrays(h)
        /\ \A s \in Slots : handler[h][s].pc = "read" /\ handler[h][s].row = 0 => rows[h] = <<>>

\* The time by which the next answer is there, if all goes well.
Due(h) == IF place[h] = "waiting" THEN left[h]
          ELSE IF place[h] = "sleeping" THEN left[h] + Patience ELSE Patience

\* A calm host either is still to finish its first calm beat, or has a row that will
\* be within the window when the next beat is answered.
FreshInv(h) ==
    calm[h] > 0 =>
        \/ calm[h] + Due(h) <= Interval + Patience
        \/ \E i \in 1..Len(rows[h]) : rows[h][i] + Due(h) <= Interval + 2 * Patience

HostInv(h) == LoopInv(h) /\ HandlerInv(h) /\ RowsInv(h) /\ OnceInv(h) /\ FreshInv(h)

IInv == TypeOK /\ \A h \in Hosts : HostInv(h)

\* Nothing of host g changes.
Untouched(g) == /\ linked'[g] = linked[g] /\ place'[g] = place[g] /\ left'[g] = left[g]
                /\ request'[g] = request[g] /\ handler'[g] = handler[g]
                /\ rows'[g] = rows[g] /\ calm'[g] = calm[g] /\ seen'[g] = seen[g]
                /\ (g \in abandoned' <=> g \in abandoned)

LEMMA UntouchedInv ==
    ASSUME NEW g \in Hosts, Untouched(g), HostInv(g)
    PROVE  HostInv(g)'
<1> USE DEF Untouched
<1>1. NoStrays(g) <=> NoStrays(g)'
  BY DEF NoStrays
<1>2. LoopInv(g)'
  BY <1>1 DEF HostInv, LoopInv
<1>3. HandlerInv(g)' /\ RowsInv(g)'
  BY DEF HostInv, HandlerInv, RowsInv
<1>4. OnceInv(g)'
  BY <1>1 DEF HostInv, OnceInv
<1>5. Due(g)' = Due(g)
  BY DEF Due
<1>6. FreshInv(g)'
  BY <1>5 DEF HostInv, FreshInv
<1> QED
  BY <1>2, <1>3, <1>4, <1>6 DEF HostInv

LEMMA NoStraysIsNone == \A h \in Hosts : Strays(h) = {} <=> NoStrays(h)
BY DEF Strays, NoStrays

\* No beat has been sent and there is no row.
LEMMA InitInv == Init => IInv
<1> SUFFICES ASSUME Init PROVE IInv
  OBVIOUS
<1>1. TypeOK
  BY DEF Init, TypeOK, Handler, Free, Ages, Settled
<1>2. ASSUME NEW h \in Hosts PROVE HostInv(h)
  BY DEF Init, HostInv, LoopInv, HandlerInv, RowsInv, OnceInv, FreshInv, NoStrays, Free
<1> QED
  BY <1>1, <1>2 DEF IInv

\* A step of host h that leaves the others alone.
LEMMA OneHost ==
    ASSUME IInv, NEW h \in Hosts, TypeOK', HostInv(h)',
           \A g \in Hosts \ {h} : Untouched(g)
    PROVE  IInv'
BY UntouchedInv DEF IInv

-----------------------------------------------------------------------------
(* One lemma per action of one host. *)

\* A host that does not wait has no request.
LEMMA IdleAsksNothing ==
    ASSUME TypeOK, NEW h \in Hosts, place[h] # "waiting"
    PROVE  \A s \in Slots : s # request[h]
<1>1. request[h] = 0
  BY DEF TypeOK
<1> QED
  BY <1>1

\* A host that connects has not been calm.
LEMMA ConnectStep ==
    ASSUME IInv, NEW h \in Hosts, Connect(h)
    PROVE  IInv'
<1> USE DEF IInv, TypeOK, Connect, Goes, history
<1>0. calm[h] = 0 /\ calm'[h] = 0
  BY DEF HostInv, LoopInv, Settled
<1>r. \A s \in Slots : s # request[h]
  BY IdleAsksNothing
<1>1. TypeOK'
  BY DEF Settled
<1>2. ASSUME NEW g \in Hosts \ {h} PROVE Untouched(g)
  BY DEF Untouched
<1>3. HostInv(h)'
  <2>1. LoopInv(h)'
    BY <1>0 DEF HostInv, LoopInv, NoStrays
  <2>2. HandlerInv(h)' /\ RowsInv(h)'
    BY <1>r DEF HostInv, HandlerInv, RowsInv
  <2>3. OnceInv(h)'
    BY DEF HostInv, OnceInv, NoStrays
  <2>4. FreshInv(h)'
    BY <1>0 DEF FreshInv
  <2> QED
    BY <2>1, <2>2, <2>3, <2>4 DEF HostInv
<1> QED
  BY <1>1, <1>2, <1>3, OneHost

\* Nor has one that cannot.
LEMMA ConnectFailsStep ==
    ASSUME IInv, NEW h \in Hosts, ConnectFails(h)
    PROVE  IInv'
<1> USE DEF IInv, TypeOK, ConnectFails, Goes, history
<1>0. calm[h] = 0 /\ calm'[h] = 0
  BY DEF HostInv, LoopInv, Settled
<1>r. \A s \in Slots : s # request[h]
  BY IdleAsksNothing
<1>1. TypeOK'
  BY DEF Settled
<1>2. ASSUME NEW g \in Hosts \ {h} PROVE Untouched(g)
  BY DEF Untouched
<1>3. HostInv(h)'
  <2>1. LoopInv(h)'
    BY <1>0 DEF HostInv, LoopInv, NoStrays
  <2>2. HandlerInv(h)' /\ RowsInv(h)'
    BY <1>r DEF HostInv, HandlerInv, RowsInv
  <2>3. OnceInv(h)'
    BY DEF HostInv, OnceInv, NoStrays
  <2>4. FreshInv(h)'
    BY <1>0 DEF FreshInv
  <2> QED
    BY <2>1, <2>2, <2>3, <2>4 DEF HostInv
<1> QED
  BY <1>1, <1>2, <1>3, OneHost

\* Nor has one whose connection is broken.
LEMMA PublishRaisesStep ==
    ASSUME IInv, NEW h \in Hosts, PublishRaises(h)
    PROVE  IInv'
<1> USE DEF IInv, TypeOK, PublishRaises, Goes, history
<1>0. calm[h] = 0 /\ calm'[h] = 0
  BY DEF HostInv, LoopInv, Settled
<1>r. \A s \in Slots : s # request[h]
  BY IdleAsksNothing
<1>1. TypeOK'
  BY DEF Settled
<1>2. ASSUME NEW g \in Hosts \ {h} PROVE Untouched(g)
  BY DEF Untouched
<1>3. HostInv(h)'
  <2>1. LoopInv(h)'
    BY <1>0 DEF HostInv, LoopInv, NoStrays
  <2>2. HandlerInv(h)' /\ RowsInv(h)'
    BY <1>r DEF HostInv, HandlerInv, RowsInv
  <2>3. OnceInv(h)'
    BY DEF HostInv, OnceInv, NoStrays
  <2>4. FreshInv(h)'
    BY <1>0 DEF FreshInv
  <2> QED
    BY <2>1, <2>2, <2>3, <2>4 DEF HostInv
<1> QED
  BY <1>1, <1>2, <1>3, OneHost

\* A refused beat disturbs the host.
LEMMA BeatRefusedStep ==
    ASSUME IInv, NEW h \in Hosts, BeatRefused(h)
    PROVE  IInv'
<1> USE DEF IInv, TypeOK, BeatRefused, Goes, Fault, Disturbed
<1>0. calm'[h] = 0
  BY DEF Settled
<1>r. \A s \in Slots : s # request[h]
  BY IdleAsksNothing
<1>1. TypeOK'
  BY DEF Settled
<1>2. ASSUME NEW g \in Hosts \ {h} PROVE Untouched(g)
  BY DEF Untouched
<1>3. HostInv(h)'
  <2>1. LoopInv(h)'
    BY <1>0 DEF HostInv, LoopInv, NoStrays
  <2>2. HandlerInv(h)' /\ RowsInv(h)'
    BY <1>r DEF HostInv, HandlerInv, RowsInv
  <2>3. OnceInv(h)'
    BY DEF HostInv, OnceInv, NoStrays
  <2>4. FreshInv(h)'
    BY <1>0 DEF FreshInv
  <2> QED
    BY <2>1, <2>2, <2>3, <2>4 DEF HostInv
<1> QED
  BY <1>1, <1>2, <1>3, OneHost

\* A host that wakes up is as near to its next answer as before.
LEMMA WakeStep ==
    ASSUME IInv, NEW h \in Hosts, Wake(h)
    PROVE  IInv'
<1> USE DEF IInv, TypeOK, Wake, Goes, history
<1>0. calm'[h] = calm[h] /\ calm[h] \in Nat
  BY DEF Settled
<1>r. \A s \in Slots : s # request[h]
  BY IdleAsksNothing
<1>1. TypeOK'
  BY DEF Settled
<1>2. ASSUME NEW g \in Hosts \ {h} PROVE Untouched(g)
  BY DEF Untouched
<1>3. HostInv(h)'
  <2>1. LoopInv(h)'
    BY <1>0 DEF HostInv, LoopInv, NoStrays
  <2>2. HandlerInv(h)' /\ RowsInv(h)'
    BY <1>r DEF HostInv, HandlerInv, RowsInv
  <2>3. OnceInv(h)'
    BY DEF HostInv, OnceInv, NoStrays
  <2>4. FreshInv(h)'
    <3>1. CASE place[h] = "sleeping"
      <4>1. Due(h)' = Due(h) /\ rows' = rows
        BY <3>1 DEF Due
      <4> QED
        BY <1>0, <4>1 DEF HostInv, FreshInv
    <3>2. CASE place[h] = "pausing"
      BY <1>0, <3>2 DEF HostInv, LoopInv, FreshInv
    <3> QED
      BY <3>1, <3>2
  <2> QED
    BY <2>1, <2>2, <2>3, <2>4 DEF HostInv
<1> QED
  BY <1>1, <1>2, <1>3, OneHost

\* The request of a beat is not a stray.
LEMMA BeatStep ==
    ASSUME IInv, NEW h \in Hosts, Beat(h)
    PROVE  IInv'
<1> USE DEF IInv, TypeOK, Beat, Goes, history
<1>0. calm' = calm /\ calm[h] \in Nat /\ rows' = rows /\ seen' = seen /\ abandoned' = abandoned
  BY DEF Settled
<1>1. PICK s \in Slots : /\ handler[h][s].pc = "free"
                         /\ handler' = [handler EXCEPT ![h][s] = Arrived]
                         /\ request' = [request EXCEPT ![h] = s]
  OBVIOUS
<1>2. Arrived \in Handler /\ Arrived.pc = "arrived"
  BY DEF Arrived, Handler, Ages
<1>3. handler'[h] = [handler[h] EXCEPT ![s] = Arrived] /\ handler'[h][s] = Arrived
  BY <1>1
<1>4. /\ request[h] = 0 /\ request'[h] = s /\ s # 0
      /\ place'[h] = "waiting" /\ left'[h] = Patience
  BY <1>1
<1>5. TypeOK'
  <2>1. handler' \in [Hosts -> [Slots -> Handler]]
    BY <1>1, <1>2
  <2>2. request' \in [Hosts -> 0..MaxOpen]
    BY <1>1
  <2>3. \A g \in Hosts : request'[g] # 0 <=> place'[g] = "waiting"
    BY <1>1, <1>4
  <2> QED
    BY <2>1, <2>2, <2>3 DEF Settled
<1>6. ASSUME NEW g \in Hosts \ {h} PROVE Untouched(g)
  BY <1>1 DEF Untouched
<1>7. NoStrays(h) => NoStrays(h)'
  BY <1>3, <1>4 DEF NoStrays
<1>8. HostInv(h)'
  <2>1. LoopInv(h)'
    BY <1>0, <1>4, <1>7 DEF HostInv, LoopInv
  <2>2. HandlerInv(h)' /\ RowsInv(h)'
    BY <1>0, <1>2, <1>3, <1>4 DEF HostInv, HandlerInv, RowsInv
  <2>3. OnceInv(h)'
    BY <1>0, <1>2, <1>3, <1>7 DEF HostInv, OnceInv
  <2>4. Due(h) = Patience /\ Due(h)' = Patience
    BY <1>4 DEF Due
  <2>5. FreshInv(h)'
    BY <1>0, <2>4 DEF HostInv, FreshInv
  <2> QED
    BY <2>1, <2>2, <2>3, <2>5 DEF HostInv
<1> QED
  BY <1>5, <1>6, <1>8, OneHost

\* A host that gives up is not calm; its handler is a stray from then on.
LEMMA TimeOutStep ==
    ASSUME IInv, NEW h \in Hosts, TimeOut(h)
    PROVE  IInv'
<1> USE DEF IInv, TypeOK, TimeOut, Goes, GivesUp, Fault, Disturbed
<1>0. calm'[h] = 0
  BY DEF Settled
<1>1. TypeOK'
  BY DEF Settled
<1>2. ASSUME NEW g \in Hosts \ {h} PROVE Untouched(g)
  BY DEF Untouched
<1>3. HostInv(h)'
  <2>1. LoopInv(h)'
    BY <1>0 DEF HostInv, LoopInv, NoStrays
  <2>2. HandlerInv(h)' /\ RowsInv(h)'
    BY DEF HostInv, HandlerInv, RowsInv
  <2>3. OnceInv(h)'
    BY DEF HostInv, OnceInv, NoStrays
  <2>4. FreshInv(h)'
    BY <1>0 DEF FreshInv
  <2> QED
    BY <2>1, <2>2, <2>3, <2>4 DEF HostInv
<1> QED
  BY <1>1, <1>2, <1>3, OneHost

\* Neither is one that is started again.
LEMMA RestartStep ==
    ASSUME IInv, NEW h \in Hosts, Restart(h)
    PROVE  IInv'
<1> USE DEF IInv, TypeOK, Restart, Goes, GivesUp, Fault, Disturbed
<1>0. calm'[h] = 0
  BY DEF Settled
<1>a. calm' \in [Hosts -> 0..Settled]
  <2>1. Settled \in Nat /\ calm \in [Hosts -> 0..Settled]
    BY DEF Settled
  <2>2. calm' = [g \in Hosts |-> IF g \in {h} THEN 0 ELSE calm[g]]
    OBVIOUS
  <2> QED
    BY <2>1, <2>2
<1>b. abandoned' \in SUBSET Hosts /\ faults' \in 0..MaxFaults
  OBVIOUS
<1>1. TypeOK'
  BY <1>a, <1>b
<1>2. ASSUME NEW g \in Hosts \ {h} PROVE Untouched(g)
  BY DEF Untouched
<1>3. HostInv(h)'
  <2>1. LoopInv(h)'
    BY <1>0 DEF HostInv, LoopInv, NoStrays
  <2>2. HandlerInv(h)' /\ RowsInv(h)'
    BY DEF HostInv, HandlerInv, RowsInv
  <2>3. OnceInv(h)'
    BY DEF HostInv, OnceInv, NoStrays
  <2>4. FreshInv(h)'
    BY <1>0 DEF FreshInv
  <2> QED
    BY <2>1, <2>2, <2>3, <2>4 DEF HostInv
<1> QED
  BY <1>1, <1>2, <1>3, OneHost

\* The SELECT finds a row that is there, or none if there is none.
LEMMA ReadStep ==
    ASSUME IInv, NEW h \in Hosts, NEW s \in Slots, Read(h, s)
    PROVE  IInv'
<1>a. TypeOK /\ HostInv(h)
  BY DEF IInv
<1>b. /\ handler \in [Hosts -> [Slots -> Handler]] /\ handler[h] \in [Slots -> Handler]
      /\ rows[h] \in Seq(Ages) /\ left[h] \in Nat
      /\ seen \in [Hosts -> Ages]
  BY <1>a DEF TypeOK
<1>1. PICK r \in IF rows[h] = <<>> THEN {0} ELSE DOMAIN rows[h] :
          handler' = [handler EXCEPT ![h][s] = [pc |-> "read", row |-> r, age |-> 0]]
  BY DEF Read
<1>2. /\ handler[h][s].pc = "arrived" /\ seen' = [seen EXCEPT ![h] = 0]
      /\ UNCHANGED <<broker, linked, place, left, request, rows, faults, calm, abandoned>>
  BY DEF Read, hostVars
<1>3. r \in 0..Len(rows[h]) /\ (r = 0 <=> rows[h] = <<>>) /\ Len(rows[h]) \in Nat
  BY <1>1, <1>b, LenProperties, EmptySeq
<1> DEFINE found == [pc |-> "read", row |-> r, age |-> 0]
<1>4. found \in Handler /\ found.pc = "read" /\ found.row = r /\ found.age = 0 /\ 0 \in Ages
  BY <1>3 DEF Handler, Ages
<1>c. handler' = [handler EXCEPT ![h][s] = found]
  BY <1>1
<1> HIDE DEF found
<1>5. handler'[h] = [handler[h] EXCEPT ![s] = found] /\ handler'[h][s] = found
  BY <1>b, <1>c
<1>6. TypeOK'
  <2>1. handler' \in [Hosts -> [Slots -> Handler]]
    BY <1>b, <1>c, <1>4
  <2>2. seen' \in [Hosts -> Ages]
    BY <1>b, <1>2, <1>4
  <2> QED
    BY <1>a, <1>2, <2>1, <2>2 DEF TypeOK
<1>7. ASSUME NEW g \in Hosts \ {h} PROVE Untouched(g)
  BY <1>b, <1>c, <1>2 DEF Untouched
<1>d. \A u \in Slots \ {s} : handler'[h][u] = handler[h][u]
  BY <1>b, <1>5
<1>8. NoStrays(h)' <=> NoStrays(h)
  <2>1. \A u \in Slots : handler'[h][u].pc = "free" <=> handler[h][u].pc = "free"
    BY <1>2, <1>4, <1>5, <1>d
  <2> QED
    BY <1>2, <2>1 DEF NoStrays
<1>9. HostInv(h)'
  <2>1. LoopInv(h)'
    BY <1>a, <1>2, <1>8 DEF HostInv, LoopInv
  <2>2. HandlerInv(h)'
    <3>1. s = request[h] => left[h] <= Patience
      <4>1. s = request[h] => place[h] = "waiting"
        BY <1>a DEF TypeOK
      <4> QED
        BY <1>a, <4>1 DEF HostInv, LoopInv
    <3>2. ASSUME NEW u \in Slots \ {s}
          PROVE  handler'[h][u] = handler[h][u] /\ handler[h][u].age \in Nat
      BY <1>b, <1>d DEF Handler, Ages
    <3>3. seen'[h] = 0
      BY <1>b, <1>2
    <3>4. UNCHANGED <<rows, left, request>>
      BY <1>2
    <3>5. ASSUME NEW u \in Slots, handler'[h][u].pc = "read"
          PROVE  /\ handler'[h][u].row <= Len(rows'[h]) /\ seen'[h] <= handler'[h][u].age
                 /\ u = request'[h] => handler'[h][u].age + left'[h] <= Patience
      <4>1. CASE u = s
        BY <1>b, <1>3, <1>4, <1>5, <3>1, <3>3, <3>4, <4>1
      <4>2. CASE u # s
        BY <1>a, <3>2, <3>3, <3>4, <3>5, <4>2 DEF HostInv, HandlerInv
      <4> QED
        BY <4>1, <4>2
    <3> QED
      BY <3>5 DEF HandlerInv
  <2>3. RowsInv(h)'
    <3>a. \A i \in 1..Len(rows[h]) : rows[h][i] \in Ages
      BY <1>b, ElementOfSeq
    <3>1. \A i \in 1..Len(rows[h]) : rows[h][i] \in Nat
      BY <3>a DEF Ages
    <3>2. seen'[h] = 0 /\ rows' = rows
      BY <1>b, <1>2
    <3> QED
      BY <3>1, <3>2 DEF RowsInv
  <2>4. OnceInv(h)'
    BY <1>a, <1>2, <1>3, <1>4, <1>5, <1>d, <1>8 DEF HostInv, OnceInv
  <2>5. FreshInv(h)'
    BY <1>a, <1>2 DEF HostInv, FreshInv, Due
  <2> QED
    BY <2>1, <2>2, <2>3, <2>4, <2>5 DEF HostInv
<1> QED
  BY <1>6, <1>7, <1>9, OneHost

\* What a commit leaves: the rows there were, one of them with the handler's time or
\* one more with it.
LEMMA WrittenFacts ==
    ASSUME TypeOK, NEW h \in Hosts, NEW s \in Slots, HandlerInv(h),
           handler[h][s].pc = "read"
    PROVE  /\ Written(h, s) \in Seq(Ages)
           /\ Len(Written(h, s)) = IF handler[h][s].row = 0 THEN Len(rows[h]) + 1 ELSE Len(rows[h])
           /\ \A i \in 1..Len(Written(h, s)) :
                 \/ Written(h, s)[i] = handler[h][s].age
                 \/ i \in 1..Len(rows[h]) /\ Written(h, s)[i] = rows[h][i]
           /\ \E i \in 1..Len(Written(h, s)) : Written(h, s)[i] = handler[h][s].age
<1> DEFINE row == handler[h][s].row  age == handler[h][s].age  old == rows[h]
<1> DEFINE new == Written(h, s)
<1>1. row \in Nat /\ age \in Ages /\ old \in Seq(Ages) /\ Len(old) \in Nat
  BY LenProperties DEF TypeOK, Handler
<1>2. row <= Len(old)
  BY DEF HandlerInv
<1>3. CASE row = 0
  <2>1. new = Append(old, age)
    BY <1>3 DEF Written
  <2> HIDE DEF row, age, old, new
  <2>2. /\ new \in Seq(Ages) /\ Len(new) = Len(old) + 1
        /\ \A i \in 1..Len(old) : new[i] = old[i]
        /\ new[Len(old) + 1] = age
    BY <1>1, <2>1
  <2>3. \A i \in 1..Len(new) : new[i] = age \/ (i \in 1..Len(old) /\ new[i] = old[i])
    BY <1>1, <2>2
  <2>4. Len(old) + 1 \in 1..Len(new)
    BY <1>1, <2>2
  <2> QED
    BY <1>3, <2>2, <2>3, <2>4 DEF row, age, old, new
<1>4. CASE row # 0
  <2>1. new = [old EXCEPT ![row] = age] /\ row \in 1..Len(old)
    BY <1>1, <1>2, <1>4 DEF Written
  <2> HIDE DEF row, age, old, new
  <2>2. /\ new \in Seq(Ages) /\ Len(new) = Len(old)
        /\ \A i \in 1..Len(old) : new[i] = IF i = row THEN age ELSE old[i]
    BY <1>1, <2>1, ExceptSeq
  <2>3. \A i \in 1..Len(new) : new[i] = age \/ (i \in 1..Len(old) /\ new[i] = old[i])
    BY <1>1, <2>2
  <2>4. row \in 1..Len(new) /\ new[row] = age
    BY <2>1, <2>2
  <2> QED
    BY <1>4, <2>2, <2>3, <2>4 DEF row, age, old, new
<1> QED
  BY <1>3, <1>4

\* What an answered request leaves.
Over(h, s) ==
    /\ handler' \in [Hosts -> [Slots -> Handler]]
    /\ handler'[h][s].pc = "free"
    /\ \A u \in Slots \ {s} : handler'[h][u] = handler[h][u]
    /\ request' \in [Hosts -> 0..MaxOpen]
    /\ place' \in [Hosts -> {"connecting", "publishing", "waiting", "sleeping", "pausing"}]
    /\ left' \in [Hosts -> 0..Interval + Patience + Pause]
    /\ \A g \in Hosts : request'[g] # 0 <=> place'[g] = "waiting"
    /\ \A g \in Hosts \ {h} : /\ handler'[g] = handler[g] /\ request'[g] = request[g]
                              /\ place'[g] = place[g] /\ left'[g] = left[g]
    /\ request[h] = s => /\ request'[h] = 0 /\ place[h] = "waiting"
                         /\ place'[h] = "sleeping" /\ left'[h] = Interval
    /\ request[h] # s => /\ request'[h] = request[h] /\ place'[h] = place[h]
                         /\ left'[h] = left[h]
    /\ NoStrays(h) => NoStrays(h)'

\* What an answer does to the loop of the host, and to its requests.
LEMMA AnsweredFacts ==
    ASSUME TypeOK, NEW h \in Hosts, NEW s \in Slots, Answered(h, s)
    PROVE  Over(h, s)
<1> USE DEF TypeOK, Answered, Goes, Over
<1>1. Free \in Handler /\ Free.pc = "free"
  BY DEF Free, Handler, Ages
<1>2. handler' = [handler EXCEPT ![h][s] = Free]
  OBVIOUS
<1>3. /\ handler' \in [Hosts -> [Slots -> Handler]]
      /\ handler'[h][s].pc = "free"
      /\ \A u \in Slots \ {s} : handler'[h][u] = handler[h][u]
      /\ \A g \in Hosts \ {h} : handler'[g] = handler[g]
  BY <1>1, <1>2
<1>4. s # 0
  OBVIOUS
<1>5. CASE request[h] = s
  <2>1. /\ request' = [request EXCEPT ![h] = 0]
        /\ place' = [place EXCEPT ![h] = "sleeping"]
        /\ left' = [left EXCEPT ![h] = Interval]
    BY <1>5
  <2>2. request'[h] = 0 /\ place'[h] = "sleeping" /\ place[h] = "waiting"
    BY <1>4, <1>5, <2>1
  <2>3. NoStrays(h) => NoStrays(h)'
    BY <1>3, <1>5 DEF NoStrays
  <2> QED
    BY <1>3, <1>5, <2>1, <2>2, <2>3
<1>6. CASE request[h] # s
  <2>1. UNCHANGED <<request, place, left>>
    BY <1>6
  <2>2. NoStrays(h) => NoStrays(h)'
    BY <1>3, <2>1 DEF NoStrays
  <2> QED
    BY <1>3, <1>6, <2>1, <2>2
<1> QED
  BY <1>5, <1>6

\* The row a commit writes will still be within the window when the next beat of a calm
\* host is answered.
LEMMA CommitStep ==
    ASSUME IInv, NEW h \in Hosts, NEW s \in Slots, Commit(h, s)
    PROVE  IInv'
<1> DEFINE w == Written(h, s)
<1>a. TypeOK /\ HostInv(h)
  BY DEF IInv
<1>b. handler[h][s].pc = "read" /\ Answered(h, s) /\ UNCHANGED <<broker, linked, faults, seen, abandoned>>
  BY DEF Commit
<1>c. rows' = [rows EXCEPT ![h] = w]
  BY DEF Commit
<1>d. HandlerInv(h)
  BY <1>a DEF HostInv
<1>1. /\ w \in Seq(Ages) /\ Len(w) \in Nat \ {0}
      /\ Len(w) = IF handler[h][s].row = 0 THEN Len(rows[h]) + 1 ELSE Len(rows[h])
      /\ \A i \in 1..Len(w) : \/ w[i] = handler[h][s].age
                              \/ i \in 1..Len(rows[h]) /\ w[i] = rows[h][i]
      /\ \E i \in 1..Len(w) : w[i] = handler[h][s].age
  <2>1. /\ w \in Seq(Ages)
        /\ Len(w) = IF handler[h][s].row = 0 THEN Len(rows[h]) + 1 ELSE Len(rows[h])
        /\ \A i \in 1..Len(w) : \/ w[i] = handler[h][s].age
                                \/ i \in 1..Len(rows[h]) /\ w[i] = rows[h][i]
        /\ \E i \in 1..Len(w) : w[i] = handler[h][s].age
    BY <1>a, <1>b, <1>d, WrittenFacts
  <2>2. Len(w) \in Nat
    BY <2>1, LenProperties
  <2> QED
    BY <2>1, <2>2
<1> HIDE DEF w
<1>2. rows' \in [Hosts -> Seq(Ages)] /\ rows'[h] = w /\ \A g \in Hosts \ {h} : rows'[g] = rows[g]
  BY <1>a, <1>c, <1>1 DEF TypeOK
<1>3. w # <<>> /\ Len(rows[h]) \in Nat /\ Len(rows[h]) <= Len(w)
  <2>1. Len(rows[h]) \in Nat
    BY <1>a, LenProperties DEF TypeOK
  <2> QED
    BY <1>1, <2>1
<1>4. /\ calm' \in [Hosts -> 0..Settled] /\ \A g \in Hosts \ {h} : calm'[g] = calm[g]
      /\ request[h] = s => calm'[h] = calm[h]
      /\ request[h] # s => calm'[h] = 0
  <2>1. Settled \in Nat
    BY DEF Settled
  <2>2. CASE request[h] = s
    BY <1>a, <2>2 DEF Commit, TypeOK
  <2>3. CASE request[h] # s
    <3>1. calm' = [g \in Hosts |-> IF g \in {h} THEN 0 ELSE calm[g]]
      BY <2>3 DEF Commit, Disturbed
    <3>2. calm \in [Hosts -> 0..Settled]
      BY <1>a DEF TypeOK
    <3> QED
      BY <2>1, <2>3, <3>1, <3>2
  <2> QED
    BY <2>2, <2>3
<1>o. Over(h, s)
  BY <1>a, <1>b, AnsweredFacts
<1>5. /\ handler' \in [Hosts -> [Slots -> Handler]]
      /\ handler'[h][s].pc = "free"
      /\ \A u \in Slots \ {s} : handler'[h][u] = handler[h][u]
      /\ \A g \in Hosts : request'[g] # 0 <=> place'[g] = "waiting"
      /\ \A g \in Hosts \ {h} : /\ handler'[g] = handler[g] /\ request'[g] = request[g]
                                /\ place'[g] = place[g] /\ left'[g] = left[g]
      /\ request[h] = s => /\ request'[h] = 0 /\ place[h] = "waiting"
                           /\ place'[h] = "sleeping" /\ left'[h] = Interval
      /\ request[h] # s => /\ request'[h] = request[h] /\ place'[h] = place[h]
                           /\ left'[h] = left[h]
      /\ NoStrays(h) => NoStrays(h)'
  BY <1>o DEF Over
<1>6. TypeOK'
  BY <1>a, <1>b, <1>2, <1>4, <1>5, <1>o DEF TypeOK, Over
<1>7. ASSUME NEW g \in Hosts \ {h} PROVE Untouched(g)
  BY <1>b, <1>2, <1>4, <1>5 DEF Untouched
<1>8. HostInv(h)'
  <2>1. LoopInv(h)'
    BY <1>a, <1>b, <1>4, <1>5 DEF HostInv, LoopInv
  <2>2. HandlerInv(h)'
    <3>1. ASSUME NEW u \in Slots, handler'[h][u].pc = "read"
          PROVE  /\ handler'[h][u].row <= Len(rows'[h]) /\ seen'[h] <= handler'[h][u].age
                 /\ u = request'[h] => handler'[h][u].age + left'[h] <= Patience
      <4>1. u # s /\ handler'[h][u] = handler[h][u]
        BY <1>5, <3>1
      <4>2. handler[h][u] \in Handler
        BY <1>a DEF TypeOK
      <4>3. handler[h][u].row \in Nat
        BY <4>2 DEF Handler
      <4>4. u = request'[h] => u = request[h] /\ left'[h] = left[h]
        BY <1>5
      <4> QED
        BY <1>b, <1>d, <1>2, <1>3, <3>1, <4>1, <4>3, <4>4 DEF HandlerInv
    <3> QED
      BY <3>1 DEF HandlerInv
  <2>3. RowsInv(h)'
    BY <1>a, <1>b, <1>d, <1>1, <1>2 DEF HostInv, RowsInv, HandlerInv
  <2>4. OnceInv(h)'
    <3> SUFFICES ASSUME h \notin abandoned
                 PROVE  /\ Len(w) <= 1
                        /\ \A u \in Slots : ~(handler'[h][u].pc = "read" /\ handler'[h][u].row = 0)
      BY <1>b, <1>2, <1>3 DEF OnceInv
    <3>1. CASE handler[h][s].row = 0
      <4>1. rows[h] = <<>> /\ NoStrays(h)
        BY <1>a, <1>b, <3>1 DEF HostInv, OnceInv
      <4>2. Len(w) = 1
        BY <1>1, <3>1, <4>1
      <4>3. s = request[h]
        BY <1>b, <4>1 DEF NoStrays
      <4> QED
        BY <1>5, <4>1, <4>2, <4>3 DEF NoStrays
    <3>2. CASE handler[h][s].row # 0
      <4>1. Len(w) = Len(rows[h]) /\ rows[h] # <<>>
        BY <1>1, <3>2
      <4> QED
        BY <1>a, <1>5, <4>1 DEF HostInv, OnceInv
    <3> QED
      BY <3>1, <3>2
  <2>5. FreshInv(h)'
    <3>1. CASE request[h] = s
      <4>1. Due(h)' = Interval + Patience
        BY <1>5, <3>1 DEF Due
      <4>2. left[h] \in Nat /\ handler[h][s].age \in Nat
        <5>1. handler[h][s] \in Handler
          BY <1>a DEF TypeOK
        <5> QED
          BY <1>a, <5>1 DEF TypeOK, Handler, Ages
      <4>3. handler[h][s].age <= Patience
        BY <1>b, <1>d, <3>1, <4>2 DEF HandlerInv
      <4>4. PICK i \in 1..Len(w) : w[i] = handler[h][s].age
        BY <1>1
      <4>5. rows'[h][i] + Due(h)' <= Interval + 2 * Patience
        BY <1>2, <4>1, <4>2, <4>3, <4>4
      <4> QED
        BY <1>2, <4>5 DEF FreshInv
    <3>2. CASE request[h] # s
      BY <1>4, <3>2 DEF FreshInv
    <3> QED
      BY <3>1, <3>2
  <2> QED
    BY <2>1, <2>2, <2>3, <2>4, <2>5 DEF HostInv
<1> QED
  BY <1>6, <1>7, <1>8, OneHost

\* A handler that fails leaves the rows alone.
LEMMA HandlerFailsStep ==
    ASSUME IInv, NEW h \in Hosts, NEW s \in Slots, HandlerFails(h, s)
    PROVE  IInv'
<1>a. TypeOK /\ HostInv(h)
  BY DEF IInv
<1>b. /\ Answered(h, s) /\ UNCHANGED <<broker, linked, rows, seen, abandoned>>
      /\ faults' \in 0..MaxFaults
  BY <1>a DEF HandlerFails, Fault, TypeOK
<1>1. /\ calm' \in [Hosts -> 0..Settled] /\ \A g \in Hosts \ {h} : calm'[g] = calm[g]
      /\ calm'[h] = 0
  BY <1>a DEF HandlerFails, Disturbed, TypeOK, Settled
<1>o. Over(h, s)
  BY <1>a, <1>b, AnsweredFacts
<1>2. /\ handler'[h][s].pc = "free"
      /\ \A u \in Slots \ {s} : handler'[h][u] = handler[h][u]
      /\ \A g \in Hosts \ {h} : /\ handler'[g] = handler[g] /\ request'[g] = request[g]
                                /\ place'[g] = place[g] /\ left'[g] = left[g]
      /\ request[h] = s => /\ request'[h] = 0 /\ place'[h] = "sleeping" /\ left'[h] = Interval
      /\ request[h] # s => /\ request'[h] = request[h] /\ place'[h] = place[h]
                           /\ left'[h] = left[h]
      /\ NoStrays(h) => NoStrays(h)'
  BY <1>o DEF Over
<1>3. TypeOK'
  BY <1>a, <1>b, <1>1, <1>o DEF TypeOK, Over
<1>4. ASSUME NEW g \in Hosts \ {h} PROVE Untouched(g)
  BY <1>b, <1>1, <1>2 DEF Untouched
<1>5. HostInv(h)'
  <2>1. LoopInv(h)'
    BY <1>a, <1>b, <1>1, <1>2 DEF HostInv, LoopInv
  <2>2. HandlerInv(h)'
    BY <1>a, <1>b, <1>2 DEF HostInv, HandlerInv
  <2>3. RowsInv(h)' /\ OnceInv(h)'
    BY <1>a, <1>b, <1>2 DEF HostInv, RowsInv, OnceInv
  <2>4. FreshInv(h)'
    BY <1>1 DEF FreshInv
  <2> QED
    BY <2>1, <2>2, <2>3, <2>4 DEF HostInv
<1> QED
  BY <1>3, <1>4, <1>5, OneHost

-----------------------------------------------------------------------------
(* The steps of everybody. *)

\* A backend that stops leaves no request.
LEMMA BackendStopsStep == IInv /\ BackendStops => IInv'
<1> SUFFICES ASSUME IInv, BackendStops PROVE IInv'
  OBVIOUS
<1> USE DEF IInv, TypeOK, BackendStops, Fault, Disturbed
<1>1. Free \in Handler /\ Free.pc = "free"
  BY DEF Free, Handler, Ages
<1>2. /\ handler' = [g \in Hosts |-> [s \in Slots |-> Free]]
      /\ calm' = [g \in Hosts |-> 0]
  OBVIOUS
<1>3. TypeOK'
  BY <1>1, <1>2 DEF Settled
<1>4. ASSUME NEW h \in Hosts PROVE HostInv(h)'
  <2>1. \A s \in Slots : handler'[h][s].pc = "free"
    BY <1>1, <1>2
  <2>2. NoStrays(h)' /\ calm'[h] = 0
    BY <1>2, <2>1 DEF NoStrays
  <2>a. LoopInv(h) /\ RowsInv(h) /\ OnceInv(h)
    BY DEF HostInv
  <2>b. /\ rows' = rows /\ seen' = seen /\ abandoned' = abandoned
        /\ linked'[h] = (linked[h] /\ place[h] # "waiting")
        /\ place'[h] = IF place[h] = "waiting" THEN "pausing" ELSE place[h]
        /\ left'[h] = IF place[h] = "waiting" THEN Pause ELSE left[h]
    BY DEF BackendStops
  <2>c. place[h] = "waiting" => place'[h] = "pausing" /\ ~linked'[h]
    BY <2>b
  <2>d. place[h] # "waiting" =>
            place'[h] = place[h] /\ linked'[h] = linked[h] /\ left'[h] = left[h]
    BY <2>b
  <2>3. LoopInv(h)'
    BY <2>a, <2>c, <2>d, <2>2 DEF LoopInv
  <2>4. HandlerInv(h)' /\ RowsInv(h)'
    BY <2>1 DEF HostInv, HandlerInv, RowsInv
  <2>5. OnceInv(h)'
    BY <2>a, <2>b, <2>1, <2>2 DEF OnceInv
  <2>6. FreshInv(h)'
    BY <2>2 DEF FreshInv
  <2> QED
    BY <2>3, <2>4, <2>5, <2>6 DEF HostInv
<1> QED
  BY <1>3, <1>4

\* RabbitMQ has no part in requests and rows.
LEMMA BrokerStep == IInv /\ (BrokerStops \/ BrokerStarts) => IInv'
<1> SUFFICES ASSUME IInv PROVE (BrokerStops => IInv') /\ (BrokerStarts => IInv')
  OBVIOUS
<1>1. ASSUME BrokerStops PROVE IInv'
  <2> USE <1>1 DEF IInv, TypeOK, BrokerStops, Fault, Disturbed
  <2>1. calm' = [g \in Hosts |-> 0] /\ linked' = [g \in Hosts |-> FALSE]
    OBVIOUS
  <2>a. Settled \in Nat
    BY DEF Settled
  <2>b. calm' \in [Hosts -> 0..Settled] /\ linked' \in [Hosts -> BOOLEAN]
    BY <2>1, <2>a
  <2>c. broker' \in BOOLEAN
    BY Zenon
  <2>f. faults' \in 0..MaxFaults
    <3>1. faults \in 0..MaxFaults /\ faults < MaxFaults /\ faults' = faults + 1
      BY Zenon
    <3> HIDE DEF IInv, TypeOK, BrokerStops, Fault, Disturbed
    <3> QED
      BY <3>1
  <2>d. UNCHANGED <<place, left, request, handler, rows, seen, abandoned>>
    OBVIOUS
  <2>e. TypeOK
    OBVIOUS
  <2>2. TypeOK'
    <3> HIDE DEF IInv, BrokerStops, Fault, Disturbed
    <3> QED
      BY <2>b, <2>c, <2>d, <2>e, <2>f
  <2>3. ASSUME NEW h \in Hosts PROVE HostInv(h)'
    <3>1. calm'[h] = 0 /\ ~linked'[h]
      BY <2>1
    <3>2. LoopInv(h)'
      BY <3>1 DEF HostInv, LoopInv
    <3>3. HandlerInv(h)' /\ RowsInv(h)'
      BY DEF HostInv, HandlerInv, RowsInv
    <3>4. OnceInv(h)' /\ FreshInv(h)'
      BY <3>1 DEF HostInv, OnceInv, FreshInv, NoStrays
    <3> QED
      BY <3>2, <3>3, <3>4 DEF HostInv
  <2> QED
    BY <2>2, <2>3
<1>2. ASSUME BrokerStarts PROVE IInv'
  <2> USE <1>2 DEF IInv, TypeOK, BrokerStarts, hostVars, history
  <2>1. TypeOK'
    OBVIOUS
  <2>2. ASSUME NEW h \in Hosts PROVE HostInv(h)'
    BY UntouchedInv DEF Untouched
  <2> QED
    BY <2>1, <2>2
<1> QED
  BY <1>1, <1>2

\* A tick makes rows and handlers older and brings every answer nearer, by the same.
LEMMA TickStep == IInv /\ Tick => IInv'
<1> SUFFICES ASSUME IInv, Tick PROVE IInv'
  OBVIOUS
<1>a. TypeOK /\ \A h \in Hosts : HostInv(h)
  BY DEF IInv
<1>b. /\ \A h \in Hosts : left[h] > 0
      /\ UNCHANGED <<broker, linked, place, request, faults, abandoned>>
  BY DEF Tick
<1>1. /\ left' \in [Hosts -> 0..Interval + Patience + Pause]
      /\ \A h \in Hosts : left[h] \in Nat \ {0} /\ left'[h] = left[h] - 1
  <2>1. left \in [Hosts -> 0..Interval + Patience + Pause]
    BY <1>a DEF TypeOK
  <2>2. left' = [h \in Hosts |-> left[h] - 1]
    BY DEF Tick
  <2>3. ASSUME NEW h \in Hosts
        PROVE  left[h] \in 1..Interval + Patience + Pause
    BY <1>b, <2>1
  <2> QED
    BY <2>2, <2>3
<1>2. /\ seen' \in [Hosts -> Ages] /\ \A h \in Hosts : seen'[h] = Older(seen[h])
  BY <1>a, OlderFacts DEF Tick, TypeOK
<1>3. ASSUME NEW h \in Hosts
      PROVE  /\ rows'[h] \in Seq(Ages) /\ Len(rows'[h]) = Len(rows[h])
             /\ rows[h] \in Seq(Ages) /\ Len(rows[h]) \in Nat
             /\ \A i \in 1..Len(rows[h]) : rows[h][i] \in Ages /\ rows'[h][i] = Older(rows[h][i])
  <2>1. rows[h] \in Seq(Ages) /\ rows'[h] = [i \in DOMAIN rows[h] |-> Older(rows[h][i])]
    BY <1>a DEF Tick, TypeOK
  <2>2. DOMAIN rows[h] = 1..Len(rows[h]) /\ Len(rows[h]) \in Nat
    BY <2>1, LenProperties
  <2>3. \A i \in 1..Len(rows[h]) : rows[h][i] \in Ages
    BY <2>1, ElementOfSeq
  <2> QED
    BY <2>1, <2>2, <2>3, OlderRows
<1>4. rows' \in [Hosts -> Seq(Ages)]
  <2>1. rows' = [h \in Hosts |-> [i \in DOMAIN rows[h] |-> Older(rows[h][i])]]
    BY DEF Tick
  <2> QED
    BY <1>3, <2>1
<1>5. ASSUME NEW h \in Hosts, NEW s \in Slots
      PROVE  /\ handler[h][s] \in Handler /\ handler'[h][s] \in Handler
             /\ handler'[h][s].pc = handler[h][s].pc /\ handler'[h][s].row = handler[h][s].row
             /\ handler[h][s].pc = "read" => handler'[h][s].age = Older(handler[h][s].age)
  <2>1. handler[h][s] \in Handler
    BY <1>a DEF TypeOK
  <2>2. handler'[h][s] = IF handler[h][s].pc = "read"
                         THEN [handler[h][s] EXCEPT !.age = Older(@)] ELSE handler[h][s]
    BY DEF Tick
  <2>3. handler[h][s].age \in Ages
    BY <2>1 DEF Handler
  <2> QED
    BY <2>1, <2>2, <2>3, OlderFacts DEF Handler
<1>6. handler' \in [Hosts -> [Slots -> Handler]]
  <2>1. handler' = [h \in Hosts |-> [s \in Slots |->
                     IF handler[h][s].pc = "read"
                     THEN [handler[h][s] EXCEPT !.age = Older(@)] ELSE handler[h][s]]]
    BY DEF Tick
  <2>2. \A h \in Hosts : \A s \in Slots :
            (IF handler[h][s].pc = "read"
             THEN [handler[h][s] EXCEPT !.age = Older(@)] ELSE handler[h][s]) \in Handler
    BY <1>5, <2>1
  <2> QED
    BY <2>1, <2>2
<1>7. ASSUME NEW h \in Hosts
      PROVE  /\ calm[h] \in 0..Settled
             /\ calm'[h] = IF ~Undisturbed(h) THEN 0
                           ELSE IF calm[h] < Settled THEN calm[h] + 1 ELSE calm[h]
  BY <1>a DEF Tick, TypeOK
<1>8. calm' \in [Hosts -> 0..Settled]
  <2>1. calm' = [h \in Hosts |-> IF ~Undisturbed(h) THEN 0
                                ELSE IF calm[h] < Settled THEN calm[h] + 1 ELSE calm[h]]
    BY DEF Tick
  <2>2. Settled \in Nat
    BY DEF Settled
  <2> QED
    BY <1>7, <2>1, <2>2
<1>9. TypeOK'
  BY <1>a, <1>b, <1>1, <1>2, <1>4, <1>6, <1>8 DEF TypeOK
<1>10. ASSUME NEW h \in Hosts PROVE HostInv(h)'
  <2>0. HostInv(h)
    BY <1>a
  <2>1. NoStrays(h)' <=> NoStrays(h)
    BY <1>b, <1>5 DEF NoStrays
  <2>2. calm'[h] > 0 => linked[h] /\ NoStrays(h)
    BY <1>7, NoStraysIsNone DEF Undisturbed
  <2>3. LoopInv(h)'
    BY <1>b, <1>1, <2>0, <2>1, <2>2 DEF HostInv, LoopInv
  <2>4. HandlerInv(h)'
    <3>1. ASSUME NEW s \in Slots, handler'[h][s].pc = "read"
          PROVE  /\ handler'[h][s].row <= Len(rows'[h]) /\ seen'[h] <= handler'[h][s].age
                 /\ s = request'[h] => handler'[h][s].age + left'[h] <= Patience
      <4>1. /\ handler[h][s].row <= Len(rows[h]) /\ seen[h] <= handler[h][s].age
            /\ s = request[h] => handler[h][s].age + left[h] <= Patience
        BY <1>5, <2>0, <3>1 DEF HostInv, HandlerInv
      <4>2. handler'[h][s].age = Older(handler[h][s].age) /\ handler'[h][s].row = handler[h][s].row
        BY <1>5, <3>1
      <4>3. seen[h] \in Ages /\ handler[h][s].age \in Ages
        BY <1>a, <1>5 DEF TypeOK, Handler
      <4>4. seen'[h] <= handler'[h][s].age
        BY <1>2, <4>1, <4>2, <4>3, OlderFacts
      <4>5. s = request[h] => handler'[h][s].age + left'[h] <= Patience
        <5>1. /\ handler'[h][s].age \in Nat /\ handler'[h][s].age <= handler[h][s].age + 1
              /\ handler[h][s].age \in Nat
          BY <4>2, <4>3, OlderFacts DEF Ages
        <5>2. left[h] \in Nat /\ left'[h] = left[h] - 1
          BY <1>1
        <5> DEFINE a == handler[h][s].age
                   b == handler'[h][s].age
        <5>3. a + left[h] <= Patience => b + (left[h] - 1) <= Patience
          <6> a \in Nat /\ b \in Nat /\ b <= a + 1 /\ left[h] \in Nat
            BY <5>1, <5>2
          <6> HIDE DEF a, b
          <6> QED
            OBVIOUS
        <5> QED
          BY <4>1, <5>2, <5>3
      <4> QED
        BY <1>b, <1>3, <4>1, <4>2, <4>4, <4>5
    <3> QED
      BY <3>1 DEF HandlerInv
  <2>5. RowsInv(h)'
    <3>1. ASSUME NEW i \in 1..Len(rows[h]) PROVE seen'[h] <= rows'[h][i]
      <4>1. seen[h] \in Ages /\ rows[h][i] \in Ages /\ seen[h] <= rows[h][i]
        BY <1>a, <1>3, <2>0 DEF TypeOK, HostInv, RowsInv
      <4> QED
        BY <1>2, <1>3, <4>1, OlderFacts
    <3> QED
      BY <1>3, <3>1 DEF RowsInv
  <2>6. OnceInv(h)'
    <3>1. rows'[h] = <<>> <=> rows[h] = <<>>
      BY <1>3
    <3> QED
      BY <1>b, <1>3, <1>5, <2>0, <2>1, <3>1 DEF HostInv, OnceInv
  <2>7. FreshInv(h)'
    <3> SUFFICES ASSUME calm'[h] > 0
                 PROVE  \/ calm'[h] + Due(h)' <= Interval + Patience
                        \/ \E i \in 1..Len(rows[h]) : rows'[h][i] + Due(h)' <= Interval + 2 * Patience
      BY <1>3 DEF FreshInv
    <3>1. place[h] \in {"waiting", "sleeping"}
      <4>1. linked[h] /\ place[h] \notin {"connecting", "pausing"}
        BY <2>0, <2>2 DEF HostInv, LoopInv
      <4>2. place[h] # "publishing"
        BY <1>1, <2>0 DEF HostInv, LoopInv
      <4> QED
        BY <1>a, <4>1, <4>2 DEF TypeOK
    <3>2. /\ Due(h) \in Nat \ {0} /\ Due(h)' = Due(h) - 1 /\ Due(h) <= Interval + Patience
      BY <1>b, <1>1, <2>0, <3>1 DEF HostInv, LoopInv, Due
    <3>3. calm[h] \in Nat /\ calm'[h] \in Nat /\ calm'[h] <= calm[h] + 1
      BY <1>7
    <3>4. CASE calm[h] = 0
      BY <3>2, <3>3, <3>4
    <3>5. CASE calm[h] > 0 /\ calm[h] + Due(h) <= Interval + Patience
      BY <3>2, <3>3, <3>5
    <3>6. CASE \E i \in 1..Len(rows[h]) : rows[h][i] + Due(h) <= Interval + 2 * Patience
      <4>1. PICK i \in 1..Len(rows[h]) : rows[h][i] + Due(h) <= Interval + 2 * Patience
        BY <3>6
      <4>2. rows[h][i] \in Ages /\ rows[h][i] \in Nat /\ rows'[h][i] = Older(rows[h][i])
        BY <1>3 DEF Ages
      <4>3. rows'[h][i] \in Nat /\ rows'[h][i] <= rows[h][i] + 1
        BY <4>2, OlderFacts DEF Ages
      <4>4. rows'[h][i] + Due(h)' <= Interval + 2 * Patience
        BY <3>2, <4>1, <4>2, <4>3, SMTT(30)
      <4> QED
        BY <4>4
    <3> QED
      BY <2>0, <3>3, <3>4, <3>5, <3>6 DEF HostInv, FreshInv
  <2> QED
    BY <2>3, <2>4, <2>5, <2>6, <2>7 DEF HostInv
<1> QED
  BY <1>9, <1>10 DEF IInv

-----------------------------------------------------------------------------
(* The theorems. *)

\* Every step, and standing still, keeps the invariant.
LEMMA NextInv == IInv /\ [Next]_vars => IInv'
<1> SUFFICES ASSUME IInv, [Next]_vars PROVE IInv'
  OBVIOUS
<1>1. ASSUME NEW h \in Hosts, HostStep(h) PROVE IInv'
  BY <1>1, ConnectStep, ConnectFailsStep, PublishRaisesStep, BeatStep, WakeStep DEF HostStep
<1>2. ASSUME NEW h \in Hosts, HostFault(h) PROVE IInv'
  BY <1>2, BeatRefusedStep, TimeOutStep, RestartStep, HandlerFailsStep DEF HostFault
<1>3. ASSUME NEW h \in Hosts, NEW s \in Slots, HandlerStep(h, s) PROVE IInv'
  BY <1>3, ReadStep, CommitStep DEF HandlerStep
<1>4. CASE BackendStops \/ BrokerStops \/ BrokerStarts \/ Tick
  BY <1>4, BackendStopsStep, BrokerStep, TickStep
<1>5. CASE UNCHANGED vars
  <2>1. UNCHANGED <<broker, linked, place, left, request, handler, rows, faults, calm,
                    seen, abandoned>>
    BY <1>5 DEF vars, hostVars, history
  <2>2. TypeOK'
    BY <2>1 DEF IInv, TypeOK
  <2>3. ASSUME NEW h \in Hosts PROVE HostInv(h)'
    BY <2>1, UntouchedInv DEF IInv, Untouched
  <2> QED
    BY <2>2, <2>3 DEF IInv
<1> QED
  BY <1>1, <1>2, <1>3, <1>4, <1>5 DEF Next

\* The invariant the theorems below rest on holds in every state: what a handler has read
\* and how long a loop still waits agree with the ages of the rows.
THEOREM NodeInvariant == Spec => []IInv
<1>1. IInv /\ [Next]_vars => IInv'
  BY NextInv
<1> QED
  BY <1>1, InitInv, PTL DEF Spec

\* Every variable keeps its type, and a host has a request exactly while it waits for
\* the answer to a beat.
THEOREM NodeTypes == Spec => []TypeOK
<1>1. IInv => TypeOK
  BY DEF IInv
<1> QED
  BY <1>1, NodeInvariant, PTL

\* A host that nothing disturbs is counted by check_workers at every moment: its
\* heartbeat loop renews last_heartbeat before the window is over.
THEOREM CalmHosts == Spec => []CalmHostIsActive
<1>1. IInv => CalmHostIsActive
  <2> SUFFICES ASSUME IInv, NEW h \in Hosts, calm[h] = Settled
               PROVE  ActiveRows(h) # {}
    BY DEF CalmHostIsActive
  <2>1. rows[h] \in Seq(Ages) /\ left[h] \in Nat /\ FreshInv(h)
    BY DEF IInv, TypeOK, HostInv
  <2>2. DOMAIN rows[h] = 1..Len(rows[h]) /\ \A i \in 1..Len(rows[h]) : rows[h][i] \in Nat
    BY <2>1, LenProperties, ElementOfSeq DEF Ages
  <2>3. Due(h) \in Nat
    BY <2>1 DEF Due
  <2>4. PICK i \in 1..Len(rows[h]) : rows[h][i] + Due(h) <= Interval + 2 * Patience
    BY <2>1, <2>3 DEF FreshInv, Settled
  <2>5. rows[h][i] <= Window
    BY <2>2, <2>3, <2>4, WindowAssumption
  <2> QED
    BY <2>2, <2>5 DEF ActiveRows
<1> QED
  BY <1>1, NodeInvariant, PTL

\* /health says "up" only if the backend has looked at some beat within the window.
THEOREM SilentHosts == Spec => []SilentHostExpires
<1>1. IInv => SilentHostExpires
  <2> SUFFICES ASSUME IInv, NEW h \in Hosts, ActiveRows(h) # {}
               PROVE  seen[h] <= Window
    BY DEF SilentHostExpires, WorkersUp
  <2>1. rows[h] \in Seq(Ages) /\ seen[h] \in Nat /\ RowsInv(h)
    BY DEF IInv, TypeOK, HostInv, Ages
  <2>2. DOMAIN rows[h] = 1..Len(rows[h]) /\ \A i \in 1..Len(rows[h]) : rows[h][i] \in Nat
    BY <2>1, LenProperties, ElementOfSeq DEF Ages
  <2>3. PICK i \in 1..Len(rows[h]) : rows[h][i] <= Window
    BY <2>2 DEF ActiveRows
  <2> QED
    BY <2>1, <2>2, <2>3 DEF RowsInv
<1> QED
  BY <1>1, NodeInvariant, PTL

\* A host has one row unless it gave up on a beat before the backend had inserted it,
\* though node_heartbeat looks for the row and inserts it in two steps.
THEOREM SecondRows == Spec => []SecondRowNeedsTimeout
<1>1. IInv => SecondRowNeedsTimeout
  BY DEF IInv, HostInv, OnceInv, SecondRowNeedsTimeout
<1> QED
  BY <1>1, NodeInvariant, PTL
=============================================================================
