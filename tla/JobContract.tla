---------------------------- MODULE JobContract ----------------------------
(***************************************************************************)
(* What the queue and its workers promise the backend about one accepted   *)
(* message, whatever connections break and processes die: the handler ends *)
(* well at least once, or it has failed on every retry from 0 to the       *)
(* limit before the message is given up.  No accepted message is forgotten *)
(* and none is given up early.                                             *)
(*                                                                         *)
(* JobQueue implements this specification.                                 *)
(***************************************************************************)
EXTENDS Naturals

CONSTANTS Jobs,         \* the messages the backend may publish
          MaxRetries    \* QUEUE_MAX_RETRIES

VARIABLES published,    \* jobs the broker has accepted
          succeeded,    \* jobs whose handler returned at least once
          exhausted,    \* jobs given up after the last retry
          failedAt      \* per job, the retry numbers whose attempt raised

contractVars == <<published, succeeded, exhausted, failedAt>>

Init == /\ published = {}
        /\ succeeded = {}
        /\ exhausted = {}
        /\ failedAt = [j \in Jobs |-> {}]

Accept(j) == /\ j \notin published
             /\ published' = published \union {j}
             /\ UNCHANGED <<succeeded, exhausted, failedAt>>

\* Attempt r is only made once every earlier attempt has failed.
AttemptFails(j, r) == /\ j \in published
                      /\ 0..r - 1 \subseteq failedAt[j]
                      /\ failedAt' = [failedAt EXCEPT ![j] = @ \union {r}]
                      /\ UNCHANGED <<published, succeeded, exhausted>>

Succeed(j) == /\ j \in published
              /\ succeeded' = succeeded \union {j}
              /\ UNCHANGED <<published, exhausted, failedAt>>

GiveUp(j) == /\ j \in published
             /\ failedAt[j] = 0..MaxRetries
             /\ exhausted' = exhausted \union {j}
             /\ UNCHANGED <<published, succeeded, failedAt>>

Attempt(j) == \/ \E r \in 0..MaxRetries : AttemptFails(j, r)
              \/ Succeed(j)
              \/ GiveUp(j)

Next == \E j \in Jobs : Accept(j) \/ Attempt(j)

\* Progress on a job that is neither done nor given up.
Settle(j) == j \notin succeeded \union exhausted /\ Attempt(j)

Spec == Init /\ [][Next]_contractVars
             /\ \A j \in Jobs : WF_contractVars(Settle(j))
=============================================================================
