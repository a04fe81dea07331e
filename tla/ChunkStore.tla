----------------------------- MODULE ChunkStore -----------------------------
(***************************************************************************)
(* The MinIO endpoints and what one call on one of them does.  MinIO is    *)
(* external; the order in which the callers go through the endpoints is in *)
(* the modules that model them.  An object is named <file id>/chunk_<n>,   *)
(* here the pair <<f, n>>; its content is the chunk of that name and never *)
(* changes.                                                                *)
(***************************************************************************)
EXTENDS Naturals

CONSTANTS StoredFiles,      \* the file ids that prefix object names
          NumEndpoints      \* the configured endpoints are 1..NumEndpoints, in order

ASSUME NumEndpointsAssumption == NumEndpoints \in Nat \ {0}

Endpoints == 1..NumEndpoints

VARIABLE objects            \* per endpoint, the objects it stores

StoreTypeOK == objects \in [Endpoints -> SUBSET (StoredFiles \X Nat)]

StoreInit == objects = [e \in Endpoints |-> {}]

OfFile(e, f) == {o \in objects[e] : o[1] = f}

Holds(e, f, c) == <<f, c>> \in objects[e]

Put(e, f, c) == objects' = [objects EXCEPT ![e] = @ \union {<<f, c>>}]

\* put_object raises: the endpoint refused it, or stored it and the answer was lost.
PutFails(e, f, c) == UNCHANGED objects \/ Put(e, f, c)

\* list_objects under the prefix "<f>/" and remove_object for each.  A put between
\* the two is the same as one after both, so they are one step.
RemovePrefix(e, f) == objects' = [objects EXCEPT ![e] = @ \ OfFile(e, f)]

\* Listing or removing raises part of the way through.
RemoveFails(e, f) ==
    \E removed \in SUBSET OfFile(e, f) :
        objects' = [objects EXCEPT ![e] = @ \ removed]
=============================================================================
