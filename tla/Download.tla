------------------------------ MODULE Download ------------------------------
(***************************************************************************)
(* Reading a file back while the object store changes under the reader.    *)
(* Three readers: GET /files/{id}/download (backend/app/main.py), which    *)
(* first looks for an endpoint that has each chunk and only then streams   *)
(* them; the download worker (chunk_recovery.py), which tries the          *)
(* endpoints of a chunk until one gives it; and GET /nodes/storage-chunks, *)
(* which reports the chunks of every endpoint.                             *)
(*                                                                         *)
(* The rest of the system is what a reader can see of it: chunks leave     *)
(* endpoints (a delete, a replaced node), come to endpoints (a repair, a   *)
(* late upload), and the status and the rows of the file change.           *)
(***************************************************************************)
EXTENDS ChunkStore, Sequences

CONSTANTS File,         \* the file that is read
          NumChunks,    \* its rows, chunk_index 0..NumChunks - 1
          MaxChanges,   \* bound on what happens to the store and the records
          MaxErrors     \* bound on failed storage calls

ASSUME FileAssumption == File \in StoredFiles
ASSUME NumChunksAssumption == NumChunks \in Nat \ {0}
ASSUME BoundsAssumption == MaxChanges \in Nat /\ MaxErrors \in Nat

Chunks == 0..NumChunks - 1

VARIABLES status,       \* files.status
          hasRows,      \* whether the chunk rows still exist
          changes, errors,
          reader,       \* "api", "worker" or "report"
          pc,           \* the next thing the reader does
          chunk,        \* the chunk it is at
          endpoint,     \* the endpoint it asks next
          failed,       \* last_error of the present chunk is set
          chosen,       \* chunk_endpoints: where each chunk was found
          sent,         \* the chunks delivered, in order
          listed,       \* <<e, c>>: the report lists chunk c for endpoint e
          down,         \* the endpoints the report shows as down
          answer,       \* how the request ended
          kept          \* history: <<e, c>> on the store ever since the request began

vars == <<objects, status, hasRows, changes, errors, reader, pc, chunk, endpoint, failed,
          chosen, sent, listed, down, answer, kept>>

Answers == {"none", "not ready", "no rows", "not found", "error", "broken", "whole", "report"}

TypeOK == /\ StoreTypeOK
          /\ status \in {"ready", "failed", "deleting", "deleted"}
          /\ hasRows \in BOOLEAN
          /\ changes \in 0..MaxChanges
          /\ errors \in 0..MaxErrors
          /\ reader \in {"api", "worker", "report"}
          /\ pc \in {"status", "rows", "stat", "stream", "recover", "survey", "done"}
          /\ chunk \in Chunks
          /\ endpoint \in Endpoints
          /\ failed \in BOOLEAN
          /\ chosen \in Seq(Endpoints)
          /\ Len(chosen) <= NumChunks
          /\ sent \in Seq(Chunks)
          /\ listed \subseteq Endpoints \X Chunks
          /\ down \subseteq Endpoints
          /\ answer \in Answers
          /\ answer = "none" <=> pc # "done"
          /\ kept \subseteq Endpoints \X Chunks

\* The upload is reported, so that every chunk is on some endpoint.
Init == /\ objects \in [Endpoints -> SUBSET ({File} \X Chunks)]
        /\ \A c \in Chunks : \E e \in Endpoints : Holds(e, File, c)
        /\ status = "ready"
        /\ hasRows = TRUE
        /\ changes = 0
        /\ errors = 0
        /\ \/ reader = "api" /\ pc = "status"
           \/ reader = "worker" /\ pc = "recover"
           \/ reader = "report" /\ pc = "rows"
        /\ chunk = 0
        /\ endpoint = 1
        /\ failed = FALSE
        /\ chosen = <<>>
        /\ sent = <<>>
        /\ listed = {}
        /\ down = {}
        /\ answer = "none"
        /\ kept = {p \in Endpoints \X Chunks : Holds(p[1], File, p[2])}

-----------------------------------------------------------------------------
(* The rest of the system. *)

Changes == changes < MaxChanges /\ changes' = changes + 1

reportVars == <<listed, down>>
readerVars == <<errors, reader, pc, chunk, endpoint, failed, chosen, sent, reportVars, answer>>

Leaves(e, c) == /\ Changes
                /\ Holds(e, File, c)
                /\ objects' = [objects EXCEPT ![e] = @ \ {<<File, c>>}]
                /\ kept' = kept \ {<<e, c>>}
                /\ UNCHANGED <<status, hasRows, readerVars>>

Comes(e, c) == /\ Changes
               /\ ~Holds(e, File, c)
               /\ Put(e, File, c)
               /\ UNCHANGED <<status, hasRows, kept, readerVars>>

\* A delete request, or a callback.
StatusChanges == /\ Changes
                 /\ status' \in {"ready", "failed", "deleting", "deleted"} \ {status}
                 /\ hasRows' = (hasRows /\ status' # "deleted")
                 /\ UNCHANGED <<objects, kept, readerVars>>

-----------------------------------------------------------------------------
(* The download endpoint. *)

storeVars == <<objects, status, hasRows, changes, kept, reader>>
downloadVars == <<failed, chosen, sent>>

Answer(a) == pc' = "done" /\ answer' = a

CheckStatus == /\ pc = "status"
               /\ IF status = "ready" THEN pc' = "rows" /\ UNCHANGED answer
                                      ELSE Answer("not ready")
               /\ UNCHANGED <<storeVars, reportVars, errors, chunk, endpoint, failed, chosen, sent>>

\* So begins the report too, whatever the status.
ReadRows == /\ pc = "rows"
            /\ IF hasRows THEN /\ pc' = IF reader = "report" THEN "survey" ELSE "stat"
                               /\ UNCHANGED answer
               ELSE Answer("no rows")
            /\ UNCHANGED <<storeVars, reportVars, errors, chunk, endpoint, failed, chosen, sent>>

\* Mutant: a chunk that is found is looked for on the other endpoints too.
FoundEverywhere ==
    /\ chosen' = Append(chosen, endpoint)
    /\ failed' = FALSE
    /\ IF endpoint < NumEndpoints
       THEN endpoint' = endpoint + 1 /\ UNCHANGED <<chunk, pc, answer>>
       ELSE /\ endpoint' = 1
            /\ IF chunk + 1 < NumChunks THEN chunk' = chunk + 1 /\ UNCHANGED <<pc, answer>>
               ELSE chunk' = 0 /\ pc' = "stream" /\ UNCHANGED answer

\* The present chunk has been found: the search goes on with the next one.
Found == /\ chosen' = Append(chosen, endpoint)
         /\ endpoint' = 1
         /\ failed' = FALSE
         /\ IF chunk + 1 < NumChunks THEN chunk' = chunk + 1 /\ UNCHANGED <<pc, answer>>
            ELSE chunk' = 0 /\ pc' = "stream" /\ UNCHANGED answer

\* Mutant: the first endpoint that lacks the chunk ends the search.
NotHereAtAll(error) == /\ Answer("not found")
                       /\ UNCHANGED <<chunk, endpoint, failed, chosen>>

\* The present endpoint has not got the chunk, or did not say: the next one is asked.
\* After the last, an error beats "not found".
NotHere(error) ==
    /\ failed' = (failed \/ error)
    /\ IF endpoint < NumEndpoints THEN endpoint' = endpoint + 1 /\ UNCHANGED <<pc, answer>>
       ELSE UNCHANGED endpoint /\ Answer(IF failed' THEN "error" ELSE "not found")
    /\ UNCHANGED <<chunk, chosen>>

Stat == /\ pc = "stat"
        /\ IF Holds(endpoint, File, chunk) THEN Found ELSE NotHere(FALSE)
        /\ UNCHANGED <<storeVars, reportVars, errors, sent>>

StatFails == /\ pc = "stat"
             /\ errors < MaxErrors
             /\ errors' = errors + 1
             /\ NotHere(TRUE)
             /\ UNCHANGED <<storeVars, reportVars, sent>>

\* Mutant: the stream asks the endpoint of the last chunk for all of them.
SourceLast == chosen[Len(chosen)]

Source == chosen[chunk + 1]

\* stream_file gets the next chunk where it was found; if it is not there any more
\* the exception cuts the response that has begun.
Stream == /\ pc = "stream"
          /\ IF ~Holds(Source, File, chunk)
             THEN Answer("broken") /\ UNCHANGED <<chunk, sent>>
             ELSE /\ sent' = Append(sent, chunk)
                  /\ IF chunk + 1 < NumChunks THEN chunk' = chunk + 1 /\ UNCHANGED <<pc, answer>>
                                              ELSE Answer("whole") /\ UNCHANGED chunk
          /\ UNCHANGED <<storeVars, reportVars, errors, endpoint, failed, chosen>>

StreamFails == /\ pc = "stream"
               /\ errors < MaxErrors
               /\ errors' = errors + 1
               /\ Answer("broken")
               /\ UNCHANGED <<storeVars, reportVars, chunk, endpoint, failed, chosen, sent>>

-----------------------------------------------------------------------------
(* The download worker: recover_bytes over the chunks in order of their index. *)

\* Mutant: after the last endpoint the first is asked again.
NextEndpointForEver == /\ endpoint' = (endpoint % NumEndpoints) + 1
                       /\ UNCHANGED <<pc, answer, chunk, sent>>

\* with_client goes on to the next endpoint and raises after the last.
NextEndpoint == /\ IF endpoint < NumEndpoints
                   THEN endpoint' = endpoint + 1 /\ UNCHANGED <<pc, answer>>
                   ELSE UNCHANGED endpoint /\ Answer("error")
                /\ UNCHANGED <<chunk, sent>>

\* Mutant: the next chunk is asked of the endpoint that had this one, and those after.
RecoverOnwards == /\ pc = "recover"
                  /\ IF Holds(endpoint, File, chunk)
                     THEN /\ sent' = Append(sent, chunk)
                          /\ UNCHANGED endpoint
                          /\ IF chunk + 1 < NumChunks
                             THEN chunk' = chunk + 1 /\ UNCHANGED <<pc, answer>>
                             ELSE Answer("whole") /\ UNCHANGED chunk
                     ELSE NextEndpoint
                  /\ UNCHANGED <<storeVars, reportVars, errors, failed, chosen>>

Recover == /\ pc = "recover"
           /\ IF Holds(endpoint, File, chunk)
              THEN /\ sent' = Append(sent, chunk)
                   /\ endpoint' = 1
                   /\ IF chunk + 1 < NumChunks
                      THEN chunk' = chunk + 1 /\ UNCHANGED <<pc, answer>>
                      ELSE Answer("whole") /\ UNCHANGED chunk
              ELSE NextEndpoint
           /\ UNCHANGED <<storeVars, reportVars, errors, failed, chosen>>

RecoverFails == /\ pc = "recover"
                /\ errors < MaxErrors
                /\ errors' = errors + 1
                /\ NextEndpoint
                /\ UNCHANGED <<storeVars, reportVars, failed, chosen>>

-----------------------------------------------------------------------------
(* The report: every known chunk on every endpoint in turn. *)

\* The survey of the present endpoint is over.
Surveyed == /\ chunk' = 0
            /\ IF endpoint < NumEndpoints
               THEN endpoint' = endpoint + 1 /\ UNCHANGED <<pc, answer>>
               ELSE UNCHANGED endpoint /\ Answer("report")

\* Mutant: the first chunk an endpoint lacks ends its survey.
SurveyToFirstGap ==
    /\ pc = "survey"
    /\ IF Holds(endpoint, File, chunk)
       THEN listed' = listed \union {<<endpoint, chunk>>} ELSE UNCHANGED listed
    /\ IF chunk + 1 < NumChunks /\ Holds(endpoint, File, chunk)
       THEN chunk' = chunk + 1 /\ UNCHANGED <<endpoint, pc, answer>>
       ELSE Surveyed
    /\ UNCHANGED <<storeVars, downloadVars, down, errors>>

Survey == /\ pc = "survey"
          /\ IF Holds(endpoint, File, chunk)
             THEN listed' = listed \union {<<endpoint, chunk>>} ELSE UNCHANGED listed
          /\ IF chunk + 1 < NumChunks
             THEN chunk' = chunk + 1 /\ UNCHANGED <<endpoint, pc, answer>>
             ELSE Surveyed
          /\ UNCHANGED <<storeVars, downloadVars, down, errors>>

\* An endpoint that fails once is reported down, without its chunks.
SurveyFails == /\ pc = "survey"
               /\ errors < MaxErrors
               /\ errors' = errors + 1
               /\ listed' = {p \in listed : p[1] # endpoint}
               /\ down' = down \union {endpoint}
               /\ Surveyed
               /\ UNCHANGED <<storeVars, downloadVars>>

-----------------------------------------------------------------------------

Environment == \/ \E e \in Endpoints, c \in Chunks : Leaves(e, c) \/ Comes(e, c)
               \/ StatusChanges

Read == CheckStatus \/ ReadRows \/ Stat \/ Stream \/ Recover \/ Survey

ReadFault == StatFails \/ StreamFails \/ RecoverFails \/ SurveyFails

Next == Environment \/ Read \/ ReadFault

\* The reader's thread runs and every call it makes returns or times out.
Spec == Init /\ [][Next]_vars /\ WF_vars(Read)

-----------------------------------------------------------------------------
(* Properties. *)

Kept(c) == \E e \in Endpoints : <<e, c>> \in kept

\* Both readers find a chunk that stays on one endpoint all the while they look,
\* however copies come and go on the others: a chunk reported missing (or, with no
\* failed call, not recovered) was on no endpoint throughout.
MissingWasMoved ==
    /\ answer = "not found" => \E c \in Chunks : ~Kept(c)
    /\ answer = "error" /\ errors = 0 => \E c \in Chunks : ~Kept(c)

\* A stream that has begun breaks off only by a failed call or because a chunk has left
\* the very endpoint it was found on (the endpoints are chosen before the first byte is
\* sent), or had come there only while the request was under way; the client then has a
\* beginning of the file and no more.
BrokenLostItsSource ==
    answer = "broken" =>
        /\ errors > 0 \/ \E c \in Chunks : <<chosen[c + 1], c>> \notin kept
        /\ Len(sent) < NumChunks /\ \A k \in 1..Len(sent) : sent[k] = k - 1

\* The report lists, for every endpoint it shows as up, each chunk that stayed there
\* all the while: one that moves from an endpoint not yet surveyed to one already
\* surveyed may be on no list, and only such a chunk.
ReportMissesOnlyMoved ==
    answer = "report" =>
        \A p \in kept : p[1] \in down \/ p \in listed

\* Every request is answered: the search over chunks and endpoints comes to an end.
Answered == <>(answer # "none")
=============================================================================
