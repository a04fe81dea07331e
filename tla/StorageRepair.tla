--------------------------- MODULE StorageRepair ---------------------------
(***************************************************************************)
(* The repair of the object store (backend/app/main.py): a daemon thread   *)
(* that wakes up again and again, and threads that POST                    *)
(* /internal/storage/repair starts, each copying to its target endpoints   *)
(* the chunks that have rows in the database and are missing there.        *)
(*                                                                         *)
(* A job reads the rows once and works from that snapshot, one storage     *)
(* call at a time, while uploads and deletes go on.  Nobody reads its      *)
(* counters, so they are left out.  The race of an upload with the delete  *)
(* of the same file is in RudyDrive; here a delete begins after the upload *)
(* of its file is over.  A bucket that does not exist answers stat with    *)
(* NoSuchKey and refuses put and get.                                      *)
(***************************************************************************)
EXTENDS ChunkStore, Sequences, FiniteSetsExt, Functions

CONSTANTS ChunkOrder,   \* all chunks <<f, c>>, by file id and chunk index
          Daemon,       \* the thread _storage_repair_daemon
          Requests,     \* the threads of POST /internal/storage/repair
          MaxErrors,    \* bound on calls that fail and on backend restarts
          MaxWipes      \* bound on storage nodes replaced by empty ones

Chunks == Range(ChunkOrder)

ASSUME ChunkOrderAssumption == /\ ChunkOrder \in Seq(StoredFiles \X Nat)
                               /\ IsInjective(ChunkOrder)
ASSUME DaemonAssumption == Daemon \notin Requests
ASSUME BoundsAssumption == MaxErrors \in Nat /\ MaxWipes \in Nat

Threads == Requests \union {Daemon}

VARIABLES bucket,       \* per endpoint, whether the bucket exists
          rows,         \* the chunks that have a row in file_chunks
          upload,       \* per file, where its upload stands
          storing,      \* per file, the position in ChunkOrder its upload has come to
          removing,     \* per file, the endpoint its delete cleans next, 0 if none runs
          deleted,      \* the files whose delete has removed the rows
          job,          \* per thread, where its repair stands
          errors, wipes,
          stale,        \* history: <<r, f>> when the job of r has read rows of f since removed
          calm          \* history: nothing has disturbed the daemon's job since it began

storeVars == <<objects, bucket>>
fileVars == <<rows, upload, storing, removing, deleted>>
vars == <<storeVars, fileVars, job, errors, wipes, stale, calm>>

\* known    the chunks read from the database
\* targets  the endpoints left to repair, the present one first
\* at       the position in ChunkOrder of the chunk in hand
\* source   the endpoint to copy from
Job == [pc : {"waiting", "stat", "get", "put", "commit", "over", "dead"},
        known : SUBSET Chunks, targets : Seq(Endpoints), at : Nat, source : Endpoints]

At(pc, known, targets, at, source) ==
    [pc |-> pc, known |-> known, targets |-> targets, at |-> at, source |-> source]

Without(pc) == At(pc, {}, <<>>, 0, 1)

Working(r) == job[r].pc \in {"stat", "get", "put"}

\* The positions after the i-th of the chunks in S; the least of them is the next.
Later(S, i) == {j \in DOMAIN ChunkOrder : j > i /\ ChunkOrder[j] \in S}

TypeOK == /\ StoreTypeOK
          /\ bucket \in [Endpoints -> BOOLEAN]
          /\ \A e \in Endpoints : objects[e] # {} => bucket[e]
          /\ rows \subseteq Chunks
          /\ upload \in [StoredFiles -> {"none", "rows", "storing", "over"}]
          /\ storing \in [StoredFiles -> Nat]
          /\ removing \in [StoredFiles -> 0..NumEndpoints + 1]
          /\ deleted \subseteq StoredFiles
          /\ job \in [Threads -> Job]
          /\ \A r \in Threads : Working(r) => /\ job[r].at \in Later(job[r].known, 0)
                                              /\ job[r].targets # <<>>
          /\ \A r \in Threads : job[r].pc \in {"get", "put"} =>
                                    job[r].source # Head(job[r].targets)
          /\ errors \in 0..MaxErrors
          /\ wipes \in 0..MaxWipes
          /\ stale \subseteq Threads \X StoredFiles
          /\ calm \in BOOLEAN

Init == /\ StoreInit
        /\ bucket = [e \in Endpoints |-> FALSE]
        /\ rows = {}
        /\ upload = [f \in StoredFiles |-> "none"]
        /\ storing = [f \in StoredFiles |-> 0]
        /\ removing = [f \in StoredFiles |-> 0]
        /\ deleted = {}
        /\ job = [r \in Threads |-> Without("waiting")]
        /\ errors = 0
        /\ wipes = 0
        /\ stale = {}
        /\ calm = FALSE

Fails == errors < MaxErrors /\ errors' = errors + 1

-----------------------------------------------------------------------------
(* The rest of the system, as far as the store and the rows see it. *)

ChunksOf(f) == {o \in Chunks : o[1] = f}

ToStore(f) == Later(ChunksOf(f), storing[f])

\* create_file commits the rows.
AddRows(f) == /\ upload[f] = "none"
              /\ upload' = [upload EXCEPT ![f] = "rows"]
              /\ rows' = rows \union ChunksOf(f)
              /\ UNCHANGED <<storeVars, storing, removing, deleted, job, errors, wipes,
                             stale, calm>>

\* ensure_bucket_all, which no failure stops.  One fault may take any endpoints along.
EnsureBuckets(f) == /\ upload[f] = "rows"
                    /\ upload' = [upload EXCEPT ![f] = "storing"]
                    /\ \/ bucket' = [e \in Endpoints |-> TRUE] /\ UNCHANGED errors
                       \/ Fails /\ \E failing \in SUBSET Endpoints :
                              bucket' = [e \in Endpoints |-> e \notin failing \/ bucket[e]]
                    /\ calm' = FALSE
                    /\ UNCHANGED <<objects, rows, storing, removing, deleted, job, wipes,
                                   stale>>

UploadOver(f) == /\ upload' = [upload EXCEPT ![f] = "over"]
                 /\ storing' = [storing EXCEPT ![f] = 0]

\* store_bytes puts the next chunk on every endpoint with put_object_all.  One that has
\* no bucket, or fails, does not get it, or got it and its answer was lost; when no
\* endpoint answers that it has it, put_object_all raises and the upload has failed; a
\* worker that stops leaves the same behind.
UploadChunk(f) ==
    LET next == Min(ToStore(f))
        o == ChunkOrder[next]
        open == {e \in Endpoints : bucket[e]}
    IN  /\ upload[f] = "storing"
        /\ ToStore(f) # {}
        /\ \E got \in SUBSET open :
             /\ objects' = [e \in Endpoints |-> IF e \in got THEN objects[e] \union {o}
                                                              ELSE objects[e]]
             /\ IF got = open THEN UNCHANGED errors \/ Fails ELSE Fails
             /\ \/ /\ got # {}
                   /\ storing' = [storing EXCEPT ![f] = next]
                   /\ UNCHANGED upload
                \/ /\ errors' # errors \/ open = {}
                   /\ UploadOver(f)
        /\ calm' = FALSE
        /\ UNCHANGED <<bucket, rows, removing, deleted, job, wipes, stale>>

UploadEnds(f) == /\ upload[f] = "storing"
                 /\ ToStore(f) = {}
                 /\ UploadOver(f)
                 /\ UNCHANGED <<storeVars, rows, removing, deleted, job, errors, wipes,
                                stale, calm>>

Knows(r, f) == Working(r) /\ \E o \in job[r].known : o[1] = f

\* worker-delete takes the message of f.
DeleteStarts(f) ==
    /\ upload[f] = "over"
    /\ removing[f] = 0
    /\ f \notin deleted
    /\ removing' = [removing EXCEPT ![f] = 1]
    /\ UNCHANGED <<storeVars, rows, upload, storing, deleted, job, errors, wipes, stale, calm>>

\* delete_prefix_all on the next endpoint; what it fails to remove stays.
DeletePrefix(f) ==
    /\ removing[f] \in Endpoints
    /\ removing' = [removing EXCEPT ![f] = @ + 1]
    /\ \/ RemovePrefix(removing[f], f) /\ UNCHANGED errors
       \/ RemoveFails(removing[f], f) /\ Fails
    /\ calm' = FALSE
    /\ UNCHANGED <<bucket, rows, upload, storing, deleted, job, wipes, stale>>

\* task_success of the delete removes the rows.
DeleteSucceeds(f) ==
    /\ removing[f] = NumEndpoints + 1
    /\ removing' = [removing EXCEPT ![f] = 0]
    /\ deleted' = deleted \union {f}
    /\ rows' = {o \in rows : o[1] # f}
    /\ stale' = stale \union {<<r, f>> : r \in {r \in Threads : Knows(r, f)}}
    /\ UNCHANGED <<storeVars, upload, storing, job, errors, wipes, calm>>

\* The node behind endpoint e is replaced by an empty one.
Wipe(e) == /\ wipes < MaxWipes
           /\ wipes' = wipes + 1
           /\ bucket[e]
           /\ bucket' = [bucket EXCEPT ![e] = FALSE]
           /\ objects' = [objects EXCEPT ![e] = {}]
           /\ calm' = FALSE
           /\ UNCHANGED <<fileVars, job, errors, stale>>

-----------------------------------------------------------------------------
(* One repair job, in thread r. *)

chunk(r) == ChunkOrder[job[r].at]
target(r) == Head(job[r].targets)

Moves(r, j) == job' = [job EXCEPT ![r] = j]

\* The jobs of R are over.
Forgets(R) == stale' = {p \in stale : p[1] \notin R}

\* The daemon sleeps and begins again, a request's thread ends.
Ended(r) == Without(IF r = Daemon THEN "waiting" ELSE "over")

\* An exception leaves _run_storage_repair_job: it ends the thread.
Died(r) == Without(IF r = Daemon THEN "dead" ELSE "over")

\* The repair of targets begins with the first chunk that is known.
FirstChunk(known, targets) == At("stat", known, targets, Min(Later(known, 0)), 1)

AfterTarget(r) == IF Len(job[r].targets) > 1
                  THEN FirstChunk(job[r].known, Tail(job[r].targets))
                  ELSE At("commit", job[r].known, <<>>, 0, 1)

\* What is left of the known chunks.
Rest(r) == Later(job[r].known, job[r].at)

\* Mutant: the break that follows a copy leaves the loop over the chunks.
AfterChunkBreaking(r) == IF Rest(r) # {} /\ job[r].pc # "put"
                         THEN [job[r] EXCEPT !.pc = "stat", !.at = Min(Rest(r))]
                         ELSE AfterTarget(r)

AfterChunk(r) == IF Rest(r) # {}
                 THEN At("stat", job[r].known, job[r].targets, Min(Rest(r)), 1)
                 ELSE AfterTarget(r)

\* The source after endpoint e: the next candidate that is not the target.
SourcesAfter(r, e) == {s \in Endpoints : s > e /\ s # target(r)}

\* Mutants: only the first source is asked; so is the target.
TrySourceOnce(r, e) ==
    IF e = 0 /\ SourcesAfter(r, e) # {}
    THEN [job[r] EXCEPT !.pc = "get", !.source = Min(SourcesAfter(r, e))]
    ELSE AfterChunk(r)
TrySourceAny(r, e) ==
    IF e < NumEndpoints THEN [job[r] EXCEPT !.pc = "get", !.source = e + 1] ELSE AfterChunk(r)

\* Go on with the source after e; without one the chunk is skipped.
TrySource(r, e) ==
    IF SourcesAfter(r, e) # {}
    THEN [job[r] EXCEPT !.pc = "get", !.source = Min(SourcesAfter(r, e))]
    ELSE AfterChunk(r)

\* The endpoints a request may name: none for all of them, one, or one that is not
\* configured and is passed over.
Wanted(r) == {[e \in Endpoints |-> e]}
             \union (IF r = Daemon THEN {} ELSE {<<e>> : e \in Endpoints} \union {<<>>})

\* Mutant: the snapshot is every chunk that ever had a row.
CollectAll(r) ==
    /\ job[r].pc = "waiting"
    /\ \E targets \in Wanted(r) :
         LET known == {o \in Chunks : upload[o[1]] # "none"}
         IN  Moves(r, IF known = {} \/ targets = <<>> THEN Without("commit")
                      ELSE FirstChunk(known, targets))
    /\ calm' = (r = Daemon \/ calm)
    /\ UNCHANGED <<storeVars, fileVars, errors, wipes, stale>>

\* _collect_known_chunks, and the first target.
Collect(r) ==
    /\ job[r].pc = "waiting"
    /\ \E targets \in Wanted(r) :
         Moves(r, IF rows = {} \/ targets = <<>> THEN Without("commit")
                  ELSE FirstChunk(rows, targets))
    /\ calm' = (r = Daemon \/ calm)
    /\ UNCHANGED <<storeVars, fileVars, errors, wipes, stale>>

\* The database cannot be read, or the commit at the end fails.
DatabaseFails(r) == /\ job[r].pc \in {"waiting", "commit"}
                    /\ Fails
                    /\ Moves(r, Died(r))
                    /\ Forgets({r})
                    /\ calm' = (r # Daemon /\ calm)
                    /\ UNCHANGED <<storeVars, fileVars, wipes>>

Commit(r) == /\ job[r].pc = "commit"
             /\ Moves(r, Ended(r))
             /\ Forgets({r})
             /\ calm' = (r # Daemon /\ calm)
             /\ UNCHANGED <<storeVars, fileVars, errors, wipes>>

Stat(r) == /\ job[r].pc = "stat"
           /\ Moves(r, IF chunk(r) \in objects[target(r)] THEN AfterChunk(r)
                                                          ELSE TrySource(r, 0))
           /\ UNCHANGED <<storeVars, fileVars, errors, wipes, stale, calm>>

\* Another S3 error leaves the chunk to the next round; no answer at all leaves the
\* whole endpoint.
StatFails(r) == /\ job[r].pc = "stat"
                /\ Fails
                /\ Moves(r, AfterChunk(r)) \/ Moves(r, AfterTarget(r))
                /\ calm' = (r # Daemon /\ calm)
                /\ UNCHANGED <<storeVars, fileVars, wipes, stale>>

Get(r) == /\ job[r].pc = "get"
          /\ Moves(r, IF chunk(r) \in objects[job[r].source]
                      THEN [job[r] EXCEPT !.pc = "put"]
                      ELSE TrySource(r, job[r].source))
          /\ UNCHANGED <<storeVars, fileVars, errors, wipes, stale, calm>>

PutCopy(r) ==
    /\ job[r].pc = "put"
    /\ IF bucket[target(r)]
       THEN Put(target(r), chunk(r)[1], chunk(r)[2]) /\ Moves(r, AfterChunk(r))
       ELSE UNCHANGED objects /\ Moves(r, TrySource(r, job[r].source))
    /\ calm' = (r = Daemon /\ calm)
    /\ UNCHANGED <<bucket, fileVars, errors, wipes, stale>>

\* get or put raises: the next source is tried.
CopyFails(r) ==
    /\ job[r].pc \in {"get", "put"}
    /\ Fails
    /\ IF job[r].pc = "put" /\ bucket[target(r)]
       THEN PutFails(target(r), chunk(r)[1], chunk(r)[2])
       ELSE UNCHANGED objects
    /\ Moves(r, TrySource(r, job[r].source))
    /\ calm' = FALSE
    /\ UNCHANGED <<bucket, fileVars, wipes, stale>>

\* The backend process is started again: daemon threads die with it, and the
\* startup hook starts a new _storage_repair_daemon.
Restart == /\ Fails
           /\ job' = [r \in Threads |-> IF r = Daemon THEN Without("waiting")
                                        ELSE IF job[r].pc = "waiting" THEN job[r]
                                        ELSE Without("over")]
           /\ Forgets(Threads)
           /\ calm' = FALSE
           /\ UNCHANGED <<storeVars, fileVars, wipes>>

-----------------------------------------------------------------------------

FileStep(f) == \/ AddRows(f) \/ EnsureBuckets(f) \/ UploadChunk(f) \/ UploadEnds(f)
               \/ DeleteStarts(f) \/ DeletePrefix(f) \/ DeleteSucceeds(f)

RepairStep(r) == Collect(r) \/ Stat(r) \/ Get(r) \/ PutCopy(r) \/ Commit(r)

RepairFault(r) == DatabaseFails(r) \/ StatFails(r) \/ CopyFails(r)

Next == \/ \E f \in StoredFiles : FileStep(f)
        \/ \E e \in Endpoints : Wipe(e)
        \/ \E r \in Threads : RepairStep(r) \/ RepairFault(r)
        \/ Restart

\* The daemon's thread runs, wakes up, and every call it makes returns or times
\* out.  Nothing is assumed of the requests, the uploads or the deletes.
Fairness == WF_vars(RepairStep(Daemon))

Spec == Init /\ [][Next]_vars /\ Fairness

-----------------------------------------------------------------------------
(* Safety. *)

\* The job of r puts the chunk in hand on endpoint e.
Copies(r, e) == job[r].pc = "put" /\ target(r) = e /\ job'[r] # job[r]

\* Repair works from the rows, so that an object of a deleted file, even one that
\* the delete failed to remove, is copied to no further endpoint, except by a job
\* that read the rows before the delete removed them.
OnlyStaleJobsResurrect ==
    [][\A f \in deleted : \A e \in Endpoints :
           \/ OfFile(e, f)' \subseteq OfFile(e, f)
           \/ \E r \in Threads : <<r, f>> \in stale /\ Copies(r, e)]_vars

\* The daemon's job has been through endpoint e.
Repaired(e) == /\ job[Daemon].pc \in {"stat", "get", "put", "commit"}
               /\ e \notin Range(job[Daemon].targets)

\* One round is enough: when nothing disturbs the daemon's job, each endpoint it
\* has been through holds every known chunk that any endpoint holds.
OneRoundRestores ==
    \A e \in Endpoints :
        calm /\ Repaired(e) /\ bucket[e] =>
            \A o \in job[Daemon].known :
                (\E s \in Endpoints : o \in objects[s]) => o \in objects[e]

-----------------------------------------------------------------------------
(* What the documents say and the code does not do. *)

\* worker-delete removes the file from MinIO: a delete that nothing went wrong in
\* leaves no object behind.  A repair may put a chunk back on an endpoint that is
\* already clean, from one that is not, and there it stays until somebody asks to
\* delete the file a second time.
DeletedStaysDeleted ==
    \A f \in deleted : errors = 0 => \A e \in Endpoints : OfFile(e, f) = {}

-----------------------------------------------------------------------------
(* Liveness. *)

\* As long as the daemon lives, each replaced or half-written endpoint gets back
\* what any other endpoint still holds, once it has a bucket to put it in.
StoreConverges ==
    <>[](\/ job[Daemon].pc = "dead"
         \/ \A o \in rows : (\E s \in Endpoints : o \in objects[s]) =>
                \A e \in Endpoints : bucket[e] => o \in objects[e])
=============================================================================
