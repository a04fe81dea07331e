------------------------ MODULE StorageRepairProofs ------------------------
(***************************************************************************)
(* Theorems about StorageRepair for any endpoints, files, chunks, requests *)
(* and numbers of faults.                                                  *)
(***************************************************************************)
EXTENDS StorageRepair, SequenceTheorems, FiniteSetTheorems, WellFoundedInduction, TLAPS

-----------------------------------------------------------------------------
(* Least elements and the first of a sequence. *)

LEMMA LeastOfNats ==
    ASSUME NEW S \in SUBSET Nat, S # {}
    PROVE  Min(S) \in S /\ \A x \in S : Min(S) <= x
<1> DEFINE Below == {1..x : x \in S}
<1>1. Below \subseteq FiniteSubsetsOf(Nat) /\ Below # {}
  <2>1. \A x \in S : 1..x \in SUBSET Nat /\ IsFiniteSet(1..x)
    BY FS_Interval
  <2> QED
    BY <2>1 DEF FiniteSubsetsOf
<1>2. PICK B \in Below : \A C \in Below : <<C, B>> \notin StrictSubsetOrdering(Nat)
  <2> HIDE DEF Below
  <2> QED
    BY <1>1, WFMin, FS_StrictSubsetOrderingWellFounded
<1>3. PICK m \in S : B = 1..m
  BY <1>2
<1>4. ASSUME NEW x \in S, x < m PROVE FALSE
  <2>1. <<1..x, 1..m>> \notin StrictSubsetOrdering(Nat)
    BY <1>2, <1>3
  <2>2. 1..x \subseteq 1..m /\ m \in 1..m /\ m \notin 1..x
    BY <1>4
  <2>3. 1..x \in SUBSET Nat /\ 1..m \in SUBSET Nat /\ 1..x # 1..m
    BY <2>2
  <2> QED
    BY <2>1, <2>2, <2>3 DEF StrictSubsetOrdering
<1>5. \A x \in S : m <= x
  BY <1>4
<1> QED
  BY <1>5 DEF Min

LEMMA HeadAndTail ==
    ASSUME NEW S, NEW s \in Seq(S), s # <<>>
    PROVE  /\ Head(s) \in S /\ Tail(s) \in Seq(S)
           /\ Range(s) = {Head(s)} \union Range(Tail(s))
           /\ Len(s) \in Nat \ {0}
           /\ Len(s) > 1 <=> Tail(s) # <<>>
<1>1. /\ Head(s) = s[1] /\ Head(s) \in S /\ Tail(s) \in Seq(S)
      /\ Len(s) \in Nat \ {0}
      /\ Len(Tail(s)) = Len(s) - 1
      /\ \A i \in 1..Len(Tail(s)) : Tail(s)[i] = s[i + 1]
      /\ DOMAIN s = 1..Len(s)
      /\ DOMAIN Tail(s) = 1..Len(Tail(s))
  BY HeadTailProperties, LenProperties, EmptySeq
<1>2. Range(Tail(s)) \subseteq Range(s)
  BY <1>1 DEF Range
<1>3. Head(s) \in Range(s)
  BY <1>1 DEF Range
<1>4. ASSUME NEW x \in Range(s), x # Head(s) PROVE x \in Range(Tail(s))
  <2>1. PICK i \in 1..Len(s) : x = s[i]
    BY <1>1 DEF Range
  <2>2. i - 1 \in 1..Len(Tail(s)) /\ Tail(s)[i - 1] = x
    BY <1>1, <1>4, <2>1
  <2> QED
    BY <1>1, <2>2 DEF Range
<1>5. Len(s) > 1 <=> Tail(s) # <<>>
  <2>1. Tail(s) = <<>> => Len(Tail(s)) = 0
    BY EmptySeq
  <2>2. Tail(s) # <<>> => Len(Tail(s)) \in Nat \ {0}
    BY <1>1, EmptySeq
  <2> QED
    BY <1>1, <2>1, <2>2
<1> QED
  BY <1>1, <1>2, <1>3, <1>4, <1>5

-----------------------------------------------------------------------------
(* The inductive invariant. *)

\* A record of a job that the program can be in.
JobOK(j) ==
    /\ j \in Job
    /\ j.pc \in {"stat", "get", "put"} => j.at \in Later(j.known, 0) /\ j.targets # <<>>
    /\ j.pc \in {"get", "put"} => j.source # Head(j.targets)

\* A delete begins after the upload is over, and a deleted file has no rows.
FileOrder(f) ==
    /\ removing[f] # 0 => upload[f] = "over"
    /\ f \in deleted => /\ upload[f] = "over"
                        /\ removing[f] = 0
                        /\ \A o \in rows : o[1] # f

\* A job that still knows rows of a deleted file read them before they went.
StaleInv == \A r \in Threads : \A f \in deleted : Knows(r, f) => <<r, f>> \in stale

\* Endpoint e has what any endpoint has of the object o.
Copied(store, o, e) == (\E s \in Endpoints : o \in store[s]) => o \in store[e]

\* How far job j has come in the store: the endpoints it has been through have what
\* there is of all it knows, the present one of what comes before the chunk in hand, and
\* the sources it has asked have no copy of that chunk.
RoundOK(j, store) ==
    /\ \A e \in Endpoints :
         /\ j.pc \in {"stat", "get", "put", "commit"}
         /\ e \notin Range(j.targets)
         /\ bucket[e]
         => \A o \in j.known : Copied(store, o, e)
    /\ j.pc \in {"stat", "get", "put"} /\ bucket[Head(j.targets)] =>
         LET t == Head(j.targets)
             o == ChunkOrder[j.at]
         IN  /\ \A i \in Later(j.known, 0) : i < j.at => Copied(store, ChunkOrder[i], t)
             /\ j.pc \in {"get", "put"} => o \notin store[t]
             /\ j.pc = "get" => \A s \in Endpoints : s < j.source /\ s # t => o \notin store[s]
             /\ j.pc = "put" => o \in store[j.source]

RepairInv ==
    /\ TypeOK
    /\ \A f \in StoredFiles : FileOrder(f)
    /\ StaleInv
    /\ calm => RoundOK(job[Daemon], objects)

-----------------------------------------------------------------------------
(* The positions of a snapshot, and where a job goes. *)

LEMMA PositionFacts ==
    ASSUME NEW S, NEW i \in Nat
    PROVE  /\ Later(S, i) \in SUBSET Nat
           /\ Later(S, i) \subseteq Later(S, 0)
           /\ \A j \in Later(S, i) : ChunkOrder[j] \in S /\ ChunkOrder[j] \in Chunks /\ j > i
           /\ Later(S, i) # {} => /\ Min(Later(S, i)) \in Later(S, i)
                                  /\ \A j \in Later(S, i) : Min(Later(S, i)) <= j
           /\ \A j \in Later(S, 0) : j \notin Later(S, i) => j <= i
<1>1. ChunkOrder \in Seq(StoredFiles \X Nat)
  BY ChunkOrderAssumption
<1>2. DOMAIN ChunkOrder = 1..Len(ChunkOrder) /\ Len(ChunkOrder) \in Nat
  BY <1>1, LenProperties
<1>3. Later(S, i) \in SUBSET Nat /\ Later(S, i) \subseteq Later(S, 0)
  BY <1>2 DEF Later
<1>4. \A j \in Later(S, i) : ChunkOrder[j] \in S /\ ChunkOrder[j] \in Chunks /\ j > i
  BY DEF Later, Chunks, Range
<1>5. \A j \in Later(S, 0) : j \notin Later(S, i) => j <= i
  BY <1>2 DEF Later
<1> QED
  BY <1>3, <1>4, <1>5, LeastOfNats

\* Every known chunk has a position.
LEMMA EveryChunkHasAPosition ==
    ASSUME NEW S \in SUBSET Chunks, NEW o \in S
    PROVE  \E j \in Later(S, 0) : ChunkOrder[j] = o
<1>1. ChunkOrder \in Seq(StoredFiles \X Nat)
  BY ChunkOrderAssumption
<1>2. DOMAIN ChunkOrder = 1..Len(ChunkOrder) /\ Len(ChunkOrder) \in Nat
  BY <1>1, LenProperties
<1>3. PICK j \in DOMAIN ChunkOrder : ChunkOrder[j] = o
  BY DEF Chunks, Range
<1> QED
  BY <1>2, <1>3 DEF Later

\* A chunk is a file's and has an index.
LEMMA ChunksArePairs ==
    /\ Chunks \subseteq StoredFiles \X Nat
    /\ \A o \in Chunks : o = <<o[1], o[2]>> /\ o[1] \in StoredFiles /\ o[2] \in Nat
<1>1. ChunkOrder \in Seq(StoredFiles \X Nat)
  BY ChunkOrderAssumption
<1>2. Chunks \subseteq StoredFiles \X Nat
  BY <1>1, LenProperties DEF Chunks, Range
<1> QED
  BY <1>2

\* What the invariant says of the job of r.
LEMMA JobFacts ==
    ASSUME TypeOK, NEW r \in Threads
    PROVE  /\ JobOK(job[r])
           /\ job[r].known \in SUBSET Chunks /\ job[r].targets \in Seq(Endpoints)
           /\ job[r].at \in Nat /\ job[r].source \in Endpoints
           /\ Working(r) => target(r) \in Endpoints /\ chunk(r) \in job[r].known
<1>1. JobOK(job[r])
  BY DEF TypeOK, JobOK, Working
<1>2. job[r].known \in SUBSET Chunks /\ job[r].targets \in Seq(Endpoints)
      /\ job[r].at \in Nat /\ job[r].source \in Endpoints
  BY <1>1 DEF JobOK, Job
<1>3. Working(r) => target(r) \in Endpoints
  BY <1>1, <1>2, HeadAndTail DEF JobOK, Working, target
<1>4. Working(r) => chunk(r) \in job[r].known
  BY <1>1, PositionFacts DEF JobOK, Working, chunk
<1> QED
  BY <1>1, <1>2, <1>3, <1>4

LEMMA OneIsAnEndpoint == 1 \in Endpoints
BY NumEndpointsAssumption DEF Endpoints

LEMMA WithoutOK ==
    ASSUME NEW pc \in {"waiting", "commit", "over", "dead"}
    PROVE  JobOK(Without(pc)) /\ Without(pc).pc = pc /\ Without(pc).known = {}
<1>1. /\ Without(pc).pc = pc /\ Without(pc).known = {} /\ Without(pc).targets = <<>>
      /\ Without(pc).at = 0 /\ Without(pc).source = 1
  BY DEF Without, At
<1>2. Without(pc) \in Job
  BY OneIsAnEndpoint, EmptySeq DEF Without, At, Job
<1> QED
  BY <1>1, <1>2 DEF JobOK

LEMMA FirstChunkOK ==
    ASSUME NEW known \in SUBSET Chunks, known # {}, NEW targets \in Seq(Endpoints), targets # <<>>
    PROVE  /\ JobOK(FirstChunk(known, targets))
           /\ FirstChunk(known, targets).pc = "stat"
           /\ FirstChunk(known, targets).known = known
           /\ FirstChunk(known, targets).targets = targets
           /\ FirstChunk(known, targets).at = Min(Later(known, 0))
           /\ Min(Later(known, 0)) \in Later(known, 0)
           /\ \A j \in Later(known, 0) : Min(Later(known, 0)) <= j
<1>1. Later(known, 0) # {}
  BY EveryChunkHasAPosition
<1>2. Min(Later(known, 0)) \in Later(known, 0) /\ Min(Later(known, 0)) \in Nat
      /\ \A j \in Later(known, 0) : Min(Later(known, 0)) <= j
  BY <1>1, PositionFacts
<1> DEFINE j == FirstChunk(known, targets)
<1>3. j.pc = "stat" /\ j.known = known /\ j.targets = targets /\ j.at = Min(Later(known, 0))
  BY DEF FirstChunk, At
<1>4. j \in Job
  BY <1>2, OneIsAnEndpoint DEF FirstChunk, At, Job
<1> HIDE DEF j
<1>5. JobOK(j)
  BY <1>2, <1>3, <1>4 DEF JobOK
<1> QED
  BY <1>2, <1>3, <1>5 DEF j

LEMMA AfterTargetOK ==
    ASSUME TypeOK, NEW r \in Threads, Working(r)
    PROVE  /\ JobOK(AfterTarget(r))
           /\ AfterTarget(r).pc \in {"stat", "commit"}
           /\ AfterTarget(r).known = job[r].known
           /\ AfterTarget(r).targets = Tail(job[r].targets)
           /\ \A j \in Later(job[r].known, 0) : AfterTarget(r).at <= j
<1>1. /\ JobOK(job[r]) /\ job[r].known \in SUBSET Chunks /\ job[r].targets \in Seq(Endpoints)
      /\ job[r].known # {} /\ job[r].targets # <<>>
  BY JobFacts DEF JobOK, Working
<1>2. /\ Tail(job[r].targets) \in Seq(Endpoints) /\ Len(job[r].targets) \in Nat
      /\ Len(job[r].targets) > 1 <=> Tail(job[r].targets) # <<>>
  BY <1>1, HeadAndTail
<1>3. CASE Len(job[r].targets) > 1
  <2>1. AfterTarget(r) = FirstChunk(job[r].known, Tail(job[r].targets))
    BY <1>3 DEF AfterTarget
  <2> DEFINE left == Tail(job[r].targets)
             known == job[r].known
  <2>2. left \in Seq(Endpoints) /\ left # <<>> /\ known \in SUBSET Chunks /\ known # {}
    BY <1>1, <1>2, <1>3
  <2>3. AfterTarget(r) = FirstChunk(known, left)
    BY <2>1
  <2> HIDE DEF left, known
  <2>4. /\ JobOK(AfterTarget(r)) /\ AfterTarget(r).pc = "stat"
        /\ AfterTarget(r).known = known /\ AfterTarget(r).targets = left
        /\ \A j \in Later(known, 0) : AfterTarget(r).at <= j
    BY <2>2, <2>3, FirstChunkOK
  <2> QED
    BY <2>4 DEF left, known
<1>4. CASE ~(Len(job[r].targets) > 1)
  <2> DEFINE j == At("commit", job[r].known, <<>>, 0, 1)
  <2>1. AfterTarget(r) = j
    BY <1>4 DEF AfterTarget
  <2>2. j.pc = "commit" /\ j.known = job[r].known /\ j.targets = <<>> /\ j.at = 0
    BY DEF At
  <2>3. j \in Job
    BY <1>1, OneIsAnEndpoint, EmptySeq DEF At, Job
  <2> HIDE DEF j
  <2>4. JobOK(j)
    BY <2>2, <2>3 DEF JobOK
  <2>5. \A i \in Later(job[r].known, 0) : 0 <= i
    BY PositionFacts
  <2> QED
    BY <1>2, <1>4, <2>1, <2>2, <2>4, <2>5
<1> QED
  BY <1>3, <1>4

LEMMA AfterChunkOK ==
    ASSUME TypeOK, NEW r \in Threads, Working(r)
    PROVE  /\ JobOK(AfterChunk(r))
           /\ AfterChunk(r).pc \in {"stat", "commit"}
           /\ AfterChunk(r).known = job[r].known
           /\ Rest(r) # {} => /\ AfterChunk(r).targets = job[r].targets
                              /\ AfterChunk(r).at \in Rest(r)
                              /\ \A j \in Rest(r) : AfterChunk(r).at <= j
<1>1. /\ JobOK(job[r]) /\ job[r].known \in SUBSET Chunks /\ job[r].targets \in Seq(Endpoints)
      /\ job[r].targets # <<>> /\ job[r].at \in Nat
  BY JobFacts DEF JobOK, Working
<1>2. CASE Rest(r) = {}
  BY <1>2, AfterTargetOK DEF AfterChunk
<1>3. CASE Rest(r) # {}
  <2> DEFINE j == At("stat", job[r].known, job[r].targets, Min(Rest(r)), 1)
  <2>1. AfterChunk(r) = j
    BY <1>3 DEF AfterChunk
  <2>2. Min(Rest(r)) \in Rest(r) /\ Min(Rest(r)) \in Nat /\ Min(Rest(r)) \in Later(job[r].known, 0)
        /\ \A i \in Rest(r) : Min(Rest(r)) <= i
    BY <1>1, <1>3, PositionFacts DEF Rest
  <2>3. j.pc = "stat" /\ j.known = job[r].known /\ j.targets = job[r].targets /\ j.at = Min(Rest(r))
    BY DEF At
  <2>4. j \in Job
    BY <1>1, <2>2, OneIsAnEndpoint DEF At, Job
  <2> HIDE DEF j
  <2>5. JobOK(j)
    BY <1>1, <2>2, <2>3, <2>4 DEF JobOK
  <2> QED
    BY <2>1, <2>2, <2>3, <2>5
<1> QED
  BY <1>2, <1>3

LEMMA TrySourceOK ==
    ASSUME TypeOK, NEW r \in Threads, Working(r), NEW e \in 0..NumEndpoints
    PROVE  /\ JobOK(TrySource(r, e))
           /\ TrySource(r, e).known = job[r].known
           /\ SourcesAfter(r, e) # {} =>
                /\ TrySource(r, e) = [job[r] EXCEPT !.pc = "get", !.source = Min(SourcesAfter(r, e))]
                /\ TrySource(r, e).pc = "get" /\ TrySource(r, e).at = job[r].at
                /\ TrySource(r, e).targets = job[r].targets
                /\ TrySource(r, e).source \in SourcesAfter(r, e)
                /\ \A s \in SourcesAfter(r, e) : TrySource(r, e).source <= s
<1>1. /\ JobOK(job[r]) /\ job[r] \in Job /\ job[r].targets # <<>> /\ job[r].at \in Later(job[r].known, 0)
  BY JobFacts DEF JobOK, Working
<1>2. CASE SourcesAfter(r, e) = {}
  BY <1>2, AfterChunkOK DEF TrySource
<1>3. CASE SourcesAfter(r, e) # {}
  <2> DEFINE j == [job[r] EXCEPT !.pc = "get", !.source = Min(SourcesAfter(r, e))]
  <2>1. TrySource(r, e) = j
    BY <1>3 DEF TrySource
  <2>2. /\ Min(SourcesAfter(r, e)) \in SourcesAfter(r, e)
        /\ \A s \in SourcesAfter(r, e) : Min(SourcesAfter(r, e)) <= s
    <3>1. SourcesAfter(r, e) \in SUBSET Nat
      BY DEF SourcesAfter, Endpoints
    <3> QED
      BY <1>3, <3>1, LeastOfNats
  <2>3. Min(SourcesAfter(r, e)) \in Endpoints /\ Min(SourcesAfter(r, e)) # Head(job[r].targets)
    BY <2>2 DEF SourcesAfter, target
  <2>4. j \in Job /\ j.pc = "get" /\ j.known = job[r].known /\ j.targets = job[r].targets
        /\ j.at = job[r].at /\ j.source = Min(SourcesAfter(r, e))
    BY <1>1, <2>3 DEF Job
  <2> HIDE DEF j
  <2>5. JobOK(j)
    BY <1>1, <2>3, <2>4 DEF JobOK
  <2> QED
    BY <1>3, <2>1, <2>2, <2>4, <2>5 DEF j
<1> QED
  BY <1>2, <1>3

LEMMA TrySourceProper ==
    ASSUME TypeOK, NEW r \in Threads, Working(r), NEW e \in 0..NumEndpoints
    PROVE  JobOK(TrySource(r, e)) /\ TrySource(r, e).known = job[r].known
BY TrySourceOK

-----------------------------------------------------------------------------
(* Types. *)

\* The job of one thread moves, in one of the forms above.
LEMMA MovesType ==
    ASSUME TypeOK, NEW r \in Threads, NEW j, JobOK(j), Moves(r, j)
    PROVE  /\ job' \in [Threads -> Job]
           /\ job'[r] = j /\ \A q \in Threads \ {r} : job'[q] = job[q]
           /\ \A q \in Threads : JobOK(job'[q])
<1>1. job \in [Threads -> Job] /\ j \in Job
  BY DEF TypeOK, JobOK
<1>2. job' \in [Threads -> Job] /\ job'[r] = j /\ \A q \in Threads \ {r} : job'[q] = job[q]
  BY <1>1 DEF Moves
<1>3. \A q \in Threads : JobOK(job[q])
  BY JobFacts
<1> QED
  BY <1>2, <1>3

\* TypeOK, the part of the jobs told by JobOK.
Types == /\ StoreTypeOK
         /\ bucket \in [Endpoints -> BOOLEAN]
         /\ \A e \in Endpoints : objects[e] # {} => bucket[e]
         /\ rows \subseteq Chunks
         /\ upload \in [StoredFiles -> {"none", "rows", "storing", "over"}]
         /\ storing \in [StoredFiles -> Nat]
         /\ removing \in [StoredFiles -> 0..NumEndpoints + 1]
         /\ deleted \subseteq StoredFiles
         /\ errors \in 0..MaxErrors
         /\ wipes \in 0..MaxWipes
         /\ stale \subseteq Threads \X StoredFiles
         /\ calm \in BOOLEAN
         /\ job \in [Threads -> Job]

LEMMA TypesAndJobs == TypeOK <=> Types /\ \A r \in Threads : JobOK(job[r])
<1>1. TypeOK => Types /\ \A r \in Threads : JobOK(job[r])
  BY JobFacts DEF TypeOK, Types
<1>2. Types /\ (\A r \in Threads : JobOK(job[r])) => TypeOK
  BY DEF TypeOK, Types, JobOK, Working
<1> QED
  BY <1>1, <1>2

LEMMA TypesNext == Types' /\ (\A r \in Threads : JobOK(job'[r])) => TypeOK'
BY DEF TypeOK, Types, JobOK, Working

LEMMA FailsType == TypeOK /\ Fails => errors' \in 0..MaxErrors
BY BoundsAssumption DEF TypeOK, Fails

LEMMA ToStoreFacts ==
    ASSUME TypeOK, NEW f \in StoredFiles, ToStore(f) # {}
    PROVE  LET next == Min(ToStore(f))
           IN  /\ next \in Nat /\ ChunkOrder[next] \in StoredFiles \X Nat
               /\ ChunkOrder[next][1] = f
<1>1. storing[f] \in Nat
  BY DEF TypeOK
<1>2. Min(ToStore(f)) \in ToStore(f) /\ ToStore(f) \in SUBSET Nat
  BY <1>1, PositionFacts DEF ToStore
<1>3. ChunkOrder[Min(ToStore(f))] \in ChunksOf(f)
  BY <1>1, <1>2, PositionFacts DEF ToStore
<1> QED
  BY <1>2, <1>3, ChunksArePairs DEF ChunksOf

\* The steps of uploads, deletes and the operator keep the types and touch no job.
LEMMA FileStepType ==
    ASSUME TypeOK, NEW f \in StoredFiles, FileStep(f)
    PROVE  Types' /\ job' = job
<1>1. Types
  BY TypesAndJobs
<1> USE DEF Types, StoreTypeOK, storeVars, fileVars
<1>2. CASE AddRows(f)
  BY <1>1, <1>2 DEF AddRows, ChunksOf
<1>3. CASE EnsureBuckets(f)
  <2>1. errors' \in 0..MaxErrors
    BY <1>1, <1>3, FailsType DEF EnsureBuckets
  <2>2. bucket' \in [Endpoints -> BOOLEAN] /\ \A e \in Endpoints : bucket[e] => bucket'[e]
    BY <1>1, <1>3 DEF EnsureBuckets
  <2> QED
    BY <1>1, <1>3, <2>1, <2>2 DEF EnsureBuckets
<1>4. CASE UploadChunk(f)
  <2> DEFINE next == Min(ToStore(f))
             o == ChunkOrder[next]
  <2>1. next \in Nat /\ o \in StoredFiles \X Nat
    BY <1>4, ToStoreFacts DEF UploadChunk
  <2>2. errors' \in 0..MaxErrors
    BY <1>1, <1>4, FailsType DEF UploadChunk
  <2>3. PICK got \in SUBSET {e \in Endpoints : bucket[e]} :
           objects' = [e \in Endpoints |-> IF e \in got THEN objects[e] \union {o}
                                                        ELSE objects[e]]
    BY <1>4 DEF UploadChunk
  <2>4. /\ storing' \in {[storing EXCEPT ![f] = next], [storing EXCEPT ![f] = 0]}
        /\ upload' \in {upload, [upload EXCEPT ![f] = "over"]}
    BY <1>4 DEF UploadChunk, UploadOver
  <2> HIDE DEF next, o
  <2>5. StoreTypeOK' /\ \A e \in Endpoints : objects'[e] # {} => bucket[e]
    BY <1>1, <2>1, <2>3
  <2>6. storing' \in [StoredFiles -> Nat]
    BY <1>1, <2>1, <2>4
  <2>7. UNCHANGED <<bucket, rows, removing, deleted, job, wipes, stale>> /\ calm' = FALSE
    BY <1>4 DEF UploadChunk
  <2>8. upload' \in [StoredFiles -> {"none", "rows", "storing", "over"}]
    BY <1>1, <2>4
  <2> QED
    BY <1>1, <2>2, <2>5, <2>6, <2>7, <2>8
<1>5. CASE UploadEnds(f)
  BY <1>1, <1>5 DEF UploadEnds, UploadOver
<1>6. CASE DeleteStarts(f)
  BY <1>1, <1>6, NumEndpointsAssumption DEF DeleteStarts
<1>7. CASE DeletePrefix(f)
  <2>1. errors' \in 0..MaxErrors
    BY <1>1, <1>7, FailsType DEF DeletePrefix
  <2>2. removing' \in [StoredFiles -> 0..NumEndpoints + 1]
    BY <1>1, <1>7, NumEndpointsAssumption DEF DeletePrefix, Endpoints
  <2>3. StoreTypeOK' /\ \A e \in Endpoints : objects'[e] # {} => bucket[e]
    BY <1>1, <1>7 DEF DeletePrefix, RemovePrefix, RemoveFails
  <2> QED
    BY <1>1, <1>7, <2>1, <2>2, <2>3 DEF DeletePrefix
<1>8. CASE DeleteSucceeds(f)
  BY <1>1, <1>8, NumEndpointsAssumption DEF DeleteSucceeds
<1> QED
  BY <1>2, <1>3, <1>4, <1>5, <1>6, <1>7, <1>8 DEF FileStep

LEMMA WipeType ==
    ASSUME TypeOK, NEW e \in Endpoints, Wipe(e)
    PROVE  Types' /\ job' = job
<1>1. Types
  BY TypesAndJobs
<1>2. wipes' \in 0..MaxWipes
  BY <1>1, BoundsAssumption DEF Types, Wipe
<1>3. bucket' \in [Endpoints -> BOOLEAN] /\ StoreTypeOK'
  BY <1>1 DEF Types, Wipe, StoreTypeOK
<1>4. \A d \in Endpoints : objects'[d] # {} => bucket'[d]
  BY <1>1 DEF Types, Wipe, StoreTypeOK
<1>5. UNCHANGED <<rows, upload, storing, removing, deleted, job, errors, stale>> /\ calm' = FALSE
  BY DEF Wipe, fileVars
<1> QED
  BY <1>1, <1>2, <1>3, <1>4, <1>5 DEF Types

\* Where each step of a job leads, and that the job's outcome is a proper one.
LEMMA RepairMoves ==
    ASSUME TypeOK, NEW r \in Threads, RepairStep(r) \/ RepairFault(r)
    PROVE  /\ \E j : JobOK(j) /\ Moves(r, j)
           /\ \/ job'[r].known = job[r].known
              \/ job'[r].known = {}
              \/ job[r].pc = "waiting" /\ job'[r].known = rows
           /\ UNCHANGED <<bucket, rows, upload, storing, removing, deleted, wipes>>
           /\ errors' \in 0..MaxErrors
<1>1. /\ JobOK(job[r]) /\ job \in [Threads -> Job] /\ job[r] \in Job
      /\ rows \in SUBSET Chunks
      /\ errors \in 0..MaxErrors /\ job[r].source \in 0..NumEndpoints /\ 0 \in 0..NumEndpoints
  BY JobFacts, NumEndpointsAssumption DEF TypeOK, Endpoints
<1>2. \A j : Moves(r, j) => job'[r] = j
  BY <1>1 DEF Moves
<1>3. CASE Collect(r)
  <2>1. PICK targets \in Wanted(r) :
          Moves(r, IF rows = {} \/ targets = <<>> THEN Without("commit") ELSE FirstChunk(rows, targets))
    BY <1>3 DEF Collect
  <2>2. targets \in Seq(Endpoints)
    <3>1. [e \in Endpoints |-> e] \in Seq(Endpoints)
      <4>1. [e \in Endpoints |-> e] \in [1..NumEndpoints -> Endpoints]
        BY DEF Endpoints
      <4> QED
        BY <4>1, SeqDef, NumEndpointsAssumption
    <3>2. \A e \in Endpoints : <<e>> \in Seq(Endpoints)
      OBVIOUS
    <3>3. <<>> \in Seq(Endpoints)
      BY EmptySeq
    <3> QED
      BY <3>1, <3>2, <3>3 DEF Wanted
  <2>3. UNCHANGED <<bucket, rows, upload, storing, removing, deleted, wipes, errors>>
        /\ job[r].pc = "waiting"
    BY <1>3 DEF Collect, storeVars, fileVars
  <2>4. CASE rows = {} \/ targets = <<>>
    BY <1>1, <1>2, <2>1, <2>3, <2>4, WithoutOK
  <2>5. CASE ~(rows = {} \/ targets = <<>>)
    <3>1. JobOK(FirstChunk(rows, targets)) /\ FirstChunk(rows, targets).known = rows
      BY <1>1, <2>2, <2>5, FirstChunkOK
    <3> QED
      BY <1>1, <1>2, <2>1, <2>3, <2>5, <3>1
  <2> QED
    BY <2>4, <2>5
<1>4. CASE Stat(r)
  <2>1. Working(r) /\ UNCHANGED <<bucket, rows, upload, storing, removing, deleted, wipes, errors>>
    BY <1>4 DEF Stat, Working, storeVars, fileVars
  <2>2. Moves(r, AfterChunk(r)) \/ Moves(r, TrySource(r, 0))
    BY <1>4 DEF Stat
  <2> QED
    BY <1>1, <1>2, <2>1, <2>2, AfterChunkOK, TrySourceProper
<1>5. CASE Get(r)
  <2>1. Working(r) /\ UNCHANGED <<bucket, rows, upload, storing, removing, deleted, wipes, errors>>
        /\ job[r].pc = "get"
    BY <1>5 DEF Get, Working, storeVars, fileVars
  <2>2. CASE Moves(r, TrySource(r, job[r].source))
    BY <1>1, <1>2, <2>1, <2>2, TrySourceProper
  <2>3. CASE Moves(r, [job[r] EXCEPT !.pc = "put"])
    <3> DEFINE j == [job[r] EXCEPT !.pc = "put"]
    <3>1. j \in Job /\ j.pc = "put" /\ j.known = job[r].known /\ j.at = job[r].at
          /\ j.targets = job[r].targets /\ j.source = job[r].source
      BY <1>1 DEF Job
    <3>2. Moves(r, j)
      BY <2>3
    <3> HIDE DEF j
    <3>3. JobOK(j)
      BY <1>1, <2>1, <3>1 DEF JobOK
    <3> QED
      BY <1>1, <1>2, <2>1, <3>1, <3>2, <3>3
  <2> QED
    BY <1>5, <2>2, <2>3 DEF Get
<1>6. CASE PutCopy(r)
  <2>1. Working(r) /\ UNCHANGED <<bucket, rows, upload, storing, removing, deleted, wipes, errors>>
    BY <1>6 DEF PutCopy, Working, fileVars
  <2>2. Moves(r, AfterChunk(r)) \/ Moves(r, TrySource(r, job[r].source))
    BY <1>6 DEF PutCopy
  <2> QED
    BY <1>1, <1>2, <2>1, <2>2, AfterChunkOK, TrySourceProper
<1>7. CASE Commit(r)
  <2>1. UNCHANGED <<bucket, rows, upload, storing, removing, deleted, wipes, errors>>
        /\ Moves(r, Ended(r))
    BY <1>7 DEF Commit, storeVars, fileVars
  <2> QED
    BY <1>1, <1>2, <2>1, WithoutOK DEF Ended
<1>8. CASE DatabaseFails(r)
  <2>1. UNCHANGED <<bucket, rows, upload, storing, removing, deleted, wipes>> /\ Fails
        /\ Moves(r, Died(r))
    BY <1>8 DEF DatabaseFails, storeVars, fileVars
  <2> QED
    BY <1>1, <1>2, <2>1, WithoutOK, FailsType DEF Died
<1>9. CASE StatFails(r)
  <2>1. UNCHANGED <<bucket, rows, upload, storing, removing, deleted, wipes>> /\ Fails /\ Working(r)
        /\ (Moves(r, AfterChunk(r)) \/ Moves(r, AfterTarget(r)))
    BY <1>9 DEF StatFails, Working, storeVars, fileVars
  <2> QED
    BY <1>1, <1>2, <2>1, AfterChunkOK, AfterTargetOK, FailsType
<1>10. CASE CopyFails(r)
  <2>1. UNCHANGED <<bucket, rows, upload, storing, removing, deleted, wipes>> /\ Fails /\ Working(r)
        /\ Moves(r, TrySource(r, job[r].source))
    BY <1>10 DEF CopyFails, Working, fileVars
  <2> QED
    BY <1>1, <1>2, <2>1, TrySourceProper, FailsType
<1> QED
  BY <1>3, <1>4, <1>5, <1>6, <1>7, <1>8, <1>9, <1>10 DEF RepairStep, RepairFault

\* A step of a job puts at most the chunk in hand, on its target, if there is a bucket.
LEMMA RepairPuts ==
    ASSUME TypeOK, NEW r \in Threads, RepairStep(r) \/ RepairFault(r)
    PROVE  \/ objects' = objects
           \/ /\ Working(r)
              /\ bucket[target(r)]
              /\ objects' = [objects EXCEPT ![target(r)] = @ \union {chunk(r)}]
<1>1. Working(r) => chunk(r) = <<chunk(r)[1], chunk(r)[2]>>
  BY JobFacts, ChunksArePairs
<1>2. CASE PutCopy(r) \/ CopyFails(r)
  BY <1>1, <1>2 DEF PutCopy, CopyFails, Put, PutFails, Working
<1>3. CASE ~(PutCopy(r) \/ CopyFails(r))
  BY <1>3 DEF RepairStep, RepairFault, Collect, Stat, Get, Commit, DatabaseFails, StatFails, storeVars
<1> QED
  BY <1>2, <1>3

\* And then it goes on with something else.
LEMMA PutIsOver ==
    ASSUME TypeOK, NEW r \in Threads, RepairStep(r) \/ RepairFault(r), objects' # objects
    PROVE  job[r].pc = "put" /\ job'[r] # job[r]
<1>1. job \in [Threads -> Job]
  BY DEF TypeOK
<1>2. PutCopy(r) \/ CopyFails(r)
  BY DEF RepairStep, RepairFault, Collect, Stat, Get, Commit, DatabaseFails, StatFails, storeVars
<1>3. job[r].pc = "put"
  BY <1>2 DEF PutCopy, CopyFails
<1>4. \A pc, known, targets, at, source : At(pc, known, targets, at, source).pc = pc
  BY DEF At
<1>5. AfterTarget(r).pc \in {"stat", "commit"}
  BY <1>4 DEF AfterTarget, FirstChunk
<1>6. AfterChunk(r).pc \in {"stat", "commit"}
  BY <1>4, <1>5 DEF AfterChunk
<1>7. \A e : TrySource(r, e).pc \in {"get", "stat", "commit"}
  BY <1>1, <1>6 DEF TrySource, Job
<1>8. \/ job' = [job EXCEPT ![r] = AfterChunk(r)]
      \/ job' = [job EXCEPT ![r] = TrySource(r, job[r].source)]
  BY <1>2 DEF PutCopy, CopyFails, Moves
<1>9. job'[r].pc # "put"
  BY <1>1, <1>6, <1>7, <1>8
<1> QED
  BY <1>3, <1>9

LEMMA RepairType ==
    ASSUME TypeOK, NEW r \in Threads, RepairStep(r) \/ RepairFault(r)
    PROVE  TypeOK'
<1>1. Types
  BY TypesAndJobs
<1>2. \A q \in Threads : JobOK(job'[q])
  BY RepairMoves, MovesType
<1>3. job' \in [Threads -> Job]
  BY RepairMoves, MovesType
<1>4. StoreTypeOK' /\ \A e \in Endpoints : objects'[e] # {} => bucket[e]
  <2>1. Working(r) => chunk(r) \in StoredFiles \X Nat /\ target(r) \in Endpoints
    BY JobFacts, ChunksArePairs
  <2> QED
    BY <1>1, <2>1, RepairPuts DEF Types, StoreTypeOK
<1>5. stale' \subseteq stale
  BY DEF RepairStep, RepairFault, Collect, Stat, Get, PutCopy, Commit, DatabaseFails, StatFails,
     CopyFails, Forgets
<1>6. calm' \in BOOLEAN
  BY <1>1 DEF RepairStep, RepairFault, Collect, Stat, Get, PutCopy, Commit, DatabaseFails, StatFails,
     CopyFails, Types
<1>7. UNCHANGED <<bucket, rows, upload, storing, removing, deleted, wipes>> /\ errors' \in 0..MaxErrors
  BY RepairMoves
<1>8. Types'
  BY <1>1, <1>3, <1>4, <1>5, <1>6, <1>7 DEF Types
<1> QED
  BY <1>2, <1>8, TypesNext

LEMMA RestartType == TypeOK /\ Restart => TypeOK'
<1> SUFFICES ASSUME TypeOK, Restart PROVE TypeOK'
  OBVIOUS
<1>1. Types /\ \A r \in Threads : JobOK(job[r])
  BY TypesAndJobs
<1>2. \A q \in Threads : JobOK(job'[q])
  BY <1>1, WithoutOK DEF Restart
<1>3. job' \in [Threads -> Job]
  <2>1. \A q \in Threads : job'[q] \in Job
    BY <1>2 DEF JobOK
  <2> QED
    BY <2>1 DEF Restart
<1>4. /\ UNCHANGED <<objects, bucket, rows, upload, storing, removing, deleted, wipes>>
      /\ errors' \in 0..MaxErrors /\ stale' \subseteq stale /\ calm' = FALSE
  BY FailsType DEF Restart, Forgets, storeVars, fileVars
<1>5. Types'
  BY <1>1, <1>3, <1>4 DEF Types, StoreTypeOK
<1> QED
  BY <1>2, <1>5, TypesNext

LEMMA NextType == TypeOK /\ [Next]_vars => TypeOK'
<1> SUFFICES ASSUME TypeOK, [Next]_vars PROVE TypeOK'
  OBVIOUS
<1>1. Types /\ \A r \in Threads : JobOK(job[r])
  BY TypesAndJobs
<1>2. ASSUME Types', job' = job PROVE TypeOK'
  <2>1. \A r \in Threads : JobOK(job'[r])
    BY <1>1, <1>2
  <2> QED
    BY <1>2, <2>1, TypesNext
<1>3. CASE UNCHANGED vars
  BY <1>1, <1>2, <1>3 DEF vars, storeVars, fileVars, Types, StoreTypeOK
<1>4. ASSUME NEW f \in StoredFiles, FileStep(f) PROVE TypeOK'
  BY <1>2, <1>4, FileStepType
<1>5. ASSUME NEW e \in Endpoints, Wipe(e) PROVE TypeOK'
  BY <1>2, <1>5, WipeType
<1> QED
  BY <1>3, <1>4, <1>5, RepairType, RestartType DEF Next

LEMMA InitType == Init => TypeOK
<1> SUFFICES ASSUME Init PROVE TypeOK
  OBVIOUS
<1>1. JobOK(Without("waiting"))
  BY WithoutOK
<1>2. \A r \in Threads : JobOK(job[r])
  BY <1>1 DEF Init
<1>3. job \in [Threads -> Job]
  BY <1>1 DEF Init, JobOK
<1>4. errors \in 0..MaxErrors /\ wipes \in 0..MaxWipes
  BY BoundsAssumption DEF Init
<1>5. removing \in [StoredFiles -> 0..NumEndpoints + 1]
  BY NumEndpointsAssumption DEF Init
<1>6. Types
  BY <1>3, <1>4, <1>5 DEF Init, Types, StoreInit, StoreTypeOK
<1> QED
  BY <1>2, <1>6, TypesAndJobs

\* Type correctness for any number of endpoints, chunks, threads and faults; with it, that
\* a working job always has a target, a chunk in hand and a source other than the target.
THEOREM RepairTypeCorrect == Spec => []TypeOK
BY InitType, NextType, PTL DEF Spec

-----------------------------------------------------------------------------
(* Deleted files and the jobs that still know them. *)

\* A chunk of a file has that file's id.
LEMMA KnowsItsChunk ==
    ASSUME TypeOK, NEW r \in Threads, Working(r)
    PROVE  Knows(r, chunk(r)[1]) /\ chunk(r)[1] \in StoredFiles
BY JobFacts, ChunksArePairs DEF Knows

\* The steps of one file keep the order of its upload and its delete.
LEMMA FileOrderStep ==
    ASSUME RepairInv, NEW f \in StoredFiles, FileStep(f)
    PROVE  \A g \in StoredFiles : FileOrder(g)'
<1>1. /\ \A g \in StoredFiles : FileOrder(g)
      /\ upload \in [StoredFiles -> {"none", "rows", "storing", "over"}]
      /\ removing \in [StoredFiles -> 0..NumEndpoints + 1]
      /\ deleted \subseteq StoredFiles
      /\ rows \subseteq Chunks
  BY DEF RepairInv, TypeOK
<1> USE DEF FileOrder
<1>2. CASE AddRows(f)
  <2>1. f \notin deleted
    BY <1>1, <1>2 DEF AddRows
  <2>2. UNCHANGED <<removing, deleted>> /\ upload' = [upload EXCEPT ![f] = "rows"]
    BY <1>2 DEF AddRows
  <2>3. \A o \in rows' : o \in rows \/ o[1] = f
    BY <1>2 DEF AddRows, ChunksOf
  <2>4. removing[f] = 0
    BY <1>1, <1>2 DEF AddRows
  <2> QED
    BY <1>1, <2>1, <2>2, <2>3, <2>4
<1>3. CASE EnsureBuckets(f)
  BY <1>1, <1>3 DEF EnsureBuckets
<1>4. CASE UploadChunk(f)
  BY <1>1, <1>4 DEF UploadChunk, UploadOver
<1>5. CASE UploadEnds(f)
  BY <1>1, <1>5 DEF UploadEnds, UploadOver
<1>6. CASE DeleteStarts(f)
  BY <1>1, <1>6 DEF DeleteStarts
<1>7. CASE DeletePrefix(f)
  BY <1>1, <1>7 DEF DeletePrefix, Endpoints
<1>8. CASE DeleteSucceeds(f)
  <2>1. upload[f] = "over" /\ removing' = [removing EXCEPT ![f] = 0]
        /\ deleted' = deleted \union {f} /\ rows' = {o \in rows : o[1] # f} /\ upload' = upload
    BY <1>1, <1>8, NumEndpointsAssumption DEF DeleteSucceeds
  <2> QED
    BY <1>1, <2>1
<1> QED
  BY <1>2, <1>3, <1>4, <1>5, <1>6, <1>7, <1>8 DEF FileStep

LEMMA OthersKeepFileOrder ==
    ASSUME RepairInv, UNCHANGED <<rows, upload, removing, deleted>>
    PROVE  \A g \in StoredFiles : FileOrder(g)'
BY DEF RepairInv, FileOrder

\* Only a delete that ends adds to the deleted files, and it marks those that know it.
LEMMA FileStepStale ==
    ASSUME RepairInv, NEW f \in StoredFiles, FileStep(f)
    PROVE  StaleInv'
<1>1. job' = job
  BY FileStepType DEF RepairInv
<1>2. \A r \in Threads, g \in StoredFiles : Knows(r, g)' <=> Knows(r, g)
  BY <1>1 DEF Knows, Working
<1>3. CASE DeleteSucceeds(f)
  <2>1. deleted' = deleted \union {f}
        /\ stale' = stale \union {<<r, f>> : r \in {r \in Threads : Knows(r, f)}}
    BY <1>3 DEF DeleteSucceeds
  <2>2. deleted \subseteq StoredFiles
    BY DEF RepairInv, TypeOK
  <2> QED
    BY <1>2, <2>1, <2>2 DEF RepairInv, StaleInv
<1>4. CASE ~DeleteSucceeds(f)
  <2>1. UNCHANGED <<deleted, stale>>
    BY <1>4 DEF FileStep, AddRows, EnsureBuckets, UploadChunk, UploadEnds, DeleteStarts, DeletePrefix
  <2>2. deleted \subseteq StoredFiles
    BY DEF RepairInv, TypeOK
  <2> QED
    BY <1>2, <2>1, <2>2 DEF RepairInv, StaleInv
<1> QED
  BY <1>3, <1>4

\* A job forgets its marks only when it no longer works, and what it reads anew is of
\* files that are not deleted.
LEMMA RepairStale ==
    ASSUME RepairInv, NEW r \in Threads, RepairStep(r) \/ RepairFault(r)
    PROVE  StaleInv'
<1>0. TypeOK /\ StaleInv /\ \A f \in StoredFiles : FileOrder(f)
  BY DEF RepairInv
<1>1. deleted' = deleted /\ deleted \subseteq StoredFiles /\ job \in [Threads -> Job]
  BY <1>0, RepairMoves DEF TypeOK
<1>2. \A q \in Threads \ {r} : job'[q] = job[q]
  BY <1>0, RepairMoves, MovesType
<1>3. \A q \in Threads \ {r}, f \in deleted : <<q, f>> \in stale => <<q, f>> \in stale'
  BY DEF RepairStep, RepairFault, Collect, Stat, Get, PutCopy, Commit, DatabaseFails, StatFails,
     CopyFails, Forgets
<1>4. CASE Commit(r) \/ DatabaseFails(r)
  <2>1. job'[r] \in {Ended(r), Died(r)}
    BY <1>1, <1>4 DEF Commit, DatabaseFails, Moves
  <2>2. ~Working(r)'
    BY <2>1, WithoutOK DEF Ended, Died, Working
  <2> QED
    BY <1>0, <1>1, <1>2, <1>3, <2>2 DEF StaleInv, Knows, Working
<1>5. CASE ~(Commit(r) \/ DatabaseFails(r))
  <2>1. stale' = stale
    BY <1>5 DEF RepairStep, RepairFault, Collect, Stat, Get, PutCopy, StatFails, CopyFails
  <2>2. job[r].pc = "waiting" \/ Working(r)
    BY <1>5 DEF RepairStep, RepairFault, Collect, Stat, Get, PutCopy, StatFails, CopyFails, Working
  <2>3. ASSUME NEW f \in deleted, Knows(r, f)' PROVE <<r, f>> \in stale
    <3>1. PICK o \in job'[r].known : o[1] = f
      BY <2>3 DEF Knows
    <3>2. o \notin rows
      BY <1>0, <1>1, <3>1 DEF FileOrder
    <3>3. job'[r].known = job[r].known
      BY <1>0, <3>1, <3>2, RepairMoves
    <3>4. Working(r)
      <4>1. job[r].pc # "waiting"
        <5>1. CASE Collect(r)
          <6>1. job'[r].known \in {{}, rows}
            <7>1. \A targets : FirstChunk(rows, targets).known = rows
              BY DEF FirstChunk, At
            <7>2. Without("commit").known = {}
              BY WithoutOK
            <7> QED
              BY <1>1, <5>1, <7>1, <7>2 DEF Collect, Moves
          <6> QED
            BY <3>1, <3>2, <6>1
        <5>2. CASE ~Collect(r)
          BY <1>5, <5>2 DEF RepairStep, RepairFault, Stat, Get, PutCopy, StatFails, CopyFails
        <5> QED
          BY <5>1, <5>2
      <4> QED
        BY <2>2, <4>1
    <3> QED
      BY <1>0, <3>1, <3>3, <3>4 DEF StaleInv, Knows
  <2> QED
    BY <1>0, <1>1, <1>2, <2>1, <2>3 DEF StaleInv, Knows, Working
<1> QED
  BY <1>4, <1>5

LEMMA RestartStale == RepairInv /\ Restart => StaleInv'
<1> SUFFICES ASSUME RepairInv, Restart PROVE StaleInv'
  OBVIOUS
<1>1. \A r \in Threads : job'[r].pc \in {"waiting", "over"}
  BY WithoutOK DEF Restart
<1> QED
  BY <1>1 DEF StaleInv, Knows, Working

-----------------------------------------------------------------------------
(* The round of the daemon. *)

\* What RoundOK says of the working job of r apart from the chunk in hand.
Behind(r, store) ==
    /\ \A e \in Endpoints : e \notin Range(job[r].targets) /\ bucket[e] =>
           \A o \in job[r].known : Copied(store, o, e)
    /\ bucket[target(r)] =>
           \A i \in Later(job[r].known, 0) : i < job[r].at => Copied(store, ChunkOrder[i], target(r))

\* A chunk that is done with, because the target has it or nobody has.
LEMMA AfterChunkRound ==
    ASSUME TypeOK, NEW r \in Threads, Working(r), NEW store, Behind(r, store),
           bucket[target(r)] => Copied(store, chunk(r), target(r))
    PROVE  RoundOK(AfterChunk(r), store)
<1>1. /\ JobOK(job[r]) /\ job[r].known \in SUBSET Chunks /\ job[r].targets \in Seq(Endpoints)
      /\ job[r].targets # <<>> /\ job[r].at \in Nat /\ job[r].at \in Later(job[r].known, 0)
  BY JobFacts DEF JobOK, Working
<1>2. /\ Range(job[r].targets) = {target(r)} \union Range(Tail(job[r].targets))
      /\ target(r) \in Endpoints
  BY <1>1, HeadAndTail DEF target
<1>3. /\ Later(job[r].known, 0) \in SUBSET Nat
      /\ \A i \in Later(job[r].known, 0) : i \notin Rest(r) => i <= job[r].at
  BY <1>1, PositionFacts DEF Rest
<1>4. bucket[target(r)] => \A i \in Later(job[r].known, 0) :
          i <= job[r].at => Copied(store, ChunkOrder[i], target(r))
  <2> SUFFICES ASSUME bucket[target(r)], NEW i \in Later(job[r].known, 0), i <= job[r].at
               PROVE  Copied(store, ChunkOrder[i], target(r))
    OBVIOUS
  <2>1. i < job[r].at \/ i = job[r].at
    BY <1>1, <1>3
  <2> QED
    BY <2>1 DEF Behind, chunk
<1>5. CASE Rest(r) # {}
  <2> DEFINE j == AfterChunk(r)
  <2>1. /\ j.pc \in {"stat", "commit"} /\ j.known = job[r].known /\ j.targets = job[r].targets
        /\ j.at \in Rest(r) /\ \A i \in Rest(r) : j.at <= i
    BY <1>5, AfterChunkOK
  <2> HIDE DEF j
  <2>2. \A i \in Later(job[r].known, 0) : i < j.at => i <= job[r].at
    <3>1. Rest(r) \subseteq Later(job[r].known, 0)
      BY <1>1, PositionFacts DEF Rest
    <3> QED
      BY <1>1, <1>3, <2>1, <3>1
  <2>3. Head(j.targets) = target(r)
    BY <2>1 DEF target
  <2>4. RoundOK(j, store)
    BY <1>4, <2>1, <2>2, <2>3 DEF RoundOK, Behind
  <2> QED
    BY <2>4 DEF j
<1>6. CASE Rest(r) = {}
  <2> DEFINE j == AfterTarget(r)
  <2>1. /\ j.pc \in {"stat", "commit"} /\ j.known = job[r].known /\ j.targets = Tail(job[r].targets)
        /\ \A i \in Later(job[r].known, 0) : j.at <= i
    BY AfterTargetOK
  <2>2. JobOK(j)
    BY AfterTargetOK
  <2>3. AfterChunk(r) = j
    BY <1>6 DEF AfterChunk
  <2> HIDE DEF j
  <2>4. \A i \in Later(j.known, 0) : ~(i < j.at)
    <3>1. j.at \in Nat
      BY <2>2 DEF JobOK, Job
    <3> QED
      BY <1>3, <2>1, <3>1
  <2>5. ASSUME NEW e \in Endpoints, e \notin Range(j.targets), bucket[e], NEW o \in j.known
        PROVE  Copied(store, o, e)
    <3>1. CASE e = target(r)
      <4>1. PICK i \in Later(job[r].known, 0) : ChunkOrder[i] = o
        BY <1>1, <2>1, <2>5, EveryChunkHasAPosition
      <4>2. i <= job[r].at
        BY <1>3, <1>6
      <4> QED
        BY <1>4, <2>5, <3>1, <4>1, <4>2
    <3>2. CASE e # target(r)
      BY <1>2, <2>1, <2>5, <3>2 DEF Behind
    <3> QED
      BY <3>1, <3>2
  <2>6. RoundOK(j, store)
    BY <2>1, <2>4, <2>5 DEF RoundOK
  <2> QED
    BY <2>3, <2>6
<1> QED
  BY <1>5, <1>6

\* A source that has no copy is passed over; the last one shows that nobody has.
LEMMA TrySourceRound ==
    ASSUME TypeOK, NEW r \in Threads, Working(r), Behind(r, objects),
           NEW e \in 0..NumEndpoints,
           bucket[target(r)] =>
               /\ chunk(r) \notin objects[target(r)]
               /\ \A s \in Endpoints : s <= e /\ s # target(r) => chunk(r) \notin objects[s]
    PROVE  RoundOK(TrySource(r, e), objects)
<1>1. CASE SourcesAfter(r, e) = {}
  <2>1. \A s \in Endpoints : s <= e \/ s = target(r)
    BY <1>1 DEF SourcesAfter, Endpoints
  <2>2. bucket[target(r)] => Copied(objects, chunk(r), target(r))
    BY <2>1 DEF Copied
  <2> QED
    BY <1>1, <2>2, AfterChunkRound DEF TrySource
<1>2. CASE SourcesAfter(r, e) # {}
  <2> DEFINE j == TrySource(r, e)
  <2>1. /\ j.pc = "get" /\ j.known = job[r].known /\ j.targets = job[r].targets /\ j.at = job[r].at
        /\ j.source \in SourcesAfter(r, e) /\ \A s \in SourcesAfter(r, e) : j.source <= s
    BY <1>2, TrySourceOK
  <2> HIDE DEF j
  <2>2. \A s \in Endpoints : s < j.source /\ s # target(r) => s <= e
    BY <2>1 DEF SourcesAfter, Endpoints
  <2>3. Head(j.targets) = target(r) /\ ChunkOrder[j.at] = chunk(r)
    BY <2>1 DEF target, chunk
  <2>4. RoundOK(j, objects)
    BY <2>1, <2>2, <2>3 DEF RoundOK, Behind
  <2> QED
    BY <2>4 DEF j
<1> QED
  BY <1>1, <1>2

\* What the invariant says of a working daemon whose round is calm.
LEMMA CalmFacts ==
    ASSUME RepairInv, calm, Working(Daemon)
    PROVE  LET o == chunk(Daemon)
               t == target(Daemon)
           IN  /\ Behind(Daemon, objects)
               /\ bucket[t] =>
                    /\ job[Daemon].pc \in {"get", "put"} => o \notin objects[t]
                    /\ job[Daemon].pc = "get" =>
                         \A s \in Endpoints : s < job[Daemon].source /\ s # t => o \notin objects[s]
                    /\ job[Daemon].pc = "put" => o \in objects[job[Daemon].source]
BY DEF RepairInv, RoundOK, Behind, Working, chunk, target

\* The daemon's put changes what there is of no chunk, only where.
LEMMA PutKeepsBehind ==
    ASSUME RepairInv, calm, job[Daemon].pc = "put", bucket[target(Daemon)],
           objects' = [objects EXCEPT ![target(Daemon)] = @ \union {chunk(Daemon)}]
    PROVE  Behind(Daemon, objects') /\ Copied(objects', chunk(Daemon), target(Daemon))
<1>1. Working(Daemon) /\ TypeOK /\ Daemon \in Threads
  BY DEF Working, RepairInv, Threads
<1>2. target(Daemon) \in Endpoints /\ job[Daemon].source \in Endpoints
  BY <1>1, JobFacts
<1>3. chunk(Daemon) \in objects[job[Daemon].source]
  BY <1>1, CalmFacts
<1>4. objects \in [Endpoints -> SUBSET (StoredFiles \X Nat)]
  BY <1>1 DEF TypeOK, StoreTypeOK
<1>5. \A o : (\E s \in Endpoints : o \in objects'[s]) => (\E s \in Endpoints : o \in objects[s])
  BY <1>2, <1>3, <1>4
<1>6. \A e \in Endpoints : objects[e] \subseteq objects'[e]
  BY <1>2, <1>4
<1>7. \A o, e : e \in Endpoints /\ Copied(objects, o, e) => Copied(objects', o, e)
  BY <1>5, <1>6 DEF Copied
<1>8. Behind(Daemon, objects)
  BY <1>1, CalmFacts
<1>9. Behind(Daemon, objects')
  BY <1>2, <1>7, <1>8 DEF Behind
<1>10. chunk(Daemon) \in objects'[target(Daemon)]
  BY <1>2, <1>4
<1> QED
  BY <1>9, <1>10 DEF Copied

LEMMA DaemonRound ==
    ASSUME RepairInv, RepairStep(Daemon) \/ RepairFault(Daemon), calm'
    PROVE  RoundOK(job[Daemon], objects)'
<1>1. TypeOK /\ Daemon \in Threads /\ job \in [Threads -> Job] /\ bucket' = bucket
      /\ job[Daemon].source \in 1..NumEndpoints /\ NumEndpoints \in Nat
  BY RepairMoves, JobFacts, NumEndpointsAssumption DEF RepairInv, Threads, TypeOK, Endpoints
<1>2. \A j : Moves(Daemon, j) => job'[Daemon] = j
  BY <1>1 DEF Moves
<1>3. RoundOK(job'[Daemon], objects') => RoundOK(job[Daemon], objects)'
  BY <1>1 DEF RoundOK, Copied
<1>4. ~Commit(Daemon) /\ ~RepairFault(Daemon)
  BY DEF Commit, RepairFault, DatabaseFails, StatFails, CopyFails
<1>5. CASE Collect(Daemon)
  <2>1. Moves(Daemon, Without("commit")) \/ Moves(Daemon, FirstChunk(rows, [e \in Endpoints |-> e]))
    BY <1>5 DEF Collect, Wanted
  <2>2. CASE Moves(Daemon, Without("commit"))
    <3>1. RoundOK(Without("commit"), objects')
      BY WithoutOK DEF RoundOK
    <3> QED
      BY <1>2, <1>3, <2>2, <3>1
  <2>3. CASE Moves(Daemon, FirstChunk(rows, [e \in Endpoints |-> e])) /\ rows # {}
    <3> DEFINE all == [e \in Endpoints |-> e]
               j == FirstChunk(rows, all)
    <3>1. Range(all) = Endpoints
      BY DEF Range
    <3>2. all \in Seq(Endpoints) /\ all # <<>>
      <4>1. all \in [1..NumEndpoints -> Endpoints]
        BY DEF Endpoints
      <4>2. all \in Seq(Endpoints)
        BY <4>1, SeqDef, NumEndpointsAssumption
      <4>3. 1 \in DOMAIN all
        BY OneIsAnEndpoint
      <4> QED
        BY <4>2, <4>3
    <3>3. rows \in SUBSET Chunks
      BY <1>1 DEF TypeOK
    <3> HIDE DEF all
    <3>4. /\ j.pc = "stat" /\ j.known = rows /\ j.targets = all
          /\ j.at = Min(Later(rows, 0)) /\ Min(Later(rows, 0)) \in Later(rows, 0)
          /\ \A i \in Later(rows, 0) : Min(Later(rows, 0)) <= i
      BY <2>3, <3>2, <3>3, FirstChunkOK
    <3>5. Later(rows, 0) \in SUBSET Nat
      BY PositionFacts
    <3> HIDE DEF j
    <3>6. RoundOK(j, objects')
      BY <3>1, <3>4, <3>5 DEF RoundOK
    <3> QED
      BY <1>2, <1>3, <2>3, <3>6 DEF j, all
  <2>4. CASE rows = {}
    <3>1. Moves(Daemon, Without("commit"))
      BY <1>5, <2>4 DEF Collect
    <3> QED
      BY <2>2, <3>1
  <2> QED
    BY <2>1, <2>2, <2>3, <2>4
<1>6. CASE Stat(Daemon)
  <2>1. calm /\ Working(Daemon) /\ objects' = objects
    BY <1>6 DEF Stat, Working, storeVars
  <2>2. Behind(Daemon, objects)
    BY <2>1, CalmFacts
  <2>3. CASE chunk(Daemon) \in objects[target(Daemon)]
    <3>1. RoundOK(AfterChunk(Daemon), objects)
      BY <1>1, <2>1, <2>2, <2>3, AfterChunkRound DEF Copied
    <3> QED
      BY <1>2, <1>3, <1>6, <2>1, <2>3, <3>1 DEF Stat
  <2>4. CASE chunk(Daemon) \notin objects[target(Daemon)]
    <3>1. 0 \in 0..NumEndpoints /\ \A s \in Endpoints : ~(s <= 0)
      BY <1>1 DEF Endpoints
    <3>2. RoundOK(TrySource(Daemon, 0), objects)
      BY <1>1, <2>1, <2>2, <2>4, <3>1, TrySourceRound
    <3> QED
      BY <1>2, <1>3, <1>6, <2>1, <2>4, <3>2 DEF Stat
  <2> QED
    BY <2>3, <2>4
<1>7. CASE Get(Daemon)
  <2>1. calm /\ Working(Daemon) /\ objects' = objects /\ job[Daemon].pc = "get"
    BY <1>7 DEF Get, Working, storeVars
  <2> DEFINE o == chunk(Daemon)
             t == target(Daemon)
             e == job[Daemon].source
  <2>2. /\ Behind(Daemon, objects)
        /\ bucket[t] => /\ o \notin objects[t]
                        /\ \A s \in Endpoints : s < e /\ s # t => o \notin objects[s]
    BY <2>1, CalmFacts
  <2>3. CASE o \in objects[e]
    <3> DEFINE j == [job[Daemon] EXCEPT !.pc = "put"]
    <3>1. /\ j.pc = "put" /\ j.known = job[Daemon].known /\ j.targets = job[Daemon].targets
          /\ j.at = job[Daemon].at /\ j.source = e
      BY <1>1 DEF Job
    <3>2. job'[Daemon] = j
      BY <1>2, <1>7, <2>3 DEF Get
    <3> HIDE DEF j
    <3>3. RoundOK(j, objects)
      BY <2>2, <2>3, <3>1 DEF RoundOK, Behind, target, chunk
    <3> QED
      BY <1>3, <2>1, <3>2, <3>3
  <2>4. CASE o \notin objects[e]
    <3>1. e \in 0..NumEndpoints /\ \A s \in Endpoints : s <= e => s < e \/ s = e
      BY <1>1 DEF Endpoints
    <3>2. RoundOK(TrySource(Daemon, e), objects)
      <4>1. bucket[t] => /\ o \notin objects[t]
                         /\ \A s \in Endpoints : s <= e /\ s # t => o \notin objects[s]
        BY <2>2, <2>4, <3>1
      <4> QED
        BY <1>1, <2>1, <2>2, <3>1, <4>1, TrySourceRound
    <3> QED
      BY <1>2, <1>3, <1>7, <2>1, <2>4, <3>2 DEF Get
  <2> QED
    BY <2>3, <2>4
<1>8. CASE PutCopy(Daemon)
  <2>1. calm /\ Working(Daemon) /\ job[Daemon].pc = "put"
    BY <1>8 DEF PutCopy, Working
  <2>2. CASE bucket[target(Daemon)]
    <3>1. chunk(Daemon) = <<chunk(Daemon)[1], chunk(Daemon)[2]>>
      BY <1>1, <2>1, JobFacts, ChunksArePairs
    <3>2. objects' = [objects EXCEPT ![target(Daemon)] = @ \union {chunk(Daemon)}]
      BY <1>8, <2>2, <3>1 DEF PutCopy, Put
    <3>3. Behind(Daemon, objects') /\ Copied(objects', chunk(Daemon), target(Daemon))
      BY <2>1, <2>2, <3>2, PutKeepsBehind
    <3>4. RoundOK(AfterChunk(Daemon), objects')
      BY <1>1, <2>1, <3>3, AfterChunkRound
    <3> QED
      BY <1>2, <1>3, <1>8, <2>2, <3>4 DEF PutCopy
  <2>3. CASE ~bucket[target(Daemon)]
    <3>1. objects' = objects /\ job'[Daemon] = TrySource(Daemon, job[Daemon].source)
      BY <1>2, <1>8, <2>3 DEF PutCopy
    <3>2. Behind(Daemon, objects) /\ job[Daemon].source \in 0..NumEndpoints
      BY <1>1, <2>1, CalmFacts
    <3>3. RoundOK(TrySource(Daemon, job[Daemon].source), objects)
      BY <1>1, <2>1, <2>3, <3>2, TrySourceRound
    <3> QED
      BY <1>3, <3>1, <3>3
  <2> QED
    BY <2>2, <2>3
<1> QED
  BY <1>4, <1>5, <1>6, <1>7, <1>8 DEF RepairStep

\* Whatever else leaves the daemon's round calm changes neither the store nor its job.
LEMMA CalmElsewhere ==
    ASSUME RepairInv, calm',
           \/ \E f \in StoredFiles : FileStep(f)
           \/ \E e \in Endpoints : Wipe(e)
           \/ \E r \in Requests : RepairStep(r) \/ RepairFault(r)
           \/ Restart
           \/ UNCHANGED vars
    PROVE  calm /\ UNCHANGED <<objects, bucket>> /\ job'[Daemon] = job[Daemon]
<1>1. CASE \E f \in StoredFiles : FileStep(f)
  <2>1. PICK f \in StoredFiles : FileStep(f)
    BY <1>1
  <2>2. AddRows(f) \/ UploadEnds(f) \/ DeleteStarts(f) \/ DeleteSucceeds(f)
    BY <2>1 DEF FileStep, EnsureBuckets, UploadChunk, DeletePrefix
  <2> QED
    BY <2>2 DEF AddRows, UploadEnds, DeleteStarts, DeleteSucceeds, storeVars
<1>2. CASE \E e \in Endpoints : Wipe(e)
  BY <1>2 DEF Wipe
<1>3. CASE \E r \in Requests : RepairStep(r) \/ RepairFault(r)
  <2>1. PICK r \in Requests : RepairStep(r) \/ RepairFault(r)
    BY <1>3
  <2>2. r \in Threads /\ Daemon \in Threads /\ r # Daemon
    BY DaemonAssumption DEF Threads
  <2>3. calm /\ objects' = objects
    BY <2>1, <2>2 DEF RepairStep, RepairFault, Collect, Stat, Get, PutCopy, Commit, DatabaseFails,
       StatFails, CopyFails, storeVars
  <2>4. job'[Daemon] = job[Daemon] /\ bucket' = bucket
    BY <2>1, <2>2, RepairMoves, MovesType DEF RepairInv
  <2> QED
    BY <2>3, <2>4
<1>4. CASE Restart
  BY <1>4 DEF Restart
<1>5. CASE UNCHANGED vars
  BY <1>5 DEF vars, storeVars
<1> QED
  BY <1>1, <1>2, <1>3, <1>4, <1>5

LEMMA RepairInitInv == Init => RepairInv
<1> SUFFICES ASSUME Init PROVE RepairInv
  OBVIOUS
<1>1. TypeOK
  BY InitType
<1>2. (\A f \in StoredFiles : FileOrder(f)) /\ StaleInv /\ ~calm
  BY DEF Init, FileOrder, StaleInv
<1> QED
  BY <1>1, <1>2 DEF RepairInv

LEMMA RepairNextInv == RepairInv /\ [Next]_vars => RepairInv'
<1> SUFFICES ASSUME RepairInv, [Next]_vars PROVE RepairInv'
  OBVIOUS
<1>1. TypeOK /\ TypeOK'
  BY NextType DEF RepairInv
<1>2. (\A f \in StoredFiles : FileOrder(f)') /\ StaleInv'
  <2>1. ASSUME NEW f \in StoredFiles, FileStep(f)
        PROVE  (\A g \in StoredFiles : FileOrder(g)') /\ StaleInv'
    BY <2>1, FileOrderStep, FileStepStale
  <2>2. ASSUME NEW e \in Endpoints, Wipe(e)
        PROVE  (\A g \in StoredFiles : FileOrder(g)') /\ StaleInv'
    <3>1. UNCHANGED <<rows, upload, removing, deleted, job, stale>>
      BY <2>2 DEF Wipe, fileVars
    <3>2. StaleInv'
      BY <3>1 DEF RepairInv, StaleInv, Knows, Working
    <3> QED
      BY <3>1, <3>2, OthersKeepFileOrder
  <2>3. ASSUME NEW r \in Threads, RepairStep(r) \/ RepairFault(r)
        PROVE  (\A g \in StoredFiles : FileOrder(g)') /\ StaleInv'
    BY <1>1, <2>3, RepairMoves, OthersKeepFileOrder, RepairStale
  <2>4. CASE Restart
    <3>1. UNCHANGED <<rows, upload, removing, deleted>>
      BY <2>4 DEF Restart, fileVars
    <3> QED
      BY <2>4, <3>1, OthersKeepFileOrder, RestartStale
  <2>5. CASE UNCHANGED vars
    <3>1. UNCHANGED <<rows, upload, removing, deleted, job, stale>>
      BY <2>5 DEF vars, fileVars
    <3>2. StaleInv'
      BY <3>1 DEF RepairInv, StaleInv, Knows, Working
    <3> QED
      BY <3>1, <3>2, OthersKeepFileOrder
  <2> QED
    BY <2>1, <2>2, <2>3, <2>4, <2>5 DEF Next
<1>3. ASSUME calm' PROVE RoundOK(job[Daemon], objects)'
  <2>1. CASE RepairStep(Daemon) \/ RepairFault(Daemon)
    BY <1>3, <2>1, DaemonRound
  <2>2. CASE ~(RepairStep(Daemon) \/ RepairFault(Daemon))
    <3>1. calm /\ UNCHANGED <<objects, bucket>> /\ job'[Daemon] = job[Daemon]
      BY <1>3, <2>2, CalmElsewhere DEF Next, Threads
    <3>2. RoundOK(job[Daemon], objects)
      BY <3>1 DEF RepairInv
    <3> QED
      BY <3>1, <3>2 DEF RoundOK, Copied
  <2> QED
    BY <2>1, <2>2
<1> QED
  BY <1>1, <1>2, <1>3 DEF RepairInv

\* One round of the daemon that nothing disturbs leaves on every endpoint it has been
\* through each known chunk of which there is a copy anywhere, whatever rounds, faults
\* and replaced nodes came before.
THEOREM OneRoundIsEnough == Spec => []OneRoundRestores
<1>1. RepairInv => OneRoundRestores
  BY DEF RepairInv, RoundOK, OneRoundRestores, Repaired, Copied
<1> QED
  BY <1>1, RepairInitInv, RepairNextInv, PTL DEF Spec

\* A job that still works from rows of a deleted file read them before they were removed.
THEOREM OnlyOldRowsAreStale == Spec => []StaleInv
<1>1. RepairInv => StaleInv
  BY DEF RepairInv
<1> QED
  BY <1>1, RepairInitInv, RepairNextInv, PTL DEF Spec

\* Nobody but such a job puts a chunk of a deleted file anywhere, by its own copy.
LEMMA DeletedStepsAreStale ==
    ASSUME RepairInv, [Next]_vars, NEW f \in deleted, NEW e \in Endpoints
    PROVE  \/ OfFile(e, f)' \subseteq OfFile(e, f)
           \/ \E r \in Threads : <<r, f>> \in stale /\ Copies(r, e)
<1>0. /\ TypeOK /\ f \in StoredFiles /\ upload[f] = "over"
      /\ objects \in [Endpoints -> SUBSET (StoredFiles \X Nat)]
  BY DEF RepairInv, TypeOK, StoreTypeOK, FileOrder
<1>1. ASSUME \A o \in objects'[e] : o \in objects[e] \/ o[1] # f
      PROVE  OfFile(e, f)' \subseteq OfFile(e, f)
  BY <1>1 DEF OfFile
<1>2. ASSUME NEW g \in StoredFiles, FileStep(g)
      PROVE  \A o \in objects'[e] : o \in objects[e] \/ o[1] # f
  <2>1. CASE UploadChunk(g)
    <3>1. g # f /\ ChunkOrder[Min(ToStore(g))][1] = g
      BY <1>0, <2>1, ToStoreFacts DEF UploadChunk
    <3>2. \A o \in objects'[e] : o \in objects[e] \/ o = ChunkOrder[Min(ToStore(g))]
      BY <2>1 DEF UploadChunk
    <3> QED
      BY <3>1, <3>2
  <2>2. CASE DeletePrefix(g)
    BY <1>0, <2>2 DEF DeletePrefix, RemovePrefix, RemoveFails
  <2>3. CASE ~UploadChunk(g) /\ ~DeletePrefix(g)
    BY <1>2, <2>3 DEF FileStep, AddRows, EnsureBuckets, UploadEnds, DeleteStarts, DeleteSucceeds,
       storeVars
  <2> QED
    BY <2>1, <2>2, <2>3
<1>3. ASSUME NEW d \in Endpoints, Wipe(d)
      PROVE  \A o \in objects'[e] : o \in objects[e] \/ o[1] # f
  BY <1>0, <1>3 DEF Wipe
<1>4. ASSUME NEW r \in Threads, RepairStep(r) \/ RepairFault(r)
      PROVE  \/ \A o \in objects'[e] : o \in objects[e] \/ o[1] # f
             \/ <<r, f>> \in stale /\ Copies(r, e)
  <2>1. CASE objects' = objects
    BY <2>1
  <2>2. CASE Working(r) /\ objects' = [objects EXCEPT ![target(r)] = @ \union {chunk(r)}]
    <3>1. \A o \in objects'[e] : o \in objects[e] \/ o = chunk(r)
      BY <1>0, <2>2
    <3>2. chunk(r)[1] = f => <<r, f>> \in stale
      BY <1>0, <2>2, KnowsItsChunk DEF RepairInv, StaleInv
    <3>3. e # target(r) => objects'[e] = objects[e]
      BY <1>0, <2>2
    <3>4. objects' # objects => job[r].pc = "put" /\ job'[r] # job[r]
      BY <1>0, <1>4, PutIsOver
    <3> QED
      BY <3>1, <3>2, <3>3, <3>4 DEF Copies
  <2> QED
    BY <1>0, <1>4, <2>1, <2>2, RepairPuts
<1>5. CASE Restart \/ UNCHANGED vars
  BY <1>1, <1>5 DEF Restart, vars, storeVars
<1> QED
  BY <1>1, <1>2, <1>3, <1>4, <1>5 DEF Next

\* Once a delete has removed the rows of a file its chunks only become fewer on every
\* endpoint, but for a repair that had read those rows before.
THEOREM DeletedChunksStayAway == Spec => OnlyStaleJobsResurrect
<1>1. RepairInv /\ [Next]_vars =>
          [\A f \in deleted : \A e \in Endpoints :
               \/ OfFile(e, f)' \subseteq OfFile(e, f)
               \/ \E r \in Threads : <<r, f>> \in stale /\ Copies(r, e)]_vars
  BY DeletedStepsAreStale
<1> QED
  BY <1>1, RepairInitInv, RepairNextInv, PTL DEF Spec, OnlyStaleJobsResurrect
=============================================================================
