# Rudy Drive in TLA+

Rudy Drive keeps files in chunks on several MinIO endpoints. A FastAPI backend
(`backend/app`) keeps the records in PostgreSQL and publishes tasks on RabbitMQ; Python
workers (`distributed/workers`) carry them out on MinIO and report back over HTTP; a React
client uploads, deletes, downloads and polls. Source paths below are relative to `src/`.
`PROJECT.json` maps each definition to the lines it stands for.

## 1. Inventory

| Component | State | Operations | What is hard | What makes it correct |
|---|---|---|---|---|
| Backend records (`backend/app/main.py`, `models.py`) | rows of `files`, `file_chunks`, `tasks` | `create_file`, `delete_file`, `task_success`, `task_failure` | three commits and a publish per upload; callbacks late, repeated, in any order, each in a thread of its own | every status was reported; a status rests on a task and the rows on their file, unless a report was overtaken; removed rows stay removed |
| Message bus and queues (`message_bus.py`, `rabbitmq_client.py`, `queue_worker.py`) | queues, deliveries, `_retry_count` | publish, deliver, ack, republish, discard, reconnect | lost acknowledgements, crashes, copy and original apart | no accepted message is forgotten; given up only after every retry |
| Upload worker (`upload_worker.py`, `chunk_storage.py`) | where its handler stands | `put_object_all` per chunk, report | fails half way; the report times out and still arrives | a ready file is stored |
| Delete worker (`delete_worker.py`) | where its handler stands | `delete_prefix_all`, report | swallows the errors of endpoints; overtakes the upload | a delete after the upload, with no failed call, leaves nothing |
| Object store (`shared/minio_client.py`; MinIO external) | objects and buckets per endpoint | put, get, stat, list, remove | each call may fail, or fail after having acted | one endpoint with a chunk suffices |
| Storage repair (`main.py:113-240`) | a job per thread | snapshot of rows, copy target by target | works minutes from old rows while files come and go; daemon thread may die | endpoints converge; no chunk of a deleted file returns |
| Download (`main.py:433-526`) and download worker (`chunk_recovery.py`) | the endpoint chosen per chunk, what is sent | search, then stream | the store changes between search and stream | what stays put is found; what is sent is a prefix |
| Storage report (`main.py:756-`) | lists per endpoint | ask every endpoint | chunks move meanwhile | only a moved chunk is missed |
| Chunk layout (`_build_file_chunks`, `store_bytes`, `store_stream`) | none | cut and join | three loops, two settings of the chunk size | joining gives the file back |
| Web client (`frontend/rudydrive`, `FileSys.tsx`, `api.ts`) | token, user, list, two spinners, error; the async functions under way | login, register, upload, delete, refresh, logout, reload | nothing cancels an async function: its answers come after a logout, another login, a newer list | the page acts and shows for the account it displays; when all is quiet it is true |
| Node registry and heartbeat (`heartbeat.py`, `main.py:697-`, `health_services.py`) | the loop of a host, `nodes` rows | beat, `node_heartbeat`, `check_workers` | look and insert in two steps; strays of beats that timed out; a connection found broken late | a live host is counted, a dead one expires, one row per host |
| Accounts and authentication | `users` | register, login, `get_current_user` | two registrations of an address | the unique index; nobody acts on another's files |
| Health checks, worker log, configuration, deployment | none or append-only | | | |

How they interact: the client calls the backend over HTTP; the backend commits a task and
publishes a message naming it; the queue hands it to one worker at a time, again after a
failure; the worker acts on MinIO and calls `POST /internal/tasks/success` or `/failure`;
downloads, repairs and the report read MinIO straight from the backend, by the rows in the
database. Nothing locks across any two of these: records, messages and objects agree only
through the order of the steps. The hazards this causes are in `PROJECT.json`, each at its
line, with the properties that would show it going wrong.

## 2. Modules

| Module | Models | Builds on |
|---|---|---|
| `JobContract` | what queue and workers promise about one message | |
| `JobQueue` | queues and `QueueWorker` loops | implements `JobContract` |
| `Backend` | records, one action per commit | |
| `TaskTransactions` | the same handlers, one action per SQL statement | `Backend` |
| `ChunkStore` | what one call on one endpoint does | |
| `RudyDrive` | upload and delete end to end | `Backend`, `JobQueue`, `ChunkStore` |
| `StorageRepair` | repair jobs beside uploads, deletes, replaced nodes | `ChunkStore` |
| `Download` | three readers of a changing store | `ChunkStore` |
| `Chunking` | cutting and joining | |
| `NodeRegistry` | heartbeats, their rows, `check_workers`, in discrete time | |
| `WebClient` | one page with overlapping flows, and accounts | `Backend` |
| `JobQueueProofs`, `BackendProofs`, `NodeRegistryProofs`, `TaskTransactionsProofs`, `StorageRepairProofs` | theorems | the module named |
| `DownloadProofs` | theorems | `Download`, `Chunking` |
| `RudyDriveProofs` | theorems | `RudyDrive`, `BackendProofs`, `JobQueueProofs` |
| `WebClientProofs` | theorems | `WebClient`, `BackendProofs` |
| `MC...` | small instances | the module named |

**JobQueue.** A worker has a place in its loop (`pc`), the delivery it holds (`held`) and
whether its channel is still `open`; the last two differ exactly when the broker has taken a
delivery back and the worker does not know. `on_message` is split where a fault can come
between: `HandlerReturns`/`HandlerRaises`, then `Acknowledge`, `Republish` (the copy, on a
connection of its own) then `Acknowledge`, `Discard`, or `RepublishFails` (reached or not, the
original requeued). `LoseConnection` and `Crash` are the broker's redelivery.
`succeeded`, `exhausted`, `failedAt` are history, the variables of `JobContract`.

**Backend.** `create_file` is `CommitFile`, `CommitRows`, `CommitUploadTask`, then the
publication (`Sent`); `AbortCreate` is an exception between. `RequestDelete` and the two callbacks are
one step each, taken at their commit. All rows of a file are written together, so `rowStatus` has
one status per file. A task is named by its type, file and, for deletes, a number.

A callback reads task, file and rows in three SELECTs, and SQLAlchemy does not write an attribute that is
assigned the value it was loaded with. One that found an item already as it wants it leaves that item
to whoever changes it before the commit: the callback is *overtaken*. `TaskSuccess(t, left)` and
`TaskFailure(t, left)` therefore write all but a set `left` of the items `task`, `file` and
`rows`, any part of `MayLeave`: what is now otherwise than the report makes it and what an earlier report
(history `reported`) had made so, when it may have been read. `overtaken` has the files of which the last
committed report left something out. This is why the records promise two things:

* `StatusIsReported`, always: whatever overlaps and is left out, each status of task, file and rows is one
  that a report on it set, and a report that is answered leaves none of them pending;
* `RecordsAgree`, of files not `overtaken`: some task explains the file's status and the rows do not say
  otherwise. Three callbacks are enough to break it of one that is overtaken: a failure commits; a second
  failure reads task and file as failed; a success commits; the second failure reads the rows as ready and
  writes them alone. The file is ready, its rows failed, its task completed, until the next report.

**TaskTransactions.** Is one step each justified? Here a call is a session that reads the task,
then the file, then the rows, each statement seeing what is committed then, and sends its
UPDATEs (the file's first), waiting for the locks of others; `DeadlockVictim` is PostgreSQL's way out,
`UpdateFindsNoRows` the `StaleDataError` after a concurrent delete of the rows. `Missed` is
what a session does not write and another has changed since.
`CommitsAreAtomic` says that every commit is one step of `Backend` in which `left` is what was `Missed`, so
`Backend` leaves out neither too much nor too little; TLC also finds `StatusIsReported`, `RecordsAgree` and
`RowsNeverReturn` true of the statements themselves. `FailureIsRecorded` is
the run that shows a history with an overtaken failure. `retry_count` is `tasks.retry_count` as each
call has read it (`sawCount`) and written it back. Concurrent failure reports may count too few;
`RetryCountIsPlausible` says that they never count more than was reported.

**RudyDrive.** `INSTANCE JobQueue` with tasks as jobs and the two queues; the handler is opened up
in `progress`. `StoreChunk` is one `put_object` on one endpoint, `RemoveChunks` the listing and removal by
`delete_prefix_all` on one endpoint. A report is carried out, fails, or times out: then it joins `late`
and may be carried out at any later time, as may the one of a worker that dies in the call
(`CrashDuringReport`). Reports under way, late ones and those of workers in the call, may overtake
each other: `Watch`, a conjunct of every step, keeps in `seen` what the backend may have read of each as the
report makes it, and only that may be left out when it is carried out (`Reaches`). `early` records that
a delete was requested before the upload was reported.

**StorageRepair.** `ChunkOrder` is the order in which the database returns rows. A job is the set
`known` of the rows it has read, the `targets` left, the position `at` in that order and the source:
`Collect`, then per target and chunk `Stat`, `Get` from source after source, `PutCopy`, at last
`Commit`, which sends the daemon back to `waiting`. An exception outside the inner `try` kills
the daemon's thread (`dead`) until `Restart`. The upload's put on all endpoints
is one step per chunk here: any set of the endpoints with a bucket has the chunk afterwards, the upload goes
on if one of them said so, and is over otherwise, as `put_object_all` raises; the delete goes
endpoint by endpoint. A replaced node (`Wipe`) has no bucket: it answers stat with `NoSuchKey` and
refuses puts until the next upload creates the bucket.

**Download.** `reader` chooses among `GET /files/{id}/download` (`CheckStatus`, `ReadRows`, `Stat`
over chunks and endpoints, `Stream`), the download worker (`Recover`) and
`GET /nodes/storage-chunks` (`Survey`). The rest of the system is `Leaves`, `Comes`,
`StatusChanges`. `kept` is the history of what never left.

**Chunking.** Bytes are small values, sizes small numbers. `Split` is the loop of `store_bytes` and
`_build_file_chunks`; `StoreSlice` is a turn of `store_bytes`, which the upload worker calls, `StoreRead` one of
the buffered loop of `store_stream`, which nothing calls yet (`stream` says which); `Locate` and
`StreamChunk` a download with the backend's row sizes over the worker's objects.

**NodeRegistry.** A tick is 5 seconds, of which every period of the code is a multiple; what is due
happens before the next tick, and what is not due takes no time or, for requests, any time up to
`Patience`: `urlopen(timeout=5)` bounds each wait of a request, and not the request, which waits twice, to connect
and for the answer. So a `TimeOut` comes after one such wait at the earliest and two at the latest. `place` and `left` are where the loop of a host stands and for how long
at most. A connection to RabbitMQ breaks unseen (`linked`): the next publish loses its
message and raises, or the one after. `notify_backend` swallows refusals, errors and timeouts, whereas
a backend that dies in the middle of a request raises through it and makes the loop begin
again. `node_heartbeat` is `Read` (SELECT and `utcnow`) and `Commit` (INSERT or UPDATE): a request its
host has given up goes on as a stray. `calm`, `seen`, `abandoned` are history.

**WebClient.** A click starts a flow, which carries the token and user id the page had and takes a step
per request and answer; an upload of several files goes file by file (`left`), each with an id of its own.
Every flow ends in `refreshData`, whose lists may be shown (`Show`) in another order than they were read
(`ReadList`): `before` relates the lists that wait, `outrun` marks one that a newer list has overtaken.
`requestJson` has no timeout and nothing aborts a request, so a flow that fails, or a page that is loaded
again, may leave a request that the backend carries out at any later time: it joins `strays`, and
`StrayActs` carries it out. The backend is
`Backend`, with `register` as a SELECT and an INSERT that the unique index may refuse, and with what
`get_current_user` and the `user_id` filters of the handlers permit (`CurrentUser`, `owner`).
The workers are callbacks in any order (`WorkersReport`), which may be overtaken as in `Backend`. `late` and `unanswered` (files made by a stray) are history.

### What is abstracted

* RabbitMQ keeps what it accepted; a message lost before it got there is a failed publish,
  after which the task stays pending (`PublishFails`).
* Left out because nothing that is modelled depends on them: names, sizes, times,
  `error_message`, the counters of a repair, log lines.
* `upload_id` equals `file_id`, as `api.ts` sends it.
* An exception of the worker's logger after a report is the same as a lost answer to the report.
* Listing a prefix and removing what was listed is one step: a put between them equals one after.
* A `put_object` that times out has acted by then, or never does.
* A callback that ends in an exception is rolled back and is no step of `Backend`; in `TaskTransactions` it is.
* The answer to a beat comes in one piece: it is not drip-fed within the timeout of each read.
* Which of its statements a report has come to is left open in `RudyDrive`: it may have read any of the
  items at any time since it was sent. The statements' own order is in `TaskTransactions`.
* Two requests of the page that are alike and both abandoned count as one (`strays` is a set).
* The race of an upload with the delete of its file is in `RudyDrive` only; `StorageRepair` begins a
  delete after the upload is over. Buckets are in `StorageRepair` only.

## 3. Runs

States are distinct states; each run takes from seconds to less than four minutes with two workers.

| Run | Instance | States | Shows |
|---|---|---|---|
| `job_queue` | 1 queue, 2 workers, 2 messages, 1 retry, 2 faults | 51,591 | custody and retries under faults; `ImplementsContract`; `QueuesDrain` |
| `transactions` | 1 file, 3 concurrent requests, 1 delete | 51,831 | the atomicity used by `Backend`; `retry_count`; deadlocks end |
| `rudy_drive` | 1 file of 2 chunks, 2 endpoints, 1 worker per queue, 1 delete, 1 retry, 1 fault, 2 failed calls | 384,815 | ready files are stored, calm deletes clean, accepted tasks reported |
| `storage_repair` | 2 chunks, 3 endpoints, daemon and a request, 1 error, 1 wipe | 1,435,773 | one undisturbed round restores; endpoints converge; only a job with old rows copies chunks of a deleted file |
| `chunking` | all files of up to 6 bytes of 2 values, sizes 1, 2, 3, 4, 7 | 23,327 | what a download delivers for each pair of sizes |
| `download` | 2 chunks, 3 endpoints, 2 changes, 1 failed call | 111,764 | the readers miss only what moved |
| `node_registry` | 1 host, interval 2, timeout 1, pause 1, window 6 ticks, 3 requests at a time, 3 faults | 751,760 | when `/health` counts a host; second rows; the loop recovers |
| `web_client` | 2 files alike, 2 accounts, 3 clicks, 3 flows, 2 deletes each | 1,847,281 | the page acts and shows for its account; the backend's statuses and rows agree |
| `failure_is_final`, `failure_is_recorded`, `delete_leaves_nothing`, `deleted_stays_deleted` | smaller | | the disagreements of section 6 |

Why the bounds suffice. Two jobs and two workers let a duplicate run beside its original; two
faults let a lost connection be followed by a failed republish; one retry has both a first and a last
attempt. Two delete requests let a file be deleted again after a late upload report revived it; the
paths of an empty file, which has no rows, are covered by the theorems, which hold for every number of chunks. The records of `Backend` are
explored by the statements of `transactions` and within `rudy_drive`; for the page of `web_client` one report suffices,
it tells apart is whether a file is deleted; two accounts and three
flows are a login, the flow it overtakes, and the one whose answer is late. The periods of
`node_registry` are the code's in ticks (10 s, 5 s, 5 s, 30 s); a host gets nothing from another,
so one is enough, and the theorems say so for any number; two strays beside the present request
are what three faults can make. Three calls are needed for a report to be overtaken (one to set
the status, one to change it, one to miss that); two are needed for a deadlock. Two chunks
and two endpoints make "some chunk on some endpoint" differ from "all on one"; the third
endpoint gives a copy a second source and a search a place to move to behind the reader's back.
Two changes are a copy that comes and one that leaves. Data of six bytes ends at, before and after
the boundaries of sizes 1 to 4, and 7 exceeds it. The three endpoints of `storage_repair` let the repair find its
source broken and take the next. Symmetry is used in `web_client` only, between its two files: most
other runs check liveness.

Each `cfg` disables the deadlock check only where the system really stops: once all jobs are settled, a
download is answered, the user has clicked enough, or threads have died. `node_registry` keeps it: a loop and a clock never stop.

Each property has a mutant in `PROJECT.json`: a definition beside the real one, marked "Mutant",
that a plausible bug would put there, with which the property fails. They are used by nothing else.

## 4. Fairness

* A worker's loop goes on (`JobQueue`, `RudyDrive`): `run` is `while True` with a reconnect after any
  exception, its container has `restart: unless-stopped` (in both compose files), and storage and HTTP calls have timeouts. Faults
  and clients have no fairness, and bounds on faults say that they cease.
* The daemon of the repair goes on (`StorageRepair`): its loop sleeps and wakes, its calls end.
  Requests, uploads and deletes need not. `StoreConverges` excepts a dead daemon, since nothing
  starts the thread again but a restart of the backend.
* A reader's thread goes on (`Download`).
* `RudyDrive` assumes of its workers together that some of them goes on as long as one can, which is weaker than of
  each, and of reports given up on nothing.
* Some call that can go on does (`TaskTransactions`); PostgreSQL's `deadlock_timeout` is among
  the steps. It is one condition for all calls, weaker than one for each, and enough since their number is bounded.
* The loop of each host and each handler go on, RabbitMQ is started again and time
  passes (`NodeRegistry`). `distributed/docker-compose.yml` has `restart: unless-stopped` for RabbitMQ; the
  `docker-compose.yml` at the root has not, and there `WorkersComeBack` assumes that somebody starts it. Time passes only when nothing is due, so the handlers' fairness is what
  keeps them within `Patience`; one that does not keep it is the fault `TimeOut`.
* `WebClient` states none: a page may wait for ever, and all its properties are safety.

## 5. Proofs

`tlapm` checks 372 lemmas and theorems, for every value of the constants that satisfies the
`ASSUME`s of the modules (functions of the right type, sizes positive, bounds natural numbers, finitely
many files, workers and queues, the null values outside their types). The chain is always Init, one
lemma per action or group of actions, PTL. The inductive invariants have been checked by TLC on
the instances of section 3 before they were proved.

* **JobQueueProofs.** `IInv == TypeOK /\ NoJobLost /\ RetriesAreEarned /\ ExhaustedAfterEveryRetry`. None is
  inductive alone: that a discard is earned needs that the held copy's retry number was earned, which
  needs that the queued copy's was, and all need the types. Counting up: a copy numbered r exists
  only if `0..r-1 \subseteq failedAt`, an attempt at r adds r, so the discard at `MaxRetries` finds
  `0..MaxRetries`. `QueueImplementsContract` is the safety part of the refinement: each step of the
  queue is a step of the contract or leaves its variables alone.
  `DuplicatesArePaidFor` counts. `Paid(j)` says that the copies of `j` in the queues and in hands
  are at most the faults so far, plus one while `j` is accepted and unsettled. `SlotsOf` makes the queued
  copies a finite set; lemmas give its size after a message is added at either end or taken from
  the head, and `Costs` sums up an action: what it adds in copies it pays by a fault
  or a settled job. A worker that has published a copy, or whose handler has returned, is no hand any more, which is why retries
  cost nothing. `MessagesKeepToTheirQueues` is a separate invariant: requeueing and republishing
  use the queue of the worker, and nothing but it says that this is the queue of the job.
* **BackendProofs.** `BackendInv == BackendTypeOK /\ \A f : FileInv(f)`. `FileInv` has `Told` (`StatusIsReported` of one
  file), `CreationOrder` (what exists at each stage of `create_file`) and, unless the file is
  overtaken, `Witnessed` and `RowsAgree`. A callback can only come for a committed task, and thus never makes
  a file or rows out of nothing; what it leaves out had been set by an earlier report, so it stays told of
  (`MayLeave` and the history `reported`); when it leaves out nothing it sets task, file and rows alike, from
  whatever state, which is why one such report makes the records agree again. `RowsStayRemoved` is the
  action property from the same invariant.
* **NodeRegistryProofs.** `IInv == TypeOK /\ \A h : HostInv(h)`, one part per question. `LoopInv` bounds each wait of
  the loop and says that a calm host has its connection and no strays; `HandlerInv` that the time a
  handler will write is no older than `Patience` allows. `FreshInv` is what makes `CalmHostIsActive`
  inductive: with `Due` the time by which the next answer is there, either `calm + Due` is still within the
  first beat or some row's age plus `Due` is at most `Interval + 2 * Patience`. Both sums stay the same at a
  tick; the second falls when a beat is answered. That it is within the window is the assumption
  `Interval + 2 * Patience <= Window`, `Patience` being `2 * Timeout`, which the code's 10, 5 and 30 seconds just satisfy. `RowsInv` (no row
  is younger than the last beat looked at) gives `SilentHostExpires`. `OnceInv` gives
  `SecondRowNeedsTimeout`: before there is a row, the handler of the present beat is the only one.
* **TaskTransactionsProofs.** `TransactionsInv` is about what a session relies on at COMMIT without looking
  again. `CallInv`: its task and file exist, `sawCount <= failures` (hence `RetryCountStaysPlausible`:
  a stale count is never too high), what it has still to write or has written is what differs
  from what it read, and rows it has locked are there. The last needs `LockIsExclusive`, else another
  session could delete them, and `NoRowsYet`. From this, `TransactionsNeverReturnRows`.
  `ReportsInv` adds what the reads of an open session prove about the past: an item it found as its report makes it
  had been made so by a committed report (`SaidBefore`), and rows it did not find pending never are again
  (`RowsAreWritten`, `RowsAreGone`). Hence what it `Missed` is something it `MayLeave`, and
  `TransactionsCommitAtomically`: every COMMIT is one step of `Backend`, callback or delete.
  `TransactionsRefineBackend` is the refinement, `Spec => BackendSpec`, with no exception, and
  `TransactionsKeepTheRecords` carries over what `BackendProofs` shows.
* **StorageRepairProofs.** `RepairInv` has `FileOrder` (uploads end before deletes begin), `StaleInv` (who
  knows rows of a deleted file has read them before) and, as long as `calm`, `RoundOK`: endpoints gone through have of all
  known chunks what anybody has, the present one of those before the position, and the sources asked
  have no copy. `OneRoundRestores` is its first part and not inductive without the others. `DeletedChunksStayAway`
  follows from `StaleInv`: a repair puts only what it knows, and an upload puts only files not deleted.
  The next position is a least element of a set of numbers, which is there by `LeastOfNats`: the
  strict subset order on finite sets is well-founded.
* **RudyDriveProofs.** `DriveInv` has five parts. `PartsInv` is the invariants of `Backend` and `JobQueue`:
  every step of the system is a step, or a stutter, of each (`StepIsBackendStep`, `StepIsQueueStep`), so
  their own proofs carry them over, and `DriveRefinesBackend`, `DriveRefinesQueue`, `DriveImplementsContract`
  `DriveStatusReported` and `DriveKeepsTheRecords` say that what they promise the whole promises, with the real handlers. `HandlerInv`: a worker stands
  inside a handler exactly when the queue says "handling", and in the handler of its task's type. `NamedInv`: what is sent,
  queued or late names a committed task. `StoredInv` follows a chunk from the handler through the report, which
  may come at any later time, to the status: as long as nobody asks for the deletion, what is past the
  handler's position is stored, a success under way implies a stored file, and so does "ready". Of the rows it
  has what `RecordsAgree` gives, as long as the file is not overtaken.
  Nothing removes a chunk then, as a delete handler holds a delete task and `NamedInv` makes
  that a requested one. `CalmInv`, for `CalmDeletesAreClean`, holds until the first fault or failed
  call: the endpoints the delete has gone through are empty, and stay so as the upload is completed and, by
  `Paid` with no faults, nobody executes it again.
* **DownloadProofs.** `DownloadInv`: the copies in `kept` are there; a search has not asked an endpoint that
  kept the chunk in hand, unless that call failed; the report lists whatever it has gone past of `kept`,
  apart from endpoints that are down; `sent` is a beginning of the file as long as the position.
  Each of the three answers follows when the last endpoint has been asked.
  `WholeDownloadsAreWhole` (every chunk, in order) comes with it.
  For `Chunking`, `CInv == ChunkingTypeOK /\ StoredSoFar /\ StreamedSoFar`: how much of the data
  the objects, and the bytes sent, are at each position. From it, for every length and every pair
  of sizes: both loops store what `Split` says, the client receives a prefix, and the
  cases in which it is short are exactly named. The lemmas on `Split`, `Slice` and division are the bulk of it.
  `WholeDownloadIsTheFile` puts the two together: search and stream among changing copies, over the chunks
  a worker stored, with as many rows as the backend cut. If the download ends normally, what it delivered is the
  chunks of the file, in order, and all of them if the two sizes agree.
* **WebClientProofs.** `ClientInv` has the invariant of the records (`BackendInv`, kept by its own proof, as every step of the page
  is a step of `Backend` or none: `ClientImplementsBackend`) and of the page. `FlowsOK`: what a flow carries where it stands; a flow that waits for an
  answer names a created file whose owner is its token and its user, which is `ActsForTheDisplayed`. It is
  inductive because a 403 precedes every request that acts and no owner changes (`OwnersAreFinal`).
  `OrderOK`: `before` is a strict total order of the lists that wait. `RestingPageIsTrue` says nothing of a busy page,
  and `PageOK` is what has to hold of it. While a flow is `Coming`, or there is an error, nothing is owed. Once
  the page is `Settled`, each file `Owed` (the token's, not deleted, not made by a stray) is on display or on
  a list `ToShow` (`ListOK`), and wherever such a list lacks it, a list read after it has it
  (`AnswersOK`). So showing the lists in any order ends with the file on display, or marks it
  `late`. `SessionOK` is for the page without a token, `SpinnersHaveFlows` is inductive with the types.
  `OnlyOwnersDelete` is an action property: a delete task is added only for a request, of a flow or a
  stray, whose token and user are the file's owner.
  The proof sorts the actions by what the page sees of them (`StepKinds`: `Quiet`, `Fails`, `Opens`,
  `Enters`, or a list read, a list shown, a logout, a reload), and every part has a lemma per kind.

Every safety invariant and action property that a passing run checks is a theorem. Only model-checked:

* all liveness (`QueuesDrain`, `WorkersComeBack`, `AcceptedTaskIsReported`, `StoreConverges`, `Answered`,
  `CallsAreAnswered`) and the fair part of `ImplementsContract`: the prover handles neither liveness
  under fairness nor ENABLED.
* that the mutants break their properties, and the disagreements of section 6: they are counterexamples.

## 6. Where code and documents disagree

1. `failure_is_final`: every failed *attempt* is reported and recorded as the failure of the task
   while the queue retries it; the backend's README speaks of the final failure.
2. `failure_is_recorded`: a failure report may be answered with 200 and not written (see above).
3. `delete_leaves_nothing`: a delete may overtake the upload of its file on the other queue. All
   ends well for every task, and the objects stay, though the file is shown deleted, until its owner deletes it again.
4. `deleted_stays_deleted`: a repair may copy a chunk to an endpoint a delete has just cleaned. The rows are
   removed then, so no download or repair finds it; another DELETE, which is accepted, removes what the prefix lists.

## 7. Not modelled, and why

The health checks other than `check_workers` ask once and report. The worker log only writes.
Configuration and deployment are the constants of the models. `copy_object`, `list_objects_on`,
`replicate_operation` and `repair_endpoint` of the workers' MinIO client are called by nothing. Passwords and
the encoding of tokens are library calls. The download link, toasts and the health badge of the page
leave no trace in it. `list_nodes` only reads.

Some things are modelled as they are and promise less than one may expect:

* `ContratosBackendDistributed.md:14-30` has the backend consume `node.heartbeat` and mark nodes
  `DOWN`. Nothing consumes that queue, the beats come over HTTP, and `nodes.status` is always "alive":
  a silent host is only told by `last_heartbeat`. `NodeRegistry` has therefore no status.
* `CalmHostIsActive` counts from a disturbance on: after one lost beat, with slow answers before and
  after it, the window may pass although the host lives.
* The poll loop (`FileSys.tsx:160`) runs while a status is "pending", and the backend answers
  "queued": it never turns. The list stays as it was read after the click, and
  `RestingPageIsTrue` says which files are shown, not their status.
* `loading` is one for all flows: the first that ends resets it while others go on.
  `SpinnersHaveFlows` is the direction that holds.

## 8. Plan

Written in this order, the most important behaviour first: queue and contract, records,
end to end, repair, chunking, download, statements, heartbeats, the page; then the proofs, for the
components that the others build on, the heartbeats, the statements, the repair, the whole system,
the readers with the layout, and the page. Nothing of the plan is left. What a change of the code would
call for first: a backend that consumes `node.heartbeat` (`NodeRegistry`), a poll loop that turns
(`Queued` of `WebClient`), and the publication on `download.chunk` (`Download`).
