# Verification of the NeMo-Retriever service

TLA+ models of the ingest service of NeMo-Retriever, model-checked with TLC, and
theorems about them checked with TLAPS. Paths below are relative to
`src/nemo_retriever/src/nemo_retriever/`; line numbers are those of the
repository at the modelled commit.

## 1. The system

NeMo-Retriever extracts, embeds and indexes documents. Used as a library it
builds a graph of operators and runs it in process or on Ray. Deployed with Helm
it is a *split service*: a **gateway** takes uploads over HTTP, remembers the
jobs, keeps the work in a spool and hands it out; **worker pods** of two pools
(`realtime`, `batch`) claim work from the gateway, run the operator pipeline and
call back; a **vectordb** pod owns the LanceDB collections. A *standalone* mode
runs gateway and workers in one process. The protocol between these parts, and
the stores they keep, is where the program's own concurrency is; the operators
are mostly numerical code, and the scheduling of the library mode is Ray's.
Beside the service, a benchmark **harness** dispatches scheduled runs to runner
machines through a queue in SQLite and a portal.

### Inventory

| Component | State | Operations | What makes it hard | What makes it correct |
|---|---|---|---|---|
| Gateway work broker, `service/services/work_queue.py` `WorkBroker` | records, a FIFO per pool, leases with generation and activation, attempts, spool bytes and files, a Condition per pool, an admission lock, deletion tasks | enqueue, claim, heartbeat, activate, release, payload_path, acknowledge, expiry sweep, start, shutdown | locks held across file I/O, expired leases against late callers, requeue against new admissions, shutdown and crash | every record queued or leased exactly once, bounded executions, FIFO, byte and lease budgets, no file without an owner |
| Job tracker, `service/services/job_tracker.py` | jobs, documents, rolled-up counts, manifest entries, idempotency keys, milestones | register_job, register_document_idempotent, mark_processing / completed / failed, unregister_pending, reads, eviction | duplicate and late reports, replays, lazy expiry, floors that hide drift | the counts are the documents, a job ends exactly when its documents have, terminal is final, one live job per key |
| Split ingest, `routers/ingest.py`, `routers/work.py`, `GatewayWorkClient`, `PipelinePool._worker_loop` | upload handlers under way, claimed deliveries, callbacks under way, rows in workers and at the gateway | upload, claim, fetch, activate, execute, heartbeat, callback with row handoff | broker and tracker are changed in separate steps with awaits between, answers are lost, two deliveries of one document overlap | no accepted document is lost, completed means its rows are there, a refused upload leaves nothing |
| Deferred callback handoff, `pipeline_pool.py:365-484` | handoff tasks per item, handoff slots | schedule, retry until expired | the worker coroutine itself waits for a slot; a later delivery of the same item is dropped | every finished delivery is reported or superseded |
| Standalone pool, `pipeline_pool.py`, `ingest.py:370-390` | a bounded asyncio.Queue, workers, the local tracker | submit, work | the queue is full after registration | a refused upload leaves nothing |
| Event bus, `event_bus.py`, `ingest.py:2260-2400` | subscribers with bounded queues | publish, subscribe, stream | slow subscribers are dropped, subscribing races with finishing | a client learns the end of its job by stream or poll |
| Sidecar store, `sidecar_store.py` | entries, TTL, limit | put, consume, restore, delete | consumption precedes an admission that may fail | an entry is bound once, or is still there |
| Retained result store, `worker_result_store.py` | rows by document, immutable generations on a file system | put, read, copy, sweep | crash between rename and completion | the rows of a completed document are complete |
| Collection store, `common/vdb/lancedb_collections.py`, `routers/collections.py` | catalog rows, table users, deletion phases | create, write, delete, reconcile | deletion waits for users outside the lock, crash in every phase | no write is lost in or resurrects a deleted collection |
| Service client, `service/client.py`, `service_ingestor.py` | uploads under way, stream cursor | upload with retries, follow, reconcile | retries of what was already done | every file is ingested once and reported |
| Harness scheduler and run queue, `harness/scheduler.py`, `harness/history.py`, `harness/portal/app.py` | schedules, jobs and runners in SQLite | dispatch with a backlog limit, offer, claim, reject, complete, cancel, delete | dispatch threads interleave per transaction, claims check the status only, agents vanish | a job runs where it is assigned, one per runner; the backlog is cut to the newest, never below |
| Retrieval algorithms, `common/vdb/hybrid_fusion.py`, `operators/dedup.py`, `query/shaping.py` | none | rank fusion, deduplication, shaping | ties, empty inputs, limits | equal to their definitions |
| Operator graph and executors, `graph/` | operator graphs | build, run | scheduling belongs to Ray | - |
| Pipeline executor, `service/services/pipeline_executor.py` | process pools | run a pipeline | lost processes | rows or an error |
| Operators and models, `operators/`, `models/` | none | extraction, embedding, generation | numerical | - |
| Proxy, authentication, metrics, tracing, dashboard, MCP | none the protocol reads | forward, check, observe | - | - |
| Command line, configuration, evaluation, Helm | parameters | - | - | - |

### How they interact

```
client --create_job--------> tracker.register_job
client --upload------------> tracker.register_document_idempotent, then broker.enqueue
                             (a failed enqueue: tracker.unregister_pending)
worker --claim-------------> broker.claim           (may sweep and exhaust -> tracker.mark_failed)
worker --payload-----------> broker.payload_path    (may end the delivery)
worker --activate----------> broker.activate        -> tracker.mark_processing
worker --heartbeat---------> broker.heartbeat
worker --job_callback------> broker.validate_callback, copy of the rows from the worker's
                             result endpoint, tracker.mark_completed / mark_failed, broker.acknowledge
broker expiry loop --------> requeue, or tracker.mark_failed when the attempts are spent
worker, callback failed ---> deferred handoff task, which heartbeats and calls back until it expires
client --poll, events------> tracker reads (which drop what has expired)
```

Gateway and workers are asyncio programs: a handler is atomic between two awaits
and anything may happen at one. The tracker takes a thread lock for the whole of
each method and never awaits. Records, leases, the tracker and the spool's byte
count live in memory only: a new gateway process starts empty and deletes the
spool.

## 2. The modules

| Module | What it is | State and actions |
|---|---|---|
| `WorkBroker` | the broker, complete | one action per stretch between two awaits of every method of `WorkBroker`; `op[p]` is the handler that holds the Condition of pool p across file I/O, `admission` the holder of `_admission_lock` |
| `JobTracker` | the tracker | one action per method and outcome; `Drop` is `_drop_job_locked`, `aged` the jobs whose TTL has passed and that nobody has looked at yet |
| `IngestGateway` | the composition: instances of both and the handlers, workers and callbacks between them | one action per handler step, which includes the calls it makes into broker and tracker; `worker` is where an execution coroutine stands, `calls` the `job_callback` handlers and their stage (`look` for stored rows, `copy`, `ack`, `unlink`) |
| `DocumentLife` | what the service promises for each document: accepted or not, delivered a bounded number of times, ended once, with its rows when it ended well | the abstract specification that `IngestGateway` implements |
| `CallbackDelivery` | the same protocol seen from one worker pod: coroutines, quick retries, and the deferred handoffs with their slots | `worker` and `handoff` are where the coroutines and the per-item tasks stand (an entry whose task has finished but whose done callback has not run is "ended"), `slots` the semaphore, `rows` the worker's result store, `lease` what the gateway thinks |
| `EventStream` | the event bus, what the tracker publishes, and `ingest_job_events` | one action per transition that publishes, with its publication; `queue` is a subscriber's queue together with what was sent and not yet read, `catchup` the snapshot not yet read |
| `IngestClient` | one call of `ingest_documents` or `aingest_documents_stream` with the service of `EventStream`, which it extends for one job and one stream | `upload` is where the task of each file stands, `follower` where `_consume_sse` and `_bulk_poll_fallback` stand; one action per request, answer, event, keepalive and poll |
| `StandaloneIngest` | the service in one process: instances of `JobTracker` and `SidecarStore`, the upload handler, the bounded queues and their workers | one action per stretch between two awaits: an upload awaits only the body of its file, so binding a sidecar, registering and queueing are one step |
| `SidecarStore` | the sidecar files: put, consume, delete, TTL | each method holds one lock and is one action |
| `CollectionStore` | one collection of the LanceDB store: catalog rows, chunks, table users, recovery markers, and the reconciler | one action per durable write or lock acquisition of `create_collection`, `write_collection`, `retrieve_collection`, `delete_document`, `delete_collection` and `reconcile_collections`; `pc` and `arg` are where a thread is and its locals |
| `HarnessQueue` | the harness's run queue: dispatch threads, the portal's handlers, runner agents | one action per SQLite transaction of a dispatch and per portal handler; `dispatch` is the frame of `_dispatch_schedule`, `hand` what an agent has in hand |
| `WorkBrokerProofs`, `JobTrackerProofs`, `IngestGatewayProofs`, `StandaloneIngestProofs`, `CallbackDeliveryProofs`, `HarnessQueueProofs`, `CollectionStoreProofs`, `IngestClientProofs` | theorems | section 5 |
| `MC...` | instances for TLC | |

Conventions. Payloads, names and contents are model values. A lease is named by
its generation: `claim` draws a new lease id and increments the generation in one
step, so the pair (id, generation) that the code compares says no more. Time is
an action (`LeaseDue`, `AgeOut`, `ClaimTimeout`, `HandoffExpires`, `Expire`): it
may happen whenever the clock could have moved, so no ordering of durations is
assumed. Callers of the broker are not trusted in `WorkBroker`: a caller may name
any generation it was ever granted, current or not. A loop over records with no
await in it is one action; several records that expire together return to the
queue in any order (the code's order is that of their admission, reversed; no
property needs it). Operators named `X_Mutant...` are wrong versions of `X` which
the models never use; they record the mistakes that each property was seen to
catch.

Abstractions worth knowing:

- `JobTracker` keeps no order in `documentIds`, no timestamps and no result
  data. The count-based eviction (`job_tracker.py:780-785`) is left out:
  `register_job` rejects at `max_jobs`, so it never finds a job too many.
- `IngestGateway` has one execution coroutine per worker and folds the deferred
  callback task into it: a worker stays with its callback where the code lets a
  task continue, which is `CallbackDelivery`'s subject. There, the other way
  round, other pods are no more than a lease that is "over", and a callback that
  outlives its HTTP timeout is `IngestGateway`'s. Document uploads stand for page
  and whole-document uploads, which differ in what they carry. The rows' copy and
  the transition to completed are one step: both happen after the last await of
  the copy, on the event loop.
- `EventStream` tells only document events from job events; the three
  finalizations, `job_started` and `job_progress` are one event `Lifecycle`.
  Job expiry is left out: it only turns later reads away, as `Restart` does.
- In `IngestClient` every attempt at a file is a document of its own, which is
  what the service makes of it: these calls send no manifest entry. The two
  limits on attempts are one. How a document is processed is `EventStream`'s
  `Begin` and `End`; a rollback is a step of its own, so the document may be
  seen by the reader's snapshot in between.
- `StandaloneIngest` leaves out what refuses a request before it changes
  anything (owners, manifest validation) and the five seconds that the pool's
  shutdown waits; sidecars are too few for `max_entries` to matter.
- `CollectionStore` has one collection name, so catalog operations on several
  collections, which share only the lock, are not there. Left out are
  `update_collection`'s metadata, writes of nothing, content hashes and the
  delays between retries.
- `HarnessQueue`: the runner agent is not in the repository; it is taken to
  handle one offer at a time, to reject only what it was offered and lacks, and that
  once, and to report once. `reject_job_by_runner` has no guard of its own, so what a
  repeated or invented rejection does is not covered. `match_runner` has read its snapshot in an earlier transaction:
  any runner that was ever registered may come out, or none. Jobs are numbered in
  the order of `created_at`, which two threads that commit within a microsecond
  could exchange.
- The cancellation of an upload handler in the middle of a spool write is not
  modelled.

## 3. The runs

| Run | Question | Instance | Distinct states |
|---|---|---|---|
| `broker` | is work ever stranded, doubled, out of order, given up early, its file or bytes lost; is a stopped broker empty | 4 uploads in 2 pools, 3 of them in one pool with queue 2, lease cap 2 and 1 claimer, 1 attempt, room for fewer than all uploads, failing writes, a file that may vanish, stale callers, shutdown, crash | 823 000 |
| `tracker_documents` | do maps, counts and job status agree, is the end final, does a key lead to one job | 3 requests on one key with two fingerprints and none, room for 2 jobs; 5 uploads to a job of 3, two of them for one manifest entry; watchers hear of every 2nd end | 136 000 |
| `gateway_delivery` | one document through refusals, redeliveries, lost workers, repeated callbacks, expiry, restarts; does the service implement `DocumentLife` | 1 document with rows and a manifest entry, 2 workers, 2 attempts, 2 callbacks at a time | 724 000 |
| `gateway_live` | does every accepted document settle, does shutdown end | 1 document whose file may vanish, 1 worker, 2 attempts, 1 unactivated failure | 60 100 |
| `client_call` | is every uploaded document reported once, whatever comes first, and does the call return | 2 files, 2 attempts each, a queue of 2 events, restart, connections that fall silent, fair tasks | 738 000 |
| `client_waits` | does it return only when all is reported: **no** | 2 files, 1 attempt | violation |
| `collections` | are tables in use left alone, is a document at rest what the calls made it, does recovery end | 2 request threads and the reconciler, 1 document, 2 versions, 5 calls, 2 failures or crashes | 189 000 |
| `collections_recovery` | does recovery keep the new version or the old: **not always** | 1 client, calls one after another | violation |
| `standalone_uploads` | is what was admitted in one place, executed once and ended; is a sidecar bound once | 5 uploads, 3 of one manifest entry, 2 naming one sidecar, a queue of 1, 2 workers | 57 800 |
| `standalone_retry` | is a retried upload worked on: **no** | the same, fewer uploads | violation |
| `callback` | are slots exact, do rows outlive refusals, does the coroutine return, do leases end | 1 coroutine and slot, 2 items, one with rows and 2 deliveries | 16 700 |
| `harness_backlog` | does a job run where it is assigned, is the backlog cut to the newest and never below | 2 dispatch threads on 1 schedule, 1 or 2 jobs per dispatch, limit 1, 2 runners, 3 jobs | 1 280 000 |

### Bounds

`MaxGeneration` bounds how often a delivery that was never activated may fail or
expire: the code does not count those (`work_queue.py:430`), so the number is
unlimited there; the deliveries that count are limited by
`MaxDeliveryAttempts`. Every unactivated failure returns the record to the same
state but for its generation. A release is one of them, and so is the end of a
delivery whose file has vanished; both gateway runs have both. After the last of
them the bound lets a delivery only be activated, so what `gateway_live` shows
holds for deliveries that fail uncounted a bounded number of times.
`MaxCalls` bounds callback handlers
of all deliveries under way at a time: two let a callback of a superseded
delivery overlap one of the current delivery.

In `broker` three works of the pool `batch` over a queue of two, with two
leases, fill the queue and the leases: two works are handed out, a third is
admitted, and when both leases end the queue holds three, one more than uploads
may fill. Both leases may come due in one sweep, which returns two records at
once. The fourth work belongs to the other pool, which shares the admission lock
and the spool bytes, and is the one with a sidecar and a payload that may vanish. Nobody claims in its
pool: its files are deleted by an undone admission or a shutdown, not by an
acknowledgement, and no worker misses them here. The gateway runs have fetches that
miss their file, and `SpoolIsExact` and `QueueIsExact` cover all of it.

In `tracker_documents` one job of three documents gets five uploads. Three ends
with watchers who hear of every second one reach a count between two milestones,
a milestone, and an end past it; a redelivery's report in between repeats none of
them. The repeated manifest entry meets its document, a document with other
content, and one that was rolled back. A single job has documents, so an eviction
on a registration drops jobs without any; reads, reports and new jobs drop the
one with. Three requests
on one key take it through fresh, answered, expired and taken over, with a job
without fingerprint, which does not own its key, beside them; whether the answer
is the job or an error is not a difference of state. Queues of two events (4096
in the code) overflow within one publication, between two and not at all; two
files with two attempts are enough for a duplicate to take the room of another
file, and for one upload to be answered before, while and after the other's end
is announced. One document suffices for `DocumentLife` because works meet only in
the queue, the leases and the counts, which the broker's and the tracker's runs
cover with several.

`MaxCalls` of `CollectionStore` is the number of requests: five let a collection
be deleted and made again while a cleanup of the first one waits for a query, and
let a replacement meet what a failed one left; two faults let recovery itself
fail once. In `callback` the only coroutine takes the only slot with its first
handoff, so the second handoff waits; a second delivery of the item with rows
meets the handoff of the first. Two coroutines race for an entry here only
around a shutdown. What several coroutines do to one entry is left
to the proofs, which cover any number (two coroutines are beyond TLC with
liveness). In `harness_backlog` `N` bounds the jobs ever created; three with a
limit of one are enough for two dispatches to cut the same backlog; `Managed`,
`Touched` and `Manual` name the runner and the jobs that users meddle with, since
meddling with all of them adds states and no situation.

`CHECK_DEADLOCK FALSE` stands in the instances whose work ids, job ids or
generations can be used up: the real program draws fresh ones.

### Fairness

Safety runs assume nothing. `WorkBroker`'s locks, as `IngestGateway!Fairness`
takes them: `asyncio.Lock` and
`Condition` hand a lock to their waiters in order, so whoever waits for one that
others keep taking gets it (strong fairness of admissions, sweeps and shutdown's
notifications; the expiry loop sweeps every `min(1.0, lease_ttl/4)` seconds,
`work_queue.py:455`); a thread that
writes or deletes a file returns. Further: handlers and
worker coroutines continue; a waiting claim times out (`claim_timeout_s`); a
lease that no worker keeps alive comes due; claims of the polling workers
eventually get a work that is repeatedly claimable; a copy that is repeated by
the worker as often as it fails succeeds some time, if the rows are still in the
worker. Nothing is assumed of uploads, worker losses, heartbeats, vanishing files,
job expiry, shutdown or crashes.

Two things the code does not guarantee are excepted by `Settles` itself or by the
bound. A delivery ends uncounted if it is never activated, so one that fails so
for ever never uses up its attempts (`work_queue.py:370-379`, `428-434`); the bound
`MaxGeneration` makes such failures finitely many. And a document whose file has
vanished while no worker had it (`Starved`) can do nothing else but fail so: it is
delivered again and again until its job expires, and `Settles` says nothing of it.

`IngestClient!Fairness`: both tasks run; as long as a connection does not hang its
requests are answered or fail and the service sends its events and keepalives; and
a poll that comes round again and again is past its deadline
(`_BULK_POLL_TIMEOUT_S`) some time when it does. The deadline is looked at there
only, between two requests (`client.py:1058`), and the client's requests have no
read timeout (`client.py:1139`), so any request may hang for ever: the model has
that as a step (`follower` or an upload is "hung"), no fairness undoes it, and
`Returns` names it as the one thing that may hold a call.
`StandaloneIngest!Fairness`: workers take what is queued and the pipeline
returns. `CollectionStore!Fairness`: threads that have begun an operation go on
while they can (lock and condition wake their waiters), and the reconciler's loop
comes round; requests and faults are bounded, so it eventually runs undisturbed.
`CallbackDelivery!Fairness`: the pipeline returns, a post is answered, fails or
runs out of retries, a task runs out of time (`result_retention_seconds`), the
semaphore serves its waiters in turn, done callbacks run, the gateway sweeps a
lease that nobody keeps alive; nothing is assumed of the gateway's answers.

## 4. What the checks show

**Broker.** Under every interleaving of admissions with failing spool writes,
claims, expiries, late heartbeats, releases, missing payloads, acknowledgements,
shutdown and crash: a pool's queue lists exactly its unleased records
(`QueueExact`); no record is executed more often than configured, a queued one
has an attempt left and a generation spends one at most (`AttemptsExact`); it is
given up only when the attempts were really spent (`EndsOnce`); the byte count is
exact, two pools never pass the limit together, and files neither leak nor
disappear under a record (`SpoolExact`); a pool has at most its cap of works that
were ever handed out, as a claim takes what came back first, and at most its queue
limit of others, so the backlog exceeds that limit by no more than the cap and
never through an admission (`PoolBounds`); a stopped broker is empty and stays so
(`StoppedIsEmpty`); first deliveries keep their order and retries go first
(`FifoDelivery`, `RetriesFirst`).

**Tracker.** The counts are what counting the documents gives, so the floors at
zero (`job_tracker.py:704`) never hide a drift (`CountsMatchDocuments`); a job is
terminal exactly when `expected_documents` documents are (`FinalizedExactly`);
what ended stays as it is (`TerminalIsFinal`) and an aged job never moves
(`AgedNeverAdvances`); one live job per key, and no eviction or rollback separates
a document from its job or from its manifest entry (`MapsAgree`);
announced milestones are neither early nor a step late (`ProgressIsRecent`). The
maps do not agree about uploads that were rolled back: their entries stay, without
document. `MapsAgree` names this as the only exception, and says that a repeated
upload ends in the `KeyError` for this reason and no other. That is the
disagreement with the docstring quoted below under "Other defects".

**Split ingest.** An accepted document that has not ended is in the broker
(`NothingLost`): a callback of a superseded delivery that ends after a newer one
never removes the newer delivery's record. Pending means never delivered
(`StatusTellsDelivery`), which is what makes the rollback of a pending document
safe. Completed means the rows are stored (`CompletedHasResult`). A refused
upload leaves no document, no place in its job and no record
(`UploadIsAllOrNothing`); its manifest entry stays. All of it implements
`DocumentLife` (`EveryDocumentLives`), accepted documents settle, unless
their file vanished while nobody had it (`Settles`), and a shutdown ends
(`ShutdownEnds`).

**Deferred callbacks.** A coroutine whose callback used up its quick retries waits
for a slot itself and so stops claiming; it always comes back (`WorkersReturn`),
even if the gateway never answers. Slots and entries add up (`SlotsExact`) though
several deliveries of an item race for one entry. A refused report keeps its rows:
otherwise a refusal of an older delivery would cost the current one its result
(`RowsAwaitTheirReport`). Nobody keeps a lease alive for a delivery that is not
pursued any more (`LeasesEnd`). What the model also shows and no property states:
while an older delivery's handoff runs, the report of a later delivery of the same
item is dropped (`pipeline_pool.py:376`, `384`); the lease expires and the
document is executed once more, or fails if that was its last attempt, although
its rows were there.

**Events and clients.** Snapshot and queue together give a subscribed reader every
end of its job, each once (`StreamIsExact`), since
subscription and snapshot are taken without an await between them, until its queue
overflows and it is dropped. In the client every uploaded document is awaited or
reported, once, and only when it has ended, whether that was announced before or
after the answer to its upload (`Accounted`); the call returns with
all of them reported, unless the poll ran out of time or the follower had left
early (`DoneMeansReported`), and it does return unless a connection falls silent
(`Returns`): dropped streams and forgotten jobs end in a poll and its deadline. What the model also shows, and no
property states: these calls upload without a manifest entry (`client.py:893`), so
the retry of an upload whose answer was lost registers the file a second time,
and another file of the call may find the job full.

**Standalone.** What was admitted is queued or running in exactly one place, as the
tracker says (`PoolMatchesTracker`), and ends (`AdmittedEnds`); a single-use
sidecar is bound once, however many uploads name it (`SidecarBoundOnce`).

**Collections.** Deletion and mutation wait for the users of the table
(`InUseIsUntouched`), through failures, crashes and recovery a document at rest is
what the calls made it and its chunks say the same as its row (`SettledIsTrue`,
which excepts two defects below), what outlives its collection is an interrupted
deletion (`OrphansAreDeletions`), and the reconciler comes to an end (`Recovers`).

**Harness.** A claim checks neither runner nor assignment, and still a job is run
by the runner it is assigned to, one per runner (`RunsWhereAssigned`), because an
offer assigns in the same step and a rejected or deleted job is not offered to the
same agent again. Overlapping dispatches cut the backlog to the newest pending
jobs once the last of them ends, and what they cancel nobody had begun
(`BacklogKept`), because the cancellation looks at the status once more.

**Findings**

1. `client_waits`: "Upload documents and wait for all to complete" (`client.py:1116`).
   `_consume_sse` returns when the stream ends and nothing is pending at that
   moment, although uploads are under way (`client.py:1035-1040`); documents whose
   uploads are answered later are awaited by nobody and their results are missing.
2. `collections_recovery`: "inspects stored chunk versions after a crash and either
   finalizes the new version or preserves the old one"
   (`docs/docs/reference/collection-management-api.md:309-311`). A replacement may
   begin while the row awaits recovery (`lancedb_collections.py:749-751`) and
   overwrites the marker; if it fails before its chunks, the oldest version's row
   is restored over the chunks of the one in between.
3. `standalone_retry`: in standalone mode a document registered before the queue
   was found full stays registered (`ingest.py:382-387`); the retry is answered as
   a duplicate that was accepted, and nobody works on it.

**Other defects** met while modelling; the models contain them and no run states
them:

- `JobTracker.unregister_pending` (`job_tracker.py:546`) leaves the manifest entry
  of the document it removes, so a replay of the file ends in an unhandled
  `KeyError` (`473`), although "a client can safely replay every file after losing
  any upload response" (`job_tracker.py:462-463`, and
  `docs/docs/reference/collection-management-api.md:282-289`). A
  replay that arrives between registration and admission (`ingest.py:753-776`) is
  answered with a document that may yet be rolled back.
- `WorkBroker`: a delivery whose payload is missing is requeued without a counted
  attempt (`work_queue.py:370-379`, `428-434`), so a document whose file is lost
  does not fail: it is claimed and requeued until its job expires, in front of
  every first delivery of its pool.
- `ServiceClient`: status polls, event streams and uploads have no read timeout
  (`client.py:1139`: only connecting has one), and the poll's deadline is not
  looked at while one is under way (`client.py:1058`); a service that accepts
  a connection and falls silent holds the call for ever.
- `CollectionStore`: `delete_document` on a collection without a table does not
  wait for a first write (`lancedb_collections.py:1085`), and a deletion that waits
  has its marker overwritten; a cleanup that was planned for an earlier collection
  drops the table and row of a later one of the same name (`619-630`); a query that
  began before an append sees its chunks before they are committed (`932-954`).
- `SidecarStore`: an upload answered 404 or 409 after the sidecar was consumed has
  lost it; so has one answered 429 in standalone mode, where nothing restores it.
  `ServiceIngestor.vdb_upload` sends one consume-on-read sidecar id with every file
  (`service_ingestor.py:874-875`, `930-947`): only the first finds it.
- `HarnessQueue`: a running job whose runner was lost, or whose claim's answer was,
  stays running and keeps its runner busy for ever; the busy check overlooks
  "cancelling"; `complete_job` has no guard on the status, so a repeated report
  turns cancelled into failed and records a second run, and a job being cancelled
  that succeeds becomes "completed" with a run recorded as failed
  (`portal/app.py:2482-2500`); a pending job assigned to a deleted or offline
  runner is stranded; the webhook handler stores the new commit before it
  dispatches (`scheduler.py:608`), so a crash in between loses the push.

## 5. What is proved

All theorems hold for any values of the constants under the module's assumption.
Every type invariant, safety invariant and action property that a passing run
checks, and the refinement of `DocumentLife`, is the statement of one of them.

`WorkBrokerProofs`, for any sets of works, pools and claimers and any limits, from
`WorkBrokerAssumption` alone: `TypeCorrect` (`TypeOK`), `QueueIsExact`
(`QueueExact`), `AttemptsAreExact` (`AttemptsExact`).

The inductive invariant is `IInv == TypeOK /\ LifeInv /\ QueueExact /\ AttemptInv`.
`QueueExact` alone is not inductive: that an admission appends a work which is
not already queued needs `LifeInv` (a work whose fate is "unseen" or "admitting" is
no record, has no lease and has spent nothing; only records are leased; a
handler with a work in its hands is the only one). The budget alone is not
either: a claim turns a queued record into a leased one, so `AttemptInv` ties
attempts to generation and activation. The heart of the argument is the pair of
lemmas on the queue: putting any ordering of the returned deliveries in front of
a queue that lists the unleased records lists the new unleased records
(`RequeueOrExhaust`), and popping up to the first ready entry removes exactly it,
because stale entries never occur in an exact queue (`ClaimGrant`, `ClaimWait`).

The other theorems about the broker build on that invariant: `WorksEndOnce` (`EndsOnce`),
`StoppedStaysEmpty` (`StoppedIsEmpty`), `PoolsAreBounded` (`PoolBounds`),
`RetriesGoFirst` (`RetriesFirst`), `FirstInFirstOut` (`FifoDelivery`),
`SpoolIsExact` (`SpoolExact`). The handlers make eight kinds of steps as far as records go
(`RecordSteps`: an admission's commit, the end of a delivery, an activation, an
acknowledgement, a requeue, a claim, a loss of everything, or none of these), and
the invariants are carried over kind by kind. Works end once because records are
exactly admitted works and a leased one has a generation (`EndInv`). A stopped
broker stays empty because a pool that shutdown has notified has no admission that
still writes (`StopInv`). The backlog stays bounded because the room an admission
found is still there when it commits, as it holds the pool's Condition meanwhile
(`RoomInv`), the queue is as long as its set of works, and a claim that hands out a
work for the first time finds none that came back before it in the queue, as
returned deliveries stand in front (`DividedInv`), so all of those are leases. Files have an owner
because a handler that writes or deletes one is the only one for its work
(`FileInv`).

First in, first out rests on the queue being divided (`Divides`): a prefix of works
that were delivered before, then those that never were. A requeue lengthens the
prefix, a claim takes the head of the one or of the other part, an admission is
appended to the second, so what a step may do to the second part is remove its
head, append to it or clear it (`Fifo`). The byte count is compared with a set of
bytes: `BytesOf(W)` is the cardinality of the works' bytes, so that sums over disjoint
sets of records follow from facts about cardinalities and no induction is needed.
Each step adds one record with its bytes or removes some with theirs (`LedgerStep`),
and what was admitted still fits when it is recorded, because only the holder of
the admission lock adds (`LockInv`, `FitInv`).

`JobTrackerProofs`, for any jobs, documents, keys, entries, expected counts and
limits, from `JobTrackerAssumption` alone: `TypeCorrect` (`TypeOK`),
`MapsAlwaysAgree` (`MapsAgree`, from `DocumentsNeverOrphaned`, `KeysNeverShared`
and the invariant on entries), `EntriesNeverDoubled` (one document per manifest
entry), `CountsExact` (`CountsMatchDocuments`),
`JobsFinalizeExactly` (`FinalizedExactly`), `FinishedStaysFinished`
(`TerminalIsFinal`), `AgedStaysAged` (`AgedNeverAdvances`), `WatchersKeepUp`
(`ProgressIsRecent`).

The many handlers make few kinds of steps (`StepKinds`): a registration, a
document that begins, a rollback, jobs that expire, a terminal report, a restart,
or nothing the properties see. The invariant is then proved kind by kind, each
part from those before it. `MapInv` says that a job lists only its own registered
documents and that an absent job has the values of a new one; without it a fresh
job could inherit counts. `EntryInv` and `KeyInv` say what the two dictionaries
name, which uniqueness follows from; `LeadInv` that what an entry names and is no
document was rolled back, and `ErrorInv` that a `KeyError` has met such an entry. The counts need a fact about cardinalities
(`AdjustedCounts`): moving the documents D from their statuses to one that none
of them has keeps exact counts exact, so no floor at zero is ever reached.
`FinalInv` compares counts with `expected_documents`; with exact counts it gives
`FinalizedExactly`, and that a terminal job has no open document left
(`TerminalJobEnded`), which is why no report can move it. `ProgressInv` adds that
an absent job has announced nothing; a report raises the terminal count by exactly
the documents it marks (`TerminalGrows`), and rounding the rise down to a multiple
of `progress_step` leaves less than one step (`MilestoneRecent`).

`IngestGatewayProofs`, for any works, jobs, workers and limits, from
`IngestGatewayAssumption`: `ServiceIsConsistent` (the invariant), `NoDocumentLost`
(`NothingLost`), `UploadsAreAtomic` (`UploadIsAllOrNothing`),
`PendingMeansUndelivered` (`StatusTellsDelivery`), `CompletedKeepsRows`
(`CompletedHasResult`) and `ServiceImplementsLife` (`EveryDocumentLives`: the
composition implements `DocumentLife` for each document). The invariant is
`BrokerInv /\ TrackInv /\ ParticipantInv /\ \A w : WorkInv(w)`. The first part says
which works are records and which of them have an attempt left, the second that
a job lists the documents it has, the third that a callback under way belongs to
a delivery that was counted and acknowledges only a document that is over. `WorkInv`
ties the parts together: a work that was given up, acknowledged or discarded has
no open document, a known document is pending exactly while no attempt was spent,
and a completed one that asked for rows has them. Every handler is several calls
into broker, tracker and store; for each work its effect is shown to be one of a few
moves of the broker's fate (`FateMove`) and one of what a client can see
(`ViewMove`). The moves keep `WorkInv`, whatever handler made them, and each
`ViewMove` is an action of `DocumentLife` or a stutter. So the refinement needs no
case per handler, and the overlapping callbacks of two deliveries are harmless
because a registered document that is over stays over.

`StandaloneIngestProofs`, for any jobs, documents, workers, queue sizes and sidecars,
from `StandaloneIngestAssumption`: `AdmittedInOnePlace` (`PoolMatchesTracker`) and
`SidecarsBoundOnce` (`SidecarBoundOnce`). The invariant says that a document which is
known is listed by its job, and so leaves with it (`TrackInv`); that no document
has two places in the queues and with the workers (`PoolInv`); that the tracker's
status tells the place (`Placed`); and that a single-use sidecar which a registered
document has bound was drawn and is gone, while ids are never drawn twice
(`SidecarInv`). That last clause is what the uniqueness needs: the sidecar that a second
upload would bind is no entry any more, and none will come to have its id.

`CallbackDeliveryProofs`, for any coroutines, items, retained items and deliveries,
from `CallbackDeliveryAssumption`: `SlotsAddUp` (`SlotsExact`) and `RowsAreKept`
(`RowsAwaitTheirReport`). The invariant adds that a coroutine that is not idle has
an item, and replaces `RowsAwaitTheirReport` by `RowsInv`, which forgets
generations: whoever has rows of an item to report, current or not, finds them
held, expired or copied. That is inductive because the only step that discards
rows is an acknowledgement, after which the gateway has them. For the slots, each
step changes the set of entries by one element or by none.

`HarnessQueueProofs`, for any threads, schedules, runners, limits and jobs, from
`HarnessQueueAssumption`: `RunsAreWhereAssigned` (`RunsWhereAssigned`) and
`BacklogIsKept` (`BacklogKept`). The first rests on what an agent can have in
hand (`HandsInv`): an offered job is not running anywhere, while it is pending it
is assigned to that runner, and the runner has no running job; this is what an
offer that did not assign would break. The second rests on where the dispatches of a schedule are: between
"create" and "list" the backlog may be anything; after it, the pending jobs that
have `MaxPending` newer pending ones are among those some dispatch is still going
to cancel, and each listed job has, now and for ever, that many newer jobs.

`CollectionStoreProofs`, for any threads, documents, versions, calls and faults,
from `CollectionStoreAssumption`: `TablesInUse` (`InUseIsUntouched`),
`OrphansOnlyDeletions` (`OrphansAreDeletions`) and `SettledDocumentsAreTrue`
(`SettledIsTrue`). Every action but a crash moves one
thread, and what a move may do to the rest is stated once (`Guaranteed`): change
the table only if nobody uses it, or as the one writer; begin to use it only while
the collection is open and nobody holds the lock; change a document's row only
with the lock. Every part of the invariant survives a guaranteed move
(`GuaranteedKeeps`), and each action is shown to be one. The invariant says who
must hold the lock where (`LockInv`), that writers are alone (`WriterInv`), that a
collection in its last phase has no users although the lock was given up and taken
again in between (`PhaseInv`, `UserInv`), and that the rows a thread has found
under the lock are still there (`RowsInv`).

`SettledDocumentsAreTrue` needs the history of each document, the versions that
the answered calls and those under way may have left (`may`), and a second invariant,
`HInv`. While nobody has lost track of the collection (`Tracked`) and the document is
not one whose marker was overwritten, its row, its chunks and that history agree as
far as the recovery marker says (`Sound`): with none, the chunks are those of the
row's version; "appending" and "replacing" allow the version before or the one
pending; of an interrupted deletion only that it was asked for is known. `Relies`
says what each thread counts on between two durable writes, and each action is
shown to keep what the other threads rely on. `tangled` and `stale` are the
exceptions that `SettledIsTrue` names: they record exactly the overwritten
markers and the dropped table of section 4.

`IngestClientProofs` begins with the service alone: for any jobs, documents, streams
and queue limit, from `EventStreamAssumption` (documents and streams have jobs, the
lifecycle event is no document), `StreamsAreExact` states `StreamIsExact` of
`ServiceSpec`. The invariant, `ServiceInv`, says that a stream nobody opened is
empty and only open ones are subscribed, and for each open stream that what
it has read, its snapshot and its queue are disjoint and, while it is subscribed,
make up the ends of its job. Appending an event and reading a head are lemmas on
queues (`AppendEvent`, `ReadHead`); a publication either adds a document that no
queue has yet, because it was not terminal before, or drops the subscriber.

For any files, attempts and queue limit, from `IngestClientAssumption`:
`CallImplementsService` (`Spec => ServiceSpec`: each step of a call is a step of
the service or leaves it alone), from which `ClientStreamIsExact` (`StreamIsExact`)
follows, `EveryUploadAccounted` (`Accounted`) and `DoneIsReported`
(`DoneMeansReported`). To `ServiceInv` the client's invariant adds: a file has
an attempt left before it is posted (`TryInv`), what the client has seen to end has
ended (`SeenInv`), a poll asks for documents nobody else will report meanwhile
(`AskedInv`), and a follower that returned without giving up had nothing left to
wait for (`DoneInv`).

Only model-checked: the liveness properties `Settles`, `ShutdownEnds`, `Returns`,
`AdmittedEnds`, `Recovers`, `WorkersReturn` and `LeasesEnd`, because liveness under
fairness is out of the prover's reach; and the three findings, which are
counterexamples.

## 6. Not modelled

See "components" in `PROJECT.json`. In short: operators, models, graph executors,
command line, configuration and evaluation (no protocol state of their own; the
numerical results are not a matter for a model checker);
proxy, authentication, metrics and dashboards (they observe). Of the modelled
parts: generations and sweep of the result store on a shared filesystem;
`SidecarStore.restore` after a refused admission at the gateway (that of a
duplicate, which happens in either mode, is `StandaloneIngest!Duplicate`); the client's collections calls and
`asubmit_documents`; the harness's git polling, matrix runs and recorded runs; and
what section 2 names.

## 7. The plan

1. done: `WorkBroker`, `JobTracker`, `IngestGateway`, `DocumentLife`,
   `EventStream`, `IngestClient`, `CallbackDelivery`, `SidecarStore`,
   `StandaloneIngest`, `CollectionStore`, `HarnessQueue`.
2. `ResultStore`: generations, sweep, crash between rename and completion.
3. An abstract specification of `CollectionStore`: a collection with atomic
   create, write and delete, implemented while no marker is overwritten.
4. `RankFusion` and `Dedup`: the retrieval algorithms as operators, against
   reference definitions over bounded inputs.
5. Theorems: that standalone ingest implements `DocumentLife` too; that the
   collections implement the specification of item 3; `ResultStore`'s safety.
