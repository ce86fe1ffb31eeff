# A TLA+ model of the Deep Lake API service

This directory holds TLA+ modules of the service in `src/app` (a FastAPI
application over Deep Lake 4 with redis beside it), configurations that
model-check them with TLC, and proofs checked by TLAPS. Every definition is
taken from the code at this commit; `PROJECT.json` maps each one to its lines.

Contents: [the system](#the-system) · [modules](#the-modules) ·
[runs](#the-runs) · [fairness](#fairness) · [proofs](#the-proofs) ·
[disagreements](#where-the-code-and-its-documents-disagree) ·
[what is left out](#what-is-not-modelled-and-why) · [plan](#plan)

## The system

`main.py` starts uvicorn with `HTTP_WORKERS` processes (default 4). Each worker
has one asyncio event loop and its own copy of every service, built in
`lifespan` (31-109). Workers share two things only: the storage directory and
redis.

```
 HTTP handlers (api/http/v1) ── permissions ── AuthService (keys of this process)
   │            │         │
   │            │         └── RateLimitService ────────── redis (counters)
   │            └── CacheManager / CacheService ───────── redis (entries with a TTL)
   └── DeepLakeService ── executor threads ── deeplake ── storage directory
          │                                                 ▲
          └── BackupService, ImportExportService ───────────┘
```

| Part | State it keeps | Operations | What is hard | What makes it correct |
|---|---|---|---|---|
| `DeepLakeService`, datasets | `<storage>/<tenant>/<name>` with the Deep Lake files and `dataset_metadata.json`; `self.datasets`, the open handles, one dictionary per worker | create, get, list, delete, load | a check and the use of it are separated by an await; executor threads touch the directory while the loop goes on; handles are cached per worker; failures and crashes between the steps of a create or delete | a handle is a handle on the dataset that is in the directory; an acknowledged insert is in it; a create does not destroy; every request ends |
| `DeepLakeService`, rows | the working copy of fourteen columns behind a handle; what was committed | insert (batch, `skip_existing`, `overwrite`), get, update, delete, list, search | rows are addressed by index and indices shift; columns are popped one by one; one working copy and one commit for all requests; commits fail, and are retried when a lock is met | an index stays at its row; columns line up; what was acknowledged is committed; `skip_existing` makes no duplicate |
| `CacheService`, `CacheManager` and the handlers over them | redis entries `dataset_info`, `vector_info`, `search_results` with a TTL | lookup, fill after a miss, invalidation after a change | a fill that began before a change lands after its invalidation; failed commands are swallowed; workers die in between | an entry is what the service would answer |
| `RateLimitService` | redis: sorted set, window counters, token bucket, usage; per worker: `config.tenant_limits` | `check_rate_limit`, usage, `update_tenant_limits`, `reset_tenant_limits` | checks of all workers interleave command by command; time passes between them; limits live in one process | what is let through in a minute is bounded by the limit; nothing is refused without cause; usage covers what was served |
| `RateLimitMiddleware` | none | cost and operation of a request, one check per request | errors of the handler look like errors of the limiter | one request, one check, one execution |
| `BackupService` | archives and `<id>_metadata.json` in the backup directory; `backup_history` and `active_backups` per process | create, restore, list, delete, cleanup, cancel | the command-line tool is another process; cancel races the end of a backup; deletes leave the metadata file | what is listed can be restored; a delete stays deleted |
| `ImportExportService` | `import_jobs`, `export_jobs`, in an object that each request makes anew; files of exports | import, export, status, download, cleanup | background tasks outlive the request and its uploaded file; rows and batches fail one by one | every row is told once; a job ends, and can be found; what failed leaves nothing behind |
| `AuthService` | API keys and tenants in dictionaries of one process | authenticate, authorize; make and revoke a key, create a tenant | keys are per worker and lost on restart; what was checked may change before it is used | a revoked key runs nothing; a handler's caller is known |
| `EmbeddingService` | one global of the process, made by the first request; its `_model` and `_dimensions`, loaded by the first search by text | embed a text, check its dimensions | threads race to make it, requests to load it; the model is there before its dimensions | nothing is encoded without a model; every request ends |
| Hybrid search, metadata filter, scores, index parameters | none (a text index, built anew by every request) | scoring, filtering, result fusion, text search, parameter choice | arithmetic at the edges, nested expressions, precedence | equals what is meant |
| Metrics, logging, schemas, settings | counters | – | – | – |
| gRPC server | – | never started by `main.py` | – | – |

## The modules

| Module | Models |
|---|---|
| `DatasetDirectory` | one dataset name: directory, handles of all workers, create / get / insert / delete |
| `VectorTable` | the rows of one dataset behind one handle: insert / get / update / delete, scans, commits |
| `RateLimiter` | `check_rate_limit` of one tenant over redis: three strategies, operation limits, usage, administration |
| `WindowQuota` | what a fixed window promises; `RateLimiter` is shown to implement it |
| `ResponseCache` | the handlers over one dataset and one of its vectors, and their three cache entries |
| `BackupCatalog` | the backup directory and the history of every process that uses it |
| `TransferJobs` | the import and export jobs of one worker, from the request to the end of the task |
| `RequestPath` | the way of a request: limiter, authentication, authorization, handler, and the search by text; composes the next two |
| `AuthService` | keys, tokens and tenants of every process, and the decisions taken from them |
| `TextEmbedding` | the model of a process and its dimensions |
| `SearchService` | `search_vectors`, hybrid and text search and the building of an index, step by step; composes the next three |
| `SimilaritySearch`, `MetadataFilter`, `HybridRanking` | scores and index parameters; filters; text scores and what a fusion can answer, as operators |
| `MC…` | symmetry sets and the values of constants for TLC |
| `…Proofs` | the theorems of a module |

The modules split the service where its parts meet. `ResponseCache` treats a
call of `DeepLakeService` as one step; what happens inside is in
`DatasetDirectory` (the directory and the handles) and `VectorTable` (what is
done through one handle). `RequestPath` treats a check of the limiter as one step
with three outcomes, which `RateLimiter` details, and follows one handler, the
search by text. A history variable that a property needs and the code
does not have is declared under "history, no counterpart in the code" and never
read by a guard.

**Steps.** What a coroutine does between two awaits is one step. An executor
call is a step of its own, or several where other threads and processes can see
the state in between: the entries that `rmtree` unlinks, the columns that a
delete pops, each row a scan reads. A redis command is one step and may raise,
with or without an effect on redis. A worker may die at any step.

### DatasetDirectory

| State | Code |
|---|---|
| `path`, `files`, `meta` | the directory, the Deep Lake files, `dataset_metadata.json` |
| `datasets[w]` | `self.datasets[key]` of worker `w` |
| `turn[w]` | the coroutine that holds the event loop across two looks at the disk |
| `pc`, `op`, `home`, `overwrite`, `handle`, `tries` | the request in a slot |

`files`, `meta` and the handles are generations: the number of the `create`
that made them, 0 for none. `CreateCheck … CreateStoreFails` are
`create_dataset` (90-201) from the check at 107 to the metadata file and the
handle at 197; `UseStart`, `ExecLoad`, `LoadStore`, `ExecCommit` are
`get_dataset` and `insert_vectors` with the three attempts of `_load_dataset`;
`DeleteStart … ExecRmRoot` are `delete_dataset`, whose `rmtree` takes three
steps. `Restart` kills a worker and its requests.

`HandleFresh` and `NoLostInsert` say what a client relies on, under the
conditions the code needs: no create or delete met another request (`overlap`)
and none stopped halfway (`torn`). One condition is missing on purpose, one
worker: see the run `directory_stale`. `CleanupSparesOthers` is the promise of
the check at 107 and holds with any number of workers.

### VectorTable

`id` and `rest` are the working copy (the `id` column, which is scanned and
popped first, and the thirteen others as one); `saved` is what was committed
last. A row of `rest` carries the version of its `values`, the field an update
writes first, and of its `meta`, which stands for the fields written after them.
`Visit` is the loop of `insert_vectors`, which holds the event loop (`turn`)
from the first vector to the last: `_vector_exists` is a plain call, so the scans
of `skip_existing` and the appends are made on the loop, and only the commit goes
to the executor. What other requests had already sent to the executor goes on
meanwhile. `ScanNext`, `ScanHits`, `ScanFails` are `_vector_exists` and
`_find_vector_index_by_id`, which does run in the executor, one row a step, with
the exception at the end of a table that shrank answered as "absent". `WriteValues`, `WriteMeta` are
`_update_vector_at_index`, and `PopId`, `PopRest`, `Raises`
`_delete_vector_at_index`; `Commit`, `CommitLocked`, `CommitFails` the commit
with its five attempts. `Restart` opens the saved table. An update in the model
gives every field; one that gives fewer writes the rest unchanged.

`RightRow` (an index that was found is still at its row when it is used),
`ColumnsAligned`, `AckedDurable` (what was acknowledged is committed, in every
field, across failed commits and restarts) and `SkipExistingUnique` each name
the meeting of requests they cannot bear (`raced`: a delete with a request that
goes by index; `torn`: a delete with an insert; `crossed`: two updates of one
vector; `plain`: an insert without `skip_existing`). A delete that fails between
its pops leaves the columns of different lengths in the working copy (`half`).
That alone excuses nothing: the saved table lines up and has all that was
acknowledged, and a restart undoes the damage (`Restart`). Only a commit made
before one, of any request, saves the torn columns, and then `torn` is set too.

### RateLimiter

A check is one call of `check_rate_limit`. `Start` reads limits and clock,
`ChargeOperation` is `_check_operation_limit`, `Purge`/`Count`/`Add`/`Expire` the
sliding window, one for each of its four commands, `Increment` the fixed window, `GetBucket`/`SetBucket` the token bucket
(the leaky bucket calls it), `RecordUsage` the usage pipeline. `Fails` is a
command that raises; `Restart`, `UpdateLimits`, `Reset` are what an operator
does. Only the sliding window is reachable with the shipped settings, through
`POST /test-rate-limit`; the others are code that a change of one default turns on.

- `SlidingBounded`: ZCARD and ZADD are two commands, so overlapping checks pass
  together, and a slow check may have its own minute purged by a later one. The
  excess is at most two calls for each further check ever in progress at the
  same time, and one for each entry that was lost with its key (`lapsed`);
  without overlap and without such a loss there is none. No check may take longer
  than the ten seconds between the minute and the life of the key.
- `LapseNeedsFailure`: the key lives for 70 seconds (`Ttl`, `zdies`) from the last
  EXPIRE on, which comes after ZADD as a command of its own. If every check
  that adds an entry comes to its EXPIRE, no entry is lost early, however the
  two commands of many checks interleave; one that fails in between can cost
  others their entries.
- `RefusedOnlyWhenFull`: a refusal is justified by calls really let through.
- `FixedWindowExact`, `OperationLimitExact`, `ImplementsQuota`: INCRBY counts
  and tells in one command, so these limits are exact under any interleaving.
- `TokenBucketExact`: without overlap, at most a full bucket and what dripped in
  since. The bucket's TTL of two minutes adds a condition, that a bucket fills
  in less; an administrator can set a `burst_size` for which it does not.
- `UsageCovers`: the usage shown covers every call that was answered.

Abstractions: two requests never read the same `time.time()` to the last digit
(the members of the sorted set are timestamps); a key whose name holds its
window outlives it by ten seconds, and its expiry, which no check that takes less
meets, is left out; the key of the sliding window and the bucket do expire.
Tokens are counted in units of 1/`Window`.

### ResponseCache

`born` and `vec` number the creations of the dataset and the writes of the
vector; `infoBorn`, `infoSize`, `vecCached`, `resultsCached` are the entries in
redis; `copy…` is what a handler has read and is about to store. `RedisFails`
takes the path of the `except` clauses of `CacheService`, `Dies` ends a request
at any step, `Expire…` are the TTLs. A call of the service may raise after it
changed what is stored: a create with `overwrite` that has removed the old
dataset, an rmtree that stops halfway (`wreck`), an update at a later field or at
its commit, a delete after its first pop, a batch after its rows are in. The
handler then answers an error and never comes to the cache (`CreateFails`,
`DeleteDatasetFails`, and the second branches of `UpdateVector`, `DeleteVector`,
`InsertBatch`). The batch delete (vectors.py:355) is not an action: the route of
`delete_vector` (303) comes first and takes DELETE `/batch` as the delete of a
vector named `batch`.

`InfoFresh` and `VectorFresh`: an entry is the stored object, or the request
that changed it has yet to reach the cache and so has not been answered,
provided no redis command or worker failed (`lost`), no change overlapped a fill
(`racedInfo`, `racedVector`), and it is not the very entry that was cached when a
change failed after it took effect, or, for the vector, when its dataset went
away (`leftInfo`, `leftVector`). These last two come down again as soon as the
entry is dropped, replaced or expires: a failed change stales one entry, and none
that is made later.

### BackupCatalog

| State | Code |
|---|---|
| `temp`, `archive`, `meta` | `<id>/`, `<id>.tar.gz`, `<id>_metadata.json`; a file being written is `"partial"` |
| `history[p]`, `unread[p]` | `backup_history` of process `p`; what `_load_backup_history` has still to read |
| `proc`, `phase`, `status` | the `create_backup` of an id: its process, where it stands, `BackupMetadata.status` |
| `old` | ids whose timestamp is before the cutoff of `cleanup_old_backups` |

`Create … Record` are `create_backup` (186-255) with `_create_full_backup`, which
the other two types call as well; `BuildFails` and `StoreFails` its two error
paths, of which only the first removes anything. The coroutine lets others run
only in `_get_datasets_to_backup` (287), so a cancel can come only there; from
then on its process does nothing else (`Free`), but another process may read the
directory, and any process may end (`Restart`). `Drop` is `delete_backup`, which
leaves the metadata file; retention goes through it too.

`ListedIsRestorable` relates a list in memory to a file that another process
may have written or lost; it rests on the order archive, working directory,
metadata, history. `FailedIsNotListed` and `CompletedIsKept` say that the answer
of `create_backup` stays true after restarts.

### TransferJobs

| State | Code |
|---|---|
| `step`, `xstep` | where `_process_csv_import`, `_process_json_import` and the two exports stand |
| `status`, `total`, `processed`, `successful`, `failed`, `noted` | `ImportJobStatus`; `noted` is the length of `errors` |
| `goodLeft`, `badLeft`, `batch` | the rows still to come, and the length of `batch` |
| `closed` | FastAPI has closed the upload |
| `xstatus`, `xtotal`, `stored` | `ExportJobStatus` and its file |
| `answer` | what the last GET of a job was answered |

A file is how many of its rows are sound, of another dimension, or junk, and
whether it is text; the order of the rows is left open, so every order is
checked. `Readable` and `Bad` are where CSV, JSON and JSONL differ. `InsertBatch`
counts a whole batch as failed, because it calls `batch_insert_vectors`, which
`DeepLakeService` does not have; for the same reason (`list_vectors` has no
`filters`) an export with vectors fails on its first page, and only an export of
nothing comes to `ExportFinish`. It may fail as well, up to the `stat()` after its
status was set (`ExportFails`), and its file stays whatever happens. `NewService`
is empty: every request builds its own `ImportExportService`, so status, download
and cleanup never know a job. `RowsAccounted` and `JobsEnd` are what the job says
of itself.

### RequestPath, AuthService, TextEmbedding

A request is `at` a stage: `dispatch` and `limit` are
`RateLimitMiddleware.dispatch`, `authenticate` and `authorize` the dependencies,
`handler` a handler of which only the end is followed, and `load` … `search` the
awaits of `search_by_text`. `guarded` holds the requests whose `call_next` stands
inside the `try` of the middleware: an exception of their handler is taken for one
of the limiter and the application is called again (`HandlerRaises`), with a
body that may be gone (`BodyIsGone`: Starlette then waits until the client gives
up, `ClientLeaves`, which it need not do). The handlers of import and export do raise:
they call `track_error`, which `MetricsService` does not have.

`AuthService` has the keys known to each process and those revoked in it;
`Required` is the permission table. `GenerateKey`, `RevokeKey`, `CreateTenant` are
called by no route; scripts call them in a process of their own (`Processes`
that are not `Hosts`). `Restart` leaves a worker with the default key alone.
`TextEmbedding` has the embedding service of each host and two sets, the providers
with a model and those with dimensions; a provider has the name of the request
that made it. `get_embedding_service` is a plain dependency and runs in the thread
pool: `LookForService`, `MakeService`, `TakeService` are its check, its assignment and
its return, so two threads can make two, and `provider` is the one a request was
given. Requests that come while a model is loading load it again, and one that
comes between the two assignments takes every dataset for compatible (`Validated`).
`DatasetFails`, `LookupHits`, `LookupMisses` and `Search` are the rest of
`search_by_text`: a dataset that is not there, the cache, whose hit raises in its
validation as `ResponseCache` says, and the search.

`RevokedNeverRuns`: a request that comes after its key was revoked runs no
handler, through both calls of the application and restarts. `RunsOnce`: a
handler runs again only after it raised, and one that is refused did not run unless
its first run raised: the second call of the application authenticates again.
`HandlerKnowsCaller`: what was checked several awaits ago still holds.
`EncodesWithModel`: a request never tests, encodes or searches with a provider whose
model is not loaded, whichever it was given. `RequestsEnd`: a request ends, or waits
for ever at one place for something outside the worker.

### SearchService, SimilaritySearch, MetadataFilter, HybridRanking

The pure part of the service as operators, and as steps where the code has
steps: `Fetch`, which also sorts, `ParseFilter`, then `SkipHead`, `TakeHead`, `Answer`, the
loop of `search_vectors` (528-762); `RefuseWeights`, `TextSearch` and `FuseHits` are
`hybrid_search`, `BuildIndex` the POST of an index. Each initial state is one request.

- Scores are integers in the order of the code's floats: `SimilaritySearch`
  squares the cosine and keeps its sign; `HybridRanking` multiplies out the
  lengths of texts with the constant `ShareScale`, and takes the
  logarithms from a table `Logs` of numbers that are not negative, which is all the
  properties need of them.
- The vector half of a hybrid search calls `search_vectors` with an argument it
  does not have, so it always raises and becomes an empty list (`VectorHits`), and a
  fusion answers only hits of that half (`Fused`). What the five fusions would make
  of two lists is never asked of them and not modelled.
- A value of metadata is a type and a number, a list with the values in it, so
  that `_convert_value_type`, the comparison of types, membership in lists and in
  strings, and the operators on missing fields are what they are in the code.
  `Metadatas` is what rows may carry.
- A filter is a dictionary in a set `Dicts` that contains all that are nested in
  it (`Nesting` says how deep), or a sequence of words; `Phrases` are the words
  that are conditions. `CutText` and `CutGroup` say at which words a text is cut;
  `ParseDict` and `ParseSql` are the recursion of the parsers, as functions. What
  they return is the verdict that `_evaluate_expression` reaches on each metadata:
  takes, refuses, or raises.
- `BestMatchesInOrder`, `FilterIsItsLogic`, `SqlIsItsLogic` and `TextFavours` compare
  what the steps answer with a definition of what is meant, written without the
  code's control flow (`Rivals`, `Meant`, `MeansSql`, shares of words).
  `FilterIsItsLogic` is about the conditions that the code reads as
  docs/metadata-filtering.md has them (`Documented`); `$exists` and `$null` with false,
  which it does not, are in `MCSearchServiceExists`.

## The runs

TLC bounds are small because the hazards are: each known one takes two or three
requests and one or two objects, and no part of the state that the modules
leave to one instance (another dataset, another tenant) is shared with it. Runs
take between seconds and two minutes with two TLC threads.

| Run | Configuration | Shows | Bounds |
|---|---|---|---|
| `directory` | `MCDatasetDirectory` | `TypeOK`, `HandleFresh`, `NoLostInsert`, `CleanupSparesOthers`, `EveryRequestEnds` | one worker, two requests at once and any number in turn, three creations (create / delete / create with a load in between), the code's three load attempts |
| `directory_stale` | `MCDatasetDirectoryStale` | `HandleFresh` fails with two workers | requests one after the other suffice |
| `table` | `MCVectorTable` | `TypeOK`, `RightRow`, `ColumnsAligned`, `AckedDurable`, `SkipExistingUnique` | two requests of any kind, batches of one or two, two ids, two rows, one update a row, two commit attempts, restarts; states in which the provisos of all the invariants are void (`StillAsked`) are not explored further |
| `table_live` | `MCVectorTableLive` | `EveryRequestEnds` | the code's five commit attempts |
| `table_delete` | `MCVectorTableDelete` | `DeletesItsVector` fails | two deletes, two rows |
| `rate` | `MCRateLimiter` | `SlidingBounded`, `LapseNeedsFailure`, `RefusedOnlyWhenFull` | five checks, two in progress at once, limit two, a minute of two ticks, a key that lives for three, one delayed tick; any command may raise, and the worker restart |
| `rate_windows` | `MCRateLimiterFixed` | `TypeOK`, `OperationLimitExact`, `UsageCovers`, `TokenBucketExact`, `ImplementsQuota` | three checks, two at once, costs one and two, an operation with its own limit, two limits to set |
| `cache` | `MCResponseCache` | `TypeOK`, `InfoFresh`, `VectorFresh` | two requests, two creations, two writes of the vector, two vectors in the dataset; any call of the service and any command may raise |
| `backup` | `MCBackupCatalog` | `TypeOK`, `ListedIsRestorable`, `FailedIsNotListed`, `CompletedIsKept` | two processes, two backups, each step may fail or be the last of its process |
| `transfer` | `MCTransferJobs` | `TypeOK`, `RowsAccounted`, `JobsEnd` | one import and one export; five files (empty, junk only, every sort of row, more good rows than a batch, not text) in three formats, batches of one to three, a dataset of no or two vectors with and without a limit; a restart at any time |
| `search` | `MCSearchService` | `BestMatchesInOrder`, `FilterIsItsLogic`, `SqlIsItsLogic`, `TextFavours` | every table of up to three rows of four vectors, two metrics, thresholds on and off; dictionaries with up to two operators around fields, over eight rows of metadata of every type, lists among them; SQL chains of up to four conditions, groups, and what does not parse; a window of twice `top_k` rows; up to three texts of up to three words |
| `access` | `MCRequestPath` | `TypeOK`, `RevokedNeverRuns`, `RunsOnce`, `HandlerKnowsCaller`, `EncodesWithModel`, `RequestsEnd` | two requests of three kinds (excluded, charged, without a tenant; token, known key, key yet to be made), so up to two embedding services, one restart, one tick of the clock |

In every run each action can happen: failures, restarts, retries and expiry are
on. One run has a state constraint: `table` goes on only from states in which no
delete met a request that goes by index, no two updates of one vector met, and
`torn` is not set unless every insert asked for `skip_existing`
(`StillAsked` in `MCVectorTable`); past them the invariants say less and less,
and the proofs cover every history. `MCDatasetDirectoryThree` repeats the safety
properties of `directory` with three requests at once, by hand.
Bounds that the code does not have are
named in the CONSTANTS of each module (`MaxGen`, `MaxRows`, `MaxTime`, …) and
stand in guards. `MaxDelay` of `RateLimiter` is also a bound on the real time
between a check's look at the clock and its last command. Symmetry is used
where slots, ids or workers are interchangeable, and not in the liveness runs.

Each property of a passing run has a mutant: a definition that models code with
one plausible bug in it, kept just before the definition it alters and marked
"Mutant of". The run with the mutant in place violates the property.

## Fairness

- `DatasetDirectory`: WF on the executor jobs of a request (a thread-pool job
  that runs ends, with a result or an exception) and SF on its resumption. The
  resumption needs the event loop, which others may hold again and again;
  asyncio's ready queue is first in, first out, so a coroutine that is ready
  time and again is resumed, which is strong fairness. Nothing is assumed of
  arrivals and restarts.
- `VectorTable`: WF on each started request. Its steps run in executor threads
  or hold the event loop, and only the request itself disables them.
- `TransferJobs`: WF on each task. It is a coroutine that other requests do not
  disable; its files and the dataset answer or raise.
- `RequestPath`: WF on the steps of each request that wait for nothing outside the
  worker: the event loop resumes what is ready, and the thread pool finishes what
  it only computes. At the stages of `Outside` nothing is assumed: redis, whose
  client has no timeout, the client whose body is awaited, the download of a
  model and the storage may never answer. `RequestsEnd` therefore says that a
  request ends if it does not stay at one of these for ever; what it excludes is
  that it goes in circles, through the second call of the application or through
  loads that are tried again. Nothing is assumed of scripts, the clock and restarts.
- `RateLimiter`, `ResponseCache`, `BackupCatalog` make no liveness claim, for the
  same reason. The steps of `SearchService` are one loop that shrinks a list.

## The proofs

All theorems hold for every value of the constants under the named `ASSUME` of
the module, which TLC evaluates on each run.

| Theorem | States |
|---|---|
| `DatasetDirectoryProofs!TypeCorrect` | `TypeOK` |
| `DatasetDirectoryProofs!SingleWorkerHandleFresh`, `SingleWorkerNoLostInsert` | with one worker: `HandleFresh`, `NoLostInsert` |
| `DatasetDirectoryProofs!CleanupIsAsked` | `CleanupSparesOthers`, any number of workers |
| `VectorTableProofs!TypeCorrect` | `TypeOK` |
| `VectorTableProofs!SkipExistingNeverDuplicates` | `SkipExistingUnique` |
| `VectorTableProofs!IndexStaysOnItsRow`, `ColumnsStayAligned`, `AcknowledgedIsDurable` | `RightRow`, `ColumnsAligned`, `AckedDurable` |
| `RateLimiterProofs!TypeCorrect` | `TypeOK` |
| `RateLimiterProofs!FixedWindowNeverExceeded`, `OperationLimitNeverExceeded` | `FixedWindowExact` (what `ImplementsQuota` says without a history), `OperationLimitExact` |
| `RateLimiterProofs!FixedWindowImplementsQuota` | `Spec` implements `WindowQuota` |
| `RateLimiterProofs!UsageIsCovered` | `UsageCovers` |
| `RateLimiterProofs!SlidingWindowIsBounded` | `SlidingBounded` |
| `RateLimiterProofs!SlidingKeyOutlivesEntries` | `LapseNeedsFailure` |
| `RateLimiterProofs!SlidingWindowRefusesNoOther` | `RefusedOnlyWhenFull`, if `MaxDelay < Window` |
| `RateLimiterProofs!TokenBucketIsExact` | `TokenBucketExact` |
| `ResponseCacheProofs!TypeCorrect` | `TypeOK` |
| `ResponseCacheProofs!CachedDatasetIsFresh`, `CachedVectorIsFresh` | `InfoFresh`, `VectorFresh` |
| `BackupCatalogProofs!TypeCorrect` | `TypeOK` |
| `BackupCatalogProofs!Restorable`, `FailureIsFinal`, `CompletionIsDurable` | `ListedIsRestorable`, `FailedIsNotListed`, `CompletedIsKept` |
| `TransferJobsProofs!TypeCorrect`, `EveryRowIsCounted` | `TypeOK`, `RowsAccounted` |
| `SearchServiceProofs!SearchTypeCorrect` | `TypeOK` |
| `SearchServiceProofs!BestMatchesAreAnswered` | `BestMatchesInOrder` |
| `SearchServiceProofs!FilterLogicHolds`, `SqlLogicHolds` | `FilterIsItsLogic`, `SqlIsItsLogic` |
| `SearchServiceProofs!TextFavoursHolds` | `TextFavours` |
| `RequestPathProofs!TypeCorrect`, `RevokedKeysAreRefused`, `HandlersRunOnce`, `CallersAreKnown`, `ModelsAreLoaded` | `TypeOK`, `RevokedNeverRuns`, `RunsOnce`, `HandlerKnowsCaller`, `EncodesWithModel` |

**DatasetDirectory.** `HandleFresh` speaks of moments when no create or delete
is in progress, so it is not inductive. `IInv` adds: a create or delete that met
nobody is the only request (`Alone`); which request can be in which phase
(`PhaseOp`); what the directory looks like between such requests (`Settled`);
and what each phase finds on disk (`OnDisk`): an emptied directory before
`deeplake.create`, the new files and an old handle before the metadata file,
the very generation of the handle before a commit. One worker is needed in one
step only: a create or delete changes the handle of its own worker.
`CleanupIsAsked` has its own invariant: a create without overwrite that met no
other create finds nothing to clean up.

**VectorTable.** `SInv` says what a scan has established so far: an insert with
`skip_existing` that has read up to index `i` without a hit has its id nowhere
below `i` (`Scanned`), in a table that only grows (`torn` is FALSE), and its
last comparison and its append are one step of the loop, so that two inserts of one id
cannot both reach the append (`Apart`). Two lemmas on `RemoveAt` and one on
`Append` of sequences without repetitions carry the rest.

`RowInv` carries the three properties about rows.
`AllDoing` ties the kind of a request to its phase; `AllMeeting` says of every pair
of requests what they may be while the flags are down; with both, `AllPlaced`
follows: between `find` and the use of the index nobody but a delete shortens
the table, and such a delete raises a flag. `Lined` says where the columns stand
when a delete has popped `id` and not yet `rest`: `id` lines up with `rest` without
the row at the delete's index (`half`). When the second pop fails that damage stays,
in the working copy alone, until a commit saves it and sets `torn`, or a restart
opens the saved table, which lines up. `Durable` says of the working copy, which the
next commit saves, what `AckedDurable` says of the saved table, and of each request
in progress that its row is still there (`Promised`); between the fields of an
update, that the row it wrote first is the row at its index. Each part is kept by
frame lemmas (`OthersAlike`: a step of one request changes nothing another one
keeps) and lemmas on `Append`, `RemoveAt` and replaced rows.

**RateLimiter.** Kept(count, through, bound): redis has counted at least what was
let through, and what was let through was within the bound when it was counted.
Neither half is inductive alone: a reset clears both together, a refused call
raises only the first. The refinement follows from the same invariant, since
each `Increment` is a grant within the cap or a stutter.

The other properties add up costs of checks and levels of the bucket. A sum over
a finite set (`SumFunctionOnSet`) is a recursion, and the theorems of the library
about recursion and induction cannot be used here; the module proves its own,
first order: `SmallestDefect` (of the subsets of a finite set that have a defect,
one has no smaller one) from the well-foundedness of strict inclusion, and from it that a sum
exists, what it is when an element is added or taken away, and how it grows.
`UsageInv` then says that the usage lies between the cost of the checks that were
answered and that of those which also failed after they were counted.

For the sliding window, `Calls` ties each check to its phase and to the clock
(`Timely`: it began at most `MaxDelay` ago) and the number in progress to `peak`.
`Bounded` splits on the minute: while no check has a clock that makes it old
(`Unpurged`), every call let through in it is still in the sorted set, but for those
lost with the key (`Gone`), and at most as many more are as there were checks
between ZCARD and ZADD; once one has (`Purged`),
only checks that started before can still add to it, which is where the second
call for each overlapping check comes from. `NoMore` is the other direction: no
entry without a call, from which the refusals follow with `Cleared`: between ZREMRANGEBYSCORE
and ZCARD of a check there is no entry older than its minute, because a slower
check that could put one back would be a minute late. Hence the hypothesis
`MaxDelay < Window`, that a check takes less than a minute.

`KeyKept` is about the life of the key. Its expiry was set by the last EXPIRE, and
covers every entry of that time or earlier. An entry it does not cover belongs
to a check that has yet to come to its EXPIRE, or to one that failed (`Owed`);
and a check that could count such an entry when the key is gone comes a minute
later, after one that has yet to set the expiry and is too slow, unless one
failed (`Followed`). So an entry is lost before its time only if some check
failed between its two commands (`Blamed`), if `MaxDelay <= Ttl - Window`: the ten
seconds by which the key outlives its minute are what a check may take.
`SlidingBounded` needs the same hypothesis.

`Bucket` speaks of runs without overlap: what was let through since any tick,
together with what is in the bucket, is at most a full bucket and what dripped
in since; while a check holds the bucket between its GET and SET, the same of
what it is about to write. The proviso of `TokenBucketExact` about `burst_size`
makes a forgotten bucket no fuller than one that dripped all the while.

**ResponseCache.** `InfoFresh` needs to know of the copies (`CopiesOfInfo`): a
request about to store a copy stores the current dataset unless a change came
after its read, which is exactly when `racedInfo` was set. The same for the
vector. A call that raises after it changed the store goes on to no
invalidation, so those steps (`IHalfDone`, `VLeft`) keep the invariant only because they
set `leftInfo` or `leftVector` when an entry is there, and every fill and every drop clears
them again. `TypeOK` needs that a dataset with the vector is not empty (`Inhabited`).

**BackupCatalog.** `Files` ties the two files to the phase: no metadata before
the archive is whole, and none in full after a failure. `Listed`: an entry, or a
delete, presupposes whole metadata. `Unread`: no process has still to read a
backup it is making, because a restart ends what it was making. `Kept`: the maker of
a completed backup has it in its history or among the files to read.

**TransferJobs.** `Counted` extends `RowsAccounted` to the steps before the rows
and counts the rows processed while some are still to come; the batch is always
shorter than `batch_size`, so that a full one is inserted at once.

**RequestPath.** `IInv` has the types, that the embedding service of a worker and
the one each request was given were made in that worker (`Owned`), and of every
request, stage by stage: how often its handler began and raised (`Counted`: the
second call of the application is not guarded, so there is no third); that a late
request is not past its authentication while its key stays revoked in its
worker, and that a restart, which forgets the revocation, also ends the request
(`Refused`); what its checks found that nothing but a restart takes back
(`KnownTo`); that it has a provider once it took one (`Served`); and that the provider
has its model wherever it is used (`Loaded`). That last part is about the provider of the
request, not the one of its worker, which may have been replaced meanwhile.

**SearchService.** The loop takes the candidates in order, so `IInv` says what is
true of the rows behind it: each of them that passes is a result, or the results are
full of rows before it, and the two lists are in order without a row in common.
That the sort by rank (`Sorted`, `Candidate`) gives a list in which each element
has as many before it as its place says is `Ranking` and `Listing`, for any strict total
order on a finite set; the order by score and row is the instance.
`BestMatchesInOrder` follows by counting `Rivals`.

The parsers recurse over dictionaries and texts, and the theorems of the library
about recursion have an operator as their parameter. `LeastRank` (a nonempty set with
a rank in the naturals has an element of least rank) and, from it, `Recursion`
(a function that is defined by its values at smaller ranks exists) are first
order; they give the equations of `ParseDict`, `Meant`, `PartsOf` with `Nesting` as
rank, and of `ParseSql` with the length of the text, for which `CutsAreShorter`
says that every cut is shorter than the text. `DictMeans` is then proved by a
dictionary of least depth that would break it, `Combined` being the case of one
operator: a filter raises on metadata exactly if some condition in it does, and
otherwise takes it exactly if it is in `Meant`. `AndIsMeant` and `SqlMeans` say the same of texts without
parentheses, whose parts around a word cover the text (`PartsCover`).

`TextFavours` speaks of the hits as the text half of a hybrid search leaves them.
`TextFound` is its invariant. A score of a text is a sum over the words of the query
(`TextScoreSums`), and every summand grows with the share of the word.

The assumptions are what the module says its requests are:
`FilterAssumption` (nested dictionaries are in `Dicts` and less deep; a word that is a
condition is no keyword), `ListsUnordered` (no filter asks whether one list
is less than another), `RankingAssumption` (shares and logarithms are natural
numbers) and `SearchAssumption` (the shape of a request; `ShareScale` is a multiple of
what it is divided by).

Only model-checked is what the provers cannot reach: the liveness properties
(`EveryRequestEnds`, `JobsEnd`, `RequestsEnd`), which rest on fairness and
ENABLED. The properties of the next section are false of the code.

## Where the code and its documents disagree

Runs that expect a violation, each with a quotation under "findings":

- `directory_stale`: a second worker keeps searching and inserting through a
  handle on files that are gone (docs/faq.md:209).
- `table_delete`: of two deletes the second removes another vector
  (deeplake_service.py:908).

More of the same kind. Where a configuration is named, it shows the violation;
where a run is named, TLC shows it when the property takes the place of the
properties of that run's configuration. Most need no concurrency.

| Configuration or run | Property | The code |
|---|---|---|
| `MCDatasetDirectoryRace` | `CreateNeverDestroys` | of two creates of one name the second destroys what the first made (107); exceptions.py:32 "already exists" |
| `MCVectorTablePartial` | `SavedAligned` | a commit between the pops of a delete saves a row without an id (1096); 1095 "We need to remove the item from all tensors" |
| `MCVectorTableUpdate` | `UpdatesAreWhole` | a commit of another request, or a crash after it, keeps half of an update (1057); its docstring, 861, "Update a specific vector." |
| `MCVectorTableOverwrite` | `OverwriteReplaces` | `overwrite` is never read (329); schemas.py:153 "Overwrite existing vectors" |
| `MCVectorTableSkipDelete` | `SkipExistingAlwaysUnique` | a scan that runs off a shrunken table answers "absent" (1126); import-export.md:284 "to avoid duplicates" |
| `MCRateLimiterCost` | `CostsCount` | one entry in the sorted set whatever the cost (224); rate_limiting.md:11 "Expensive operations consume more quota" |
| `MCRateLimiterBurst` | `BurstWithinCapacity` | the bucket is read and written in two commands (280, 312); rate_limiting.md:65 |
| `MCRateLimiterImport` | `OperationLimitIsReachable` | an import costs 50 of 5 a minute (430); rate_limiting.md:34 |
| `MCRateLimiterUpdate` | `UpdateRules` | an update reaches one worker (602); rate_limits.py:122 |
| run `cache` | `DeletedDatasetIsNotCached` | a read that began before a delete stores the dataset after it (datasets.py:154); cache_service.py:200 "Invalidate all cache entries for a dataset." |
| run `cache` | `NoVectorOfAnOldDataset` | `vector_info` is not invalidated with its dataset (201); cache_service.py:200 |
| run `cache` | `CachedCountIsCurrent` | an insert leaves the cached count (vectors.py:42); docs/architecture.md:173 |
| run `cache` | `RepeatedSearchAnswers` | a cached list is validated as a response and raises (search.py:72); README.md:266 |
| run `backup` | `DeletedStaysDeleted` | a delete leaves the metadata file, and the next start lists the backup again (backup_service.py:693); its docstring, "Delete a backup." |
| run `backup` | `CancelledIsNotCompleted` | the status is overwritten at the end (239); backup.py:318 "Backup cancelled successfully" |
| run `transfer` | `JobIsFound` | every request looks among the jobs of its own, new service (import_export.py:117); import-export.md:89 |
| run `transfer` | `CompletedNotesNothing` | lines of JSONL that do not parse are skipped and the job completes (import_export_service.py:344); import-export.md:120 |
| run `transfer` | `AllProcessed` | a row that fails is not counted as processed; import-export.md:95-100 counts 5 failed among 1000 processed |
| run `transfer` | `FailedExportLeavesNoFile` | the file stays (577); import-export.md:326 "Clean up temporary files after processing" |
| run `transfer` | `UploadIsRead` | the upload is closed with the request, before or after the task reads it (217) |
| run `search` | `ParenthesesAreKept` | what stands before a group is dropped unless it is NOT (metadata_filter.py:183); metadata-filtering.md:53 |
| `MCSearchServiceExists` | `ExistsReadsItsValue` | `$exists` and `$null` ignore their value (metadata_filter.py:432); metadata-filtering.md:88 |
| run `search` | `FilterSeesMetadata` | without `include_metadata` a filter sees none (deeplake_service.py:670) |
| run `search` | `SearchIsExact` | only the first ten times `top_k` rows are read (533) |
| run `search` | `HybridAnswersHits` | the vector half raises and the fusion keeps only its hits, so a hybrid search answers nothing (hybrid_search_service.py:185); hybrid-search.md:9 |
| run `search` | `TextFinds` | a word that every text has weighs log(1) = 0 and finds nothing (325) |
| run `access` | `HandledOnce` | an exception of the handler makes the middleware call the application again (rate_limit.py:133) |
| `MCRequestPathService` | `OneService` | two threads that find no embedding service make one each (embedding_service.py:281); its docstring, 278, "Get or create the global embedding service instance." |
| run `access` | `MismatchIsNoticed` | a request between `_model` and `_dimensions` skips the comparison (embedding_service.py:115); search.py:152 |
| run `access` | `DimensionsAreFound` | a test encoding that fails leaves a model without dimensions for good (120) |
| run `access` | `RevokedEverywhere` | a request past its authentication goes on after its key was revoked, and other processes never learn of it; auth_service.py:319 |
| run `access` | `MadeKeysAreKnown` | the scripts make keys in their own process; generate_api_key.py:70 |

Not shown by a property, seen while reading: a refused request is answered 500,
not 429, because `RateLimitExceededException` has no details (`LimitRefuses`); SQL
`IN (...)` never parses (metadata-filtering.md:224); the second route of hybrid search
(search.py:449) is shadowed by the first (258), and the batch delete
(vectors.py:355) by the delete of one vector (303); a search over several
datasets looks at the first; the DELETE of an index does nothing.

## What is not modelled, and why

- **Deep Lake, redis, the file system, asyncio**: external; modelled by how the
  code uses them. Concurrent use of one Deep Lake handle from several threads
  is taken to be atomic per column operation.
- **Several datasets or tenants at once**: keys and paths are disjoint, so one
  instance stands for all. The prefix match of the reset pattern
  (rate_limit_service.py:578) is the exception: nothing here covers it (see the plan).
- **list_datasets, list_vectors, get_dataset_stats**: they change nothing; `list_vectors`
  reads its page row by row as `get_vector` reads one, with the same races.
- **Search parameters of an index**: computed and never used by a search.
- **The rate limiter without redis**: `local_cache`, one process.
- **The five fusions, reranking and what is done with fused results**: a fusion is
  never given two lists, and what it makes of the text half alone is empty, so
  none of their arithmetic is reached.
- **Dates, floats and regular expressions in filters, the order of two lists,
  keywords inside quoted literals; snippets and facets**: library calls on text;
  the model has numerals, words and the pattern `%`.
- **Quotas and usage counters of a tenant**: no decision reads them.
- **As shipped the middleware never charges**: its exclusion list contains `"/"`, a
  prefix of every path; `Excluded` is a constant, so both cases are checked.
- **The contents of a backup, and restore**: no dataset gets into an archive. With
  a list of datasets, 764 calls a method that does not exist and swallows the
  error; without, the first dataset found ends the backup (293 subscripts a
  response object). A restore of what there is extracts an archive without
  datasets and answers true. S3 is not reachable: `settings` has no
  `backup_storage`.
- **import_export_service.py:550** nests quotes in an f-string and needs
  Python 3.12; models of it assume an interpreter that loads the file.
- **Metrics, logging, schemas, settings, gRPC**: no state that a later step reads,
  or never started.

## Plan

Done, in this order because data loss comes first, then wrong answers, then
wrong refusals: `DatasetDirectory`, `VectorTable` with its fields and the proofs
about its rows, `RateLimiter` with `WindowQuota`, `ResponseCache`,
`BackupCatalog`, `TransferJobs`, `RequestPath` with `AuthService` and
`TextEmbedding`, `SearchService` with its three modules of operators.

Left, in this order:

1. `RateLimiter`: the fallback without redis; a second tenant for the reset
   pattern, which matches the keys of every tenant whose name begins alike
   (rate_limit_service.py:578).
2. Composition: `ResponseCache`'s one-step view of the service as an
   abstraction of `DatasetDirectory` and `VectorTable`.
3. Proofs: the action properties behind the two refinements, and that the
   service's steps implement that one-step view.
