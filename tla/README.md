# PaiM in TLA+

PaiM ("Project AI Manager") is a FastAPI backend over MySQL and a Chroma vector
index, with a Tauri desktop client. Users upload documents, git logs and
recordings and connect repositories; workers extract decisions, actions, issues
and risks ("memory") from them, and an LLM answers questions over the result.
The state lives in three places that no transaction spans (MySQL, the upload
directory, Chroma), it is written by request handlers, background tasks and a
watchdog thread of one process, and any of them can die at any moment. These
modules model the parts that keep the three consistent, what people and other
requests do to them meanwhile, the path of a question from the published state to
its answer, and the pipeline that evaluates the answers.

## Inventory

| Component | State | Operations | Hard behaviour | Module |
|---|---|---|---|---|
| Upload quota ledger, `backend/quota.py` | `upload_quota_reservations`, `documents`, `storage_cleanup_pending` | reserve, finalize, abandon, renew, transfer to cleanup, fail, delete, cleanup pass, recovery | locks on user and project rows, lost COMMIT acknowledgements, crashes between transactions, cleanup that fails and is retried | `DocumentUpload`, `QuotaLedger` |
| Managed storage, `backend/storage.py` | `.pending/<id>.tmp`, `<id><suffix>` | exclusive write, fsync, rename, delete | a crash between write and rename; a file written after its owner is gone | `DocumentUpload` |
| Upload endpoints and worker, `backend/api/documents.py` | a process lock, a task per upload | upload, git upload, delete, progress, replace old versions | a worker overtaken by DELETE, by the watchdog, by a newer upload of the same file | `DocumentUpload` |
| Audio upload, `backend/stt/router.py` | a second process lock | the same with a transcription step | minutes-long provider calls under a 30 minute lease | `DocumentUpload` |
| Ingestor, `backend/pipeline/ingestor.py` | `memory`, `memory_sources`, Chroma | staged write of rows and vectors | two stores, one commit | `DocumentUpload`, `RepositorySync` |
| Extraction and transcription, `backend/pipeline/extractor.py`, `backend/stt/` | chunks of one text, items found | cut, ask per chunk, join | slices that share characters, doubles, chunks without an answer | `Extraction` |
| Repository sync, `backend/api/repository.py` | `repositories` (active and current run), staged memory and vectors | connect, claim, stage, publish, clean up, delete | two syncs, a stale sync that wakes up, deletion during a sync | `RepositorySync`, `PublishedIndex` |
| Collection from GitHub, same file | what one sync has read | branch, commits, README, issues, pull requests | the repository changes, or disappears, between two requests | `RepositoryCollection` |
| Recovery, `backend/startup.py` | none of its own | quota recovery, stale tasks, stale generations, 60 s watchdog | runs against live workers | `DocumentUpload`, `RepositorySync` |
| Schema upgrade, `backend/startup.py`, `backend/main.py` | the schema itself, sizes of old documents | three upgrade functions before a start serves | MySQL commits at each DDL statement; a start may be cut short anywhere | `SchemaUpgrade` |
| Supersede and suggestions, `backend/api/suggestion.py`, `backend/api/memory.py`, `backend/reconciler/supersede.py` | `memory.superseded_by`, `memory_suggestions` | detect, accept, reject, edit, delete, publish | opposite suggestions accepted at once, edges into retired generations | `Suggestions` |
| Vectors of memory rows, `backend/retriever/memory_vector.py` | one Chroma entry per active row | best-effort upsert after a commit, backfill at start | calls that fail, overlap or never happen | `MemoryVectors` |
| Project summary, `backend/project_memory.py` | `project_memory`, a lock per project | merge, rebuild, drop | read, LLM call, write | `SummaryCache` |
| Pull request reconciler, `backend/reconciler/pr_actions.py` | `repositories.last_reconciled_pr`, suggestions | match merged PRs with open actions | watermark against PRs merged out of order, lists read page by page | `PrReconciler` |
| Project lifecycle, `backend/api/project.py` | everything of a project | create, delete | deletion against uploads and syncs; lock order | `ProjectLifecycle` |
| Chat, `backend/chat/` | `chat_sessions`, `chat_messages`, `chat_summaries` | query with rolling summary, delete | two queries of one session | `ChatSession` |
| GitHub App, `backend/github/router.py` | sessions and tombstones in memory | create, callback, poll, expire, prune | dictionaries changed by threads without a lock | `GithubSessions` |
| Agentic QA, `backend/agentic_graph.py`, `backend/retriever/qa_tools.py` | one graph run | tool rounds, final answer | bound on rounds, repeated calls, which text is the answer | `AgenticLoop` |
| Retriever, `backend/retriever/` | the evidence of one question | scope snapshot, row and vector reads, supersede history | several reads while the world changes; budgets | `Evidence`, `HistoryChains` |
| Readiness, `backend/api/health.py` | probes under way, a small pool | request, shared probe, timeout | a probe that outlives its request | `Readiness` |
| Desktop client, `desktop/src/` | files shown, deletions owed to the server | upload, cancel, sync, retry | cancelled uploads whose document exists already | `PendingDeletes` |
| Evaluation, `evals/agentic_v2/`, two scripts in `evals/` | question, golden, raw and scored files | run, score, compare; ask and judge with resume | files replaced between commands, scripts killed | `EvaluationPipeline`, `AnswerContract`, `ResumableRun` |
| Membership, authentication, converters, providers, deployment, reports | - | - | see "Not modelled" | - |

### How they interact

A request reserves quota, writes its file and finalizes (one transaction turns
the reservation into a `processing` document); a background task then takes the
process lock, extracts, and calls `ingest`, which holds the document's row lock
while it writes Chroma and publishes with one COMMIT. Every failure path and
every DELETE goes through `transfer_document_to_cleanup`, and `cleanup_pending`,
which every caller and the watchdog run, removes files and vectors and only then
gives the quota back. Repository syncs stage rows and vectors under a run id
that readers do not see until `_set_repo_status` publishes it. Both refresh the
project summary and feed the supersede detector. Deleting a project
empties all three stores under the row locks of its users, the project and its
documents. A question captures the published run once and reads rows, vectors and
history under that scope. The `memory`
table is seen by several of these parts; each module has the columns its question
needs, and the changes the other parts make to them (a publication, a deletion, a new
document) as actions of its own.

### What makes each correct

- Uploads: a file on disk, a vector or a memory row always belongs to a row that
  will keep or remove it; a charge is given back only when the content is gone;
  limits hold at every moment; a failed or deleted document is never revived; a
  version is replaced only by one that was indexed; in the end nothing is left
  over.
- Repository sync: the published generation is complete, is only replaced by a
  complete newer one, and is never cleaned up under a reader; a dead sync is
  resolved; what was not published goes.
- Collection and extraction: what is stored is of the commit shown, and whole, or
  says that it is not.
- Supersede: from a hidden decision the published successors lead to a visible one,
  an accepted suggestion took effect, a pending one can be acted on, and the vectors
  of decisions follow their rows.
- Summary: it holds what was merged and no retired generation; what is deleted, hidden
  or brought back is rebuilt.
- Project deletion: whole or gone, and never in a deadlock with uploads, ingests and
  removals.
- Pull requests: the watermark passes nothing uncompared, and catches up.
- Schema: requests are served only on the whole schema, and in the end they are.
- Chat, GitHub, readiness, client: nothing said is forgotten; "expired" before
  "unknown"; "ready" is not an old answer; a cancelled upload is deleted in the end.
- Questions: one published state, whole stories within the budget, every tool call
  answered once, an answer in the model's words only on this run's evidence.
- Evaluation: a pass is deserved, a comparison is of one question set, and a killed
  script loses no record.

## How the modules are checked together

`DocumentUpload` and `RepositorySync` have an MC module each (`MCDocumentUpload`,
`MCRepositorySync`). The smaller modules are composed by three: `Upkeep`, `Requests` and
`Pipelines` EXTEND one of them and INSTANCE the others over variables and constants of
their own, with the assumptions on those constants, and name the properties of the
instances; the theorems are about these modules, for every value of their constants.
`MCUpkeep`, `MCRequests` and `MCPipelines` add the small values TLC needs and a variable
`turn`, chosen in the initial state, which names the instance that moves in a behaviour;
the others stay at one of their initial states. No
instance reads a variable of another, so this explores each state space whole, and not
their product.
Fairness (in `MCUpkeep`) is that of the instance whose turn it is.

Two specifications are abstract: `QuotaLedger` (an upload is new, held, published,
releasing or free, is admitted only within the limits, and stores only while it is
charged) and `PublishedIndex` (a generation arrives whole and in one step and only
later ones replace it). `DocumentUpload` and `RepositorySync` implement them through
refinement mappings, checked by TLC and proved.

| Run | Module, instance | Shows |
|---|---|---|
| `upload_pair` | `MCDocumentUpload`, two documents of one name, two faults | ownership, completeness, `NoVersionLost`, the refinement, `EventuallySettled` |
| `upload_three` | `MCDocumentUpload`, a document, a git log, a recording | the limits, and no revival, with slow requests and a fault |
| `upload_slow_request` | `MCDocumentUpload` | finding |
| `sync_clean` | `MCRepositorySync`, two syncs of two sources, one crash | whole generations, readable snapshots, nothing left behind, the refinement |
| `sync_restarts` | `MCRepositorySync`, two crashes, every fault | `SyncResolved` |
| `sync_lost_publish`, `sync_delete_error` | `MCRepositorySync` | findings |
| `upkeep` | `MCUpkeep` over `Upkeep`: `SummaryCache`, `PrReconciler`, `SchemaUpgrade` | three safety and three liveness properties |
| `requests` | `MCRequests` over `Requests`: `ProjectLifecycle`, `AgenticLoop`, `HistoryChains`, `Evidence`, `ChatSession`, `GithubSessions`, `Readiness`, `Suggestions` twice | twelve invariants |
| `project_vectors`, `supersede_category` | `MCRequests`, one instance | findings |
| `pipelines` | `MCPipelines` over `Pipelines`: `Extraction`, `RepositoryCollection`, `EvaluationPipeline`, `ResumableRun`, `MemoryVectors`, `PendingDeletes`, `DocumentUpload` | eight invariants |

Deadlock checking is off in every run because each of these systems may stop: every
upload settled, every sync over, every question answered, the bounds used up.

## DocumentUpload

One element of `Upload` is one request, its reservation, and the document it may
become. The variables are the three tables (`resv`, `doc` with `leased`, `resvRow`
and `docRow` for the two sources of the cleanup ledger), the disk (`temps`,
`targets`), Chroma (`vectors`), the committed memory rows (`memory`), the program
counter of the request and then of its worker (`pc`), and the list of versions a
worker will replace (`old`). `userDeleted` is a history variable.

| Code | Actions |
|---|---|
| `reserve_document` | `Reserve` |
| `write_reserved_file` | `WriteTemp`, `RenameTemp` |
| `finalize_document` | `Finalize`, `FinalizeRejected`, `FinalizeAckLost` |
| endpoint `except` clauses, `cleanup_failed_reservation` | `RequestFails`, `Abandon` |
| `compensate_cancelled_document` | `Compensate` |
| `transfer_document_to_cleanup` | `Transfer`, in `FailDocument`, `DeleteDocument`, `RecoverStale` |
| `_process_upload`, `_process_audio` and the bodies under the lock | `AcquireLock`, `KeepWaiting`, `BeginWork`, `Transcribed`, `ExtractProgress`, `Extracted`, `WorkFails`, `WorkerFails`, `ReplaceOld`, `Finish` |
| `ingest` for a document | `IngestBegin`, `IngestVectors`, `IngestCommit`, `IngestAckLost`, `IngestFails` |
| DELETE of a document | `UserDelete` |
| `recover_quota_state`, `recover_stale_tasks`, `cleanup_pending` | `RecoverReservation`, `RecoverStale`, `ReleaseReservationRow`, `ReleaseDocumentRow`, `CleanupDeferred` |
| time, process death, an exception in a compensation | `ReservationExpires`, `LeaseExpires`, `Crash`, `StepRaises` |

Abstractions. The processing token is "the row is still processing", because a
document gets one token for life and loses it when it leaves `processing`. The
cleanup pass, a separate best-effort transaction of every caller and of the
watchdog, is split into one action per row; each row is independent in the code
too (its own try block). Row locks that a transaction holds over an external
call appear as guards (`RowLocked`); InnoDB aborting one of two deadlocked
transactions is one of the failures every step already may have (`IngestFails`,
`StepRaises`). The order in which `finalize_document` locks rows is not visible
because it is one step. A connection loss while `ingest` holds its transaction
open, which would release its locks before its exception is handled, is not
modelled. `BACKGROUND_TASK_STALE_MINUTES` is positive (its default is 30), so
stale documents are recovered. Extraction, transcription and the summary have no
state here: they return or raise. Legacy documents without a token and
migrations are left out.

Time. `SlowRequests = FALSE` says that a reservation does not expire while the
request that made it is still running: `RESERVATION_MINUTES` is 15 and a request
writes at most a bounded file between `reserve_document` and `finalize_document`.
The code enforces no such bound, so the constant is explicit: the theorems that
need it assume `~SlowRequests`, and the run `upload_slow_request` shows what
happens without it. Leases may expire under a running worker at any time.

### Properties

`EveryFileOwned` and `IndexedIsComplete` relate the disk and Chroma with the tables;
`QuotaRespected` is the limits; `NoVersionLost` and `VersionsConverge` speak of uploads
of the same file; `TerminalStaysTerminal` and `ReleasedMeansGone` are action
properties; `EventuallySettled` is the liveness property; `ImplementsLedger` says that
the whole implements `QuotaLedger`. `RowsAgree` and `ContentAgrees` are the inductive
strengthening, checked by TLC before they were proved; `NoOrphanIndexData` (vectors and
memory rows of failed or deleted documents are gone or owed) and `DiskWithinQuota`
follow from it as theorems and have no run.

### Runs

| Run | Instance | Why these bounds |
|---|---|---|
| `upload_pair` | two documents with the same name, sizes 1 and 2, `MaxFaults = 2`, under `FairSpec` | two uploads are enough for one to be replaced, overtaken or deleted by the other, two faults for a fault during the recovery of a fault |
| `upload_three` | a document, a git log and a recording in two projects of one user; sizes 1, 2 and 2; project limit 2, user limit 3, count limit 1; `MaxFaults = 1`, `SlowRequests = TRUE` | each of the three limits refuses a request in some order: the project limit the recording beside the document, the user limit the recording beside the git log, and the count limit a request beside the cleanup row of a deleted failed document, which weighs no bytes |
| `pipelines`, turn `versions` | three git uploads of one file, slow requests allowed, no faults | `VersionsConverge` when nothing orders the workers; three are needed for a middle version. The three are interchangeable but for their order, so requests start in the order of their numbers |
| `upload_slow_request` | the pair, `SlowRequests = TRUE`, no faults | violated, see below |

`MaxFaults` bounds crashes, lost acknowledgements, steps that raise and failed
cleanups together; expiry of leases, failures of extraction and ingest, and user
deletions are not bounded.

Fairness is weak fairness of each step of a running request or worker (threads
are scheduled), of time, and of the recovery and cleanup actions (`stale_watchdog`
runs them every 60 seconds while the process is up, startup runs them after a
crash). There is none for `Reserve`, user deletions or faults, and none for the
choice between success and failure of a step.

### Finding

`upload_slow_request`: a request whose reservation expires while it is writing is
abandoned by the watchdog (`quota.py:266`), its cleanup row, which names a file
that does not exist yet, is released, and the request then writes its file. Its
`finalize_document` fails, `abandon_reservation` finds no reservation, and the
file stays on disk with no row naming it, uncharged. The docstring of
`quota.py` promises durable cleanup ownership.

### Proofs

`DocumentUploadProofs` proves for every finite set of uploads, every assignment
of projects, users, names, kinds and sizes, and all limits: `TypeCorrect`;
`RowsAgreeAlways` (an upload is in at most one table); `ContentAgreesAlways`,
whose invariant is inductive together with the two before it, and from it
`FilesAreOwned`, `IndexDataIsOwned`, `IndexedDocumentsAreComplete`;
`QuotaAlwaysRespected` and `DiskAlwaysWithinQuota`; `TerminalAlwaysTerminal`; and
`UploadImplementsLedger`. The quota is not inductive as a sum of four sums over
tables: `ChargedSets` and `ChargedBytesIsOneSum` show that the tables are disjoint
subsets of one set of charged uploads, every action but `Reserve` shrinks that set
(`RequestCharges`, `WorkerCharges`, `HousekeepingCharges`), and `AdmissionFits`
shows that `Reserve` adds what it checked. `Bytes` is an operator constant
assumed to be an additive measure (`BytesAssumption`): a recursive sum is outside
what the provers can do, and TLC checks the assumption for the real sum in every
run. `LedgerStoresOnlyCharged` says of the abstract ledger that it stores only what is
charged. `ReleasedIsAlwaysGone`, like everything that rests on `ContentAgreesAlways`,
needs `~SlowRequests`: a request that outlives its reservation may write a file whose
row is released already, which run `upload_slow_request` shows.

`DocumentVersionProofs` proves `NoVersionIsLost` and `VersionsAlwaysConverge`, slow
requests and every fault included. `NoVersionLost` is not inductive: the version that
replaced one may be replaced itself. `VersionsOrdered` says that there is an order, the
one of the finalizations, in which each worker replaces only versions below its own and
of each replaced version one above it survives; each finalization gives its version a
rank above all others (`FinalizedVersion`), so no chain of replacements closes. `VersionsAgree` says that of two live versions one
is about to be replaced by the other, which leaves one when every worker is done.
Only the liveness property is left to TLC.

## RepositorySync

One connected repository. A sync run is a generation of its index: every memory
row and Chroma entry carries the run's id, `active` points at the generation
readers are shown and `current` is the fence. Runs are numbered in the order they
are claimed, where the code draws a UUID; 0 is NULL and, as a generation, what was
indexed before generations existed. `pc`, `prepared`, `left` and `broken` are the
locals of each `_sync_bg`; `rows` and `chunks` are the two stores by generation;
`watch` is the watchdog, `deleting` a DELETE request between its two halves,
`server` the cleanup that runs before requests are accepted, `snap` the scope of
one running query. The initial states are a repository just connected, one indexed
before generations existed, and one left `syncing` without a run by that version.

| Code | Actions |
|---|---|
| `sync_repository`, `_claim_sync_run` | `Claim`, `ClaimAckLost` |
| `_require_sync_ownership` between the parts of `_sync_bg` | `CheckFence` |
| `_collect_repo_sources`, extraction | `Collect` |
| `ingest` for a repository: COMMIT, then Chroma | `StageRows`, `StageRowsFails`, `StageChunks`, `StageChunksFails` |
| `_set_repo_status` | `Publish`, `PublishAckLost`, `PublishFenced`, `PublishError`, `Fail`, `FailUnrecorded` |
| `_cleanup_repo_generation` | `SweepRows`, `SweepChunks`, `SweepFails` for the worker, `WatchSweep...` for the watchdog |
| `recover_stale_tasks` | `WatchFail`; `Age` is the cutoff passing |
| `_delete_repo_data` | `DeleteRows`, `DeleteRowsFails`, `DeleteChunks`, `DeleteChunksFails` |
| process death, `cleanup_stale_repository_generations` | `Crash`, `StartRows`, `StartChunks`, `StartFails` |
| `load_project_index_scope` and the reads that follow | `ReaderStarts`, `ReaderEnds` |

Abstractions. GitHub answers with any set of sources. Consecutive ownership checks
with nothing but reads between them are one. A source is in `rows` when its COMMIT
happened and in `chunks` when its raw chunks, the last thing `ingest` writes, are
in Chroma; the memory vectors of the same source are written just before and
removed by the same calls, and their backfill at start-up is in `MemoryVectors`. A Chroma
cleanup lists ids and then deletes them: it is one step, because only a run that
lost its fence is cleaned up by another thread. Memory rows that users edit or
delete and the supersede edges and suggestions that a publication resolves are in
`Suggestions`, the summary it drops is in `SummaryCache`, the pull requests it
reconciles in `PrReconciler`. An ingest that runs into a deleted
repository fails on the foreign key. A worker or request that stops, also without
the process dying, is one that takes no step.

The constant `Faults` says which failures may happen beside failing syncs, ingests
and updates, which always may: `lost_ack` (a COMMIT takes effect and its reply is
lost), `sweep` (an error during a cleanup) and `delete` (an error in the MySQL half
of a DELETE). `MaxRuns` and `MaxCrashes` bound claims and crashes.

### Properties and runs

| Run | Instance | Shows |
|---|---|---|
| `sync_clean` | two sources, two syncs, one crash, no faults | `PublishedIsComplete`, `SnapshotStaysReadable`, `NothingLeftBehind` (unpublished runs and deleted repositories leave no row and no vector) and `ImplementsIndex`: each step is one of `PublishedIndex`. Two sources so that one can fail and the next go on; two syncs so that one is overtaken |
| `sync_restarts` | one source, two syncs, two crashes, `lost_ack`, `sweep` and `delete`, under `FairSpec` | `SyncResolved`: whatever fails, the watchdog alone gets every row out of `syncing` |
| `sync_lost_publish` | `lost_ack` | `SnapshotStaysReadable` violated, see below |
| `sync_delete_error` | `delete` | `PublishedIsComplete` violated, see below |

`sync_clean` has no faults because three of its properties are false with some of them
(the findings, and a failing cleanup that leaves rows until the next start).
`PublishedIsComplete` and `ImplementsIndex` also hold when replies are lost and cleanups
fail: that is proved. `OnlyNewerPublished`, which needs three syncs to fail, is proved
for any number and has no run.

Fairness is weak fairness of the watchdog (it runs every 60 seconds), of time and
of the start-up (a process that died is restarted); workers and requests have none,
so `SyncResolved` is what the watchdog achieves alone.

`NothingLeftBehind` is, for deleted repositories, stated for a process that lives: after a crash
between the two halves of a DELETE no cleanup visits a repository without a row,
and its chunks stay. No reader can see them.

### Findings

`sync_lost_publish`: the COMMIT of a publication takes effect but raises. `_sync_bg`
tries to record a failure (the fence refuses) and cleans up its generation, which
`_cleanup_repo_generation` spares only while it is the active one. When the next
sync publishes first, the generation goes while a query that was given it is
running. `docs/policies/REPOSITORY_SYNC_GENERATION_CONTRACT.md:32` and the docstring
of `cleanup_stale_repository_generations` keep previous generations until the next
start.

`sync_delete_error`: `_delete_repo_data` swallows an error of its MySQL transaction
and deletes the vectors all the same. The repository stays connected and published
with rows and without vectors, the split that `startup.py:381` and
`_cleanup_repo_generation` take care to avoid, and the client is answered 204.

### Proofs

`RepositorySyncProofs` proves for every set of sources, any number of runs and
crashes:

- without any assumption on the faults: `SyncTypeCorrect`, `FenceAlwaysAgrees` and
  from it `PublishesForwardOnly` (the owner of the fence is the last run claimed,
  newer than the published one, and whoever else was active is not touched by the
  watchdog);
- without `delete`: `ContentAlwaysWhole`, `PublishedAlwaysComplete` and
  `SyncImplementsIndex`. `PublishedIsComplete` is not inductive, because nothing in
  it says that the run about to publish staged everything: `ContentWhole` adds that
  the owner of the fence, unless it knows of an error, has in both stores exactly
  what it no longer has to stage;
- without `delete` and `lost_ack`: `SnapshotAlwaysReadable`, by `SnapshotKept`: a
  generation a query holds was published by a worker that went home;
- without any of the three: `FailedRunsLeaveNothing` and `DeletedReposLeaveNothing`,
  together `NothingStaysBehind`, by `LeftoversOwed`: what is left over has somebody
  who will still remove it.

Each assumption is needed: the two findings violate the theorems without it, and a
failing cleanup leaves rows until the next start. `SyncResolved` is model-checked
only.

## SummaryCache, PrReconciler, SchemaUpgrade (run `upkeep`)

`SummaryCache`. The summary of a project is one text: here the set of uploads and
repository generations it mentions. `BeginMerge`/`EndMerge` are
`update_project_memory` around its model call, `BeginRefresh`/`EndRefresh`
`regenerate_project_memory`, `Publish` the DELETE in the publishing transaction,
`Delete` a document's deletion, `Supersede` an accepted suggestion, `DeleteRepo`
`_delete_repo_data`; a row whose successor goes is live again (`DeleteRows`, the ON
DELETE SET NULL of `superseded_by`). `lock` is `project_memory_write_lock`, held across
the model call, and taken by a publication but not by the deletion of a repository.
`MergeFails`, `RefreshFails`, `DeleteRepoFails` and `Restart` are faults. Instance: three
uploads, the second replacing the first and the third a git log that replaces the
second, two rebuilds, two generations, one fault. `SummaryIsCurrent`: what was merged
since the text was last dropped or rebuilt, and is live, is mentioned, and no generation
but the published one is. Excepted is a generation whose repository was deleted
(`removed`): nothing keeps a model call that read its text from writing it back, and it
stays until the next rebuild or publication. `StaleRepaired`: where the text and the
live rows, or the published generation, come apart, they come together again, under
weak fairness of workers and rebuilds (threads run and model calls return or fail). It
excepts a run with a fault (a rebuild that fails is only logged) and, by the history
variable `quiet`, uploads for which no rebuild was started: not merged yet, merged after
their own deletion, or replaced, or freed, by a git log (`documents.py:442-449`).

`PrReconciler`. The list of all closed pull requests is read page by page, the one
touched last first; the merged ones are kept, long before they are compared and the
watermark moves. Between two pages one may be merged, closed without being merged,
touched, or, if it was not merged, reopened, which moves what follows it to the page
before. Instance: three pull requests, of which the second alone may be closed without
being merged, on pages of two, two overlapping syncs, and one touch, reopening or fault
(`Bounded`). `MarkIsHonest`: the watermark passes nothing uncompared, with two named
exceptions that the code is exposed to: what was merged after a sync had listed a
greater number (`overtaken`), and what moved between two pages of a list (`slipped`).
`OrderedPrJudged`: if syncs keep being started, the others are compared in the end. A
sync is started by a person, so that is the hypothesis of the property and no fairness;
fair are only the steps of a sync that was started.

`SchemaUpgrade`. `ensure_runtime_schema`, `ensure_schema_v8` and `ensure_schema_v9` as
lists of statements with what each needs (`Runnable`), MySQL's implicit commit at each
schema change (`work` is what the open transaction alone sees), and the three ways
`lifespan` treats a failure. The initial states are every older database with two
documents of any status, with and without their file. `ServedWhole`: requests are
served only with every object of v9, the published view and right sizes, whatever
prefix earlier starts left; `UpgradeConverges`: with two failing statements or deaths,
and the process started again (fairness of `Run`), the server comes to serve.

## ProjectLifecycle, Suggestions (run `requests`)

`ProjectLifecycle` models each transaction by the rows it locks in the order of the
code: `Acquire` takes the next lock, a thread that would wait in a cycle is InnoDB's
`Victim`. The deletion (`StartDelete`, `Probe`, `LockDocuments`, `RefuseBusy`, `Retry`,
`DeleteChroma`, `DeleteRows`) runs against uploads, ingests, removals and a sync.
Instance: two uploads of two users, two tries, one failing file call. `ProjectWhole`:
gone means nothing is left, there means indexed documents are whole.
`DeletionNeverDeadlocks`: the waits-for graph of uploads, ingests and removals
never has the deletion in a cycle, though ingests and removals do
deadlock with each other. Other requests that lock rows of the project (suggestions,
publications, chat) are not in that graph.

Finding `project_vectors`: `_delete_project_chroma` empties the vector store before the
commit and nothing stops a sync whose rows are committed: its last chunks may arrive in
between and stay, with no row a later cleanup could find them by
(`docs/API_명세서.md:322` says everything goes together).

`Suggestions` has the rows with generation, successor, due date and completion, the
suggestions, the detector's runs (`job`; an answer may hold any number of matches, which
are stored in one transaction) and the accept/reject requests with their row locks (`tx`). It is checked as two instances, because suggestions on decisions relate
two rows and those on actions change one: three decisions, two generations, three
suggestions and two requests; two rows of actions with two
due-date or completion suggestions. `HiddenHasVisibleSuccessor` (no cycle and no topic wiped out),
`AcceptedStands` (edges lead to published rows, an accepted suggestion took effect, only
actions are complete), `PendingSupersedeActionable` (what is shown as pending can be
accepted).

Finding `supersede_category`: `update_memory` refuses to change the category of a
decision that supersedes another by asking `active_memory`, which hides exactly the
rows it looks for (`memory.py:187`); the change is made, and a decision stays hidden
behind an action (`docs/handovers/frontend/HANDOVER_SUPERSEDE_FRONTEND.md:82` promises
the refusal).

## Questions, chat, sessions, readiness (run `requests`)

| Module | Instance | Property |
|---|---|---|
| `AgenticLoop`: the graph of `agentic_graph.py` node by node; a call is its canonical form | a search, a state query and an unknown tool, two rounds, batches of up to two | `CallsResolvedOnce`, `AnswerIsGrounded` |
| `Evidence`: one question's reads, in the order of `_build_context`, among deletions, acceptances and publications | a document, a row from before generations, two generations; two rows and one chunk | `EvidenceFromOneGeneration`, except where a publication has undone an edge since |
| `HistoryChains`: components of the supersede graph, ranked and cut to the budgets; a pure algorithm, one step per input | every graph of four decisions, equal and alternating dates, soft limit 1, hard limit 2 | `ChainsTellTheStory` |
| `ChatSession`: read, insert, answer, commit with the summary | three queries, two messages always kept | `SessionRemembers`, except messages of queries that overlapped (`blind`): the later commit overwrites the summary of the earlier |
| `GithubSessions`: each dictionary operation of a thread is a step | two sessions, two threads, time to live and grace 1, clock to 4 | `GoneStaysGone` |
| `Readiness`: shared probes, the pool, both timeouts | two probes, one worker, two requests | `ReadyIsEarned` |

## Extraction, collection, vectors, client, evaluation (run `pipelines`)

| Module | Instance | Property |
|---|---|---|
| `Extraction`: cutting, asking and joining; a statement is the interval of its characters, an item has the date and the source the model told | texts of up to three paragraphs, the last of them empty in some (chunk 5, overlap 2), as document, README or commits; recordings of up to two segments; any chunk may fail; a date as normalised, in a spelling the normaliser knows, or in one it does not together with another source | `StoredIsWhole`: every statement is there, and twice only with another source or an unknown spelling of the date |
| `RepositoryCollection`: each request to GitHub a step | two syncs, one push or change, one failing request; issues may be behind a page of newer pull requests | `RowTellsTheTruth`, except such issues (`crowded`) |
| `EvaluationPipeline` with the contract of `AnswerContract`: run, score, compare; a hash is what it was computed from | two questions in two versions, two golden files, one replacement, of a file, a setting or the prepared state, between commands or under a run; one attempt unless the settings change; the baseline is run first | `ReportsPair`, except a state replaced under a run (`moved`); `PassIsDeserved` |
| `ResumableRun`: the scripts that ask and judge, with `.partial` and `--resume` | two questions, two attempts, four asks, two failures or deaths; a death may leave the last line cut, or whole without its newline, to which the next record is joined | `RecordsSurvive`, except records that a start without `--resume` sets aside or a killed copy did not come to, which the output keeps (`leftOut`) |
| `MemoryVectors`: commit, read again, best-effort call, backfill, and a publication that retires successors | two rows, one decision of the repository, two requests at a time, two texts, two faults | `VectorsFollowRows`, except where a call or the read before it failed, two requests overlapped, or the successor was deleted or retired (`wrong`, `old`) |
| `PendingDeletes`: cancelled uploads, the saved queue, the merge of the listed files | two uploads, two lost calls, refusals, failed saves or restarts | `CancelRemembered`, except entries that could not be saved |
| `DocumentUpload`, three versions of a git log | above | `VersionsConverge` |

The bounds are those at which every branch of the algorithm is taken: a paragraph
longer than a chunk and one that is not, a budget that cuts a chain and one that does
not, an overlap of requests on one row together with another row, and every action of
every instance fires. One thing is assumed of the language model in
`Extraction`: that two chunks which share a statement tell it in the same words. `_dedup`
compares words, so that a paraphrase is stored twice.

## What is proved about the smaller modules

Every safety invariant the passing runs check has a theorem, for every value of the
constants. The proofs need what follows beyond the properties themselves.

| Theorems | Inductive invariant | What it adds, and why it is needed |
|---|---|---|
| `SummaryAlwaysCurrent` (`UpkeepProofs`) | `CurrentInv` | the property does not speak of the text a model is working on: who is between reading and writing holds the lock, a merge works on the stored text, and a rebuild on one with everything that was merged and is live, and with no generation but the published one and those deleted with their repository |
| `MarkAlwaysHonest` (`UpkeepProofs`) | `PrInv` | what is merged and was not listed on the pages a sync read is greater than everything it listed and everything merged still to come (`PagesRead`), so that at the end of the list the watermark stays below it (`ListsRead`); unmerged pull requests only shift the places |
| `AlwaysServedWhole` (`UpkeepProofs`) | `SchemaInv` | the statements before the present one have had their effect, in this start or an earlier one (`V9Progress`), and rows fit their files in the committed data as in the open transaction (`RowsFit`) |
| `ProjectAlwaysWhole` (`RequestsProofs`) | `ProjectInv` | once the deletion has the project lock every other transaction is still at its first lock, and under the locks of the documents none ingests (`LocksExclude`); what each row promises about files, ledger and the transactions that read it before their locks (`RowsAgree`) |
| `DeletionNeverInDeadlock` (`RequestsProofs`) | `LocksBounded` beside `ProjectInv` | how many locks each transaction can hold: while the deletion waits, it holds rows of users only, and every other transaction that waits does so for the project or a document, so nobody waits for it; `WaitsFor` is the least set closed under waiting, and the other transactions are such a set |
| `CallsAlwaysResolvedOnce`, `AnswerAlwaysGrounded` (`RequestsProofs`) | `LoopInv` | at any node, not only where the model speaks: each reply but an open one has its results behind it (`CallsAnswered`), each result answers an earlier reply, and rounds and replies none of whose calls ran pay for the calls of the model (`CallsCounted`) |
| `EvidenceAlwaysFromOneGeneration` (`RequestsProofs`) | `EvidenceInv` | a published generation is complete until its items are removed, and an edge is undone only with one of its ends or by a publication |
| `SessionAlwaysRemembers` (`RequestsProofs`) | `ChatInv` | what an open query has read is still there, and what it has not read was written by a query it overlapped (`ContextStands`) |
| `GoneAlwaysStaysGone` (`RequestsProofs`) | `GithubInv` | a thread carries a session to the next dictionary only when it is old enough for that step (`ThreadsKnow`), and a session in neither dictionary has outlived its grace (`SessionsEnd`) |
| `ReadyAlwaysEarned` (`RequestsProofs`) | `ReadinessInv` | a run that sampled its dependency is in the pool, once, and its sample earns the answer of each request that waits (`RunsEarn`, `PoolOnce`) |
| `HiddenAlwaysHasVisibleSuccessor`, `PendingAlwaysActionable`, `AcceptedAlwaysStands` (`RequestsProofs`, from `SuggestionsProofs`) | `SugInv` and an order | row locks exclude two requests on one suggestion (`LocksHeld`); a successor is published as long as its edge is shown (`EdgesStand`). That edges close no cycle is a ranking they climb (`Acyclic`): an accepted suggestion points at a decision that points nowhere, which can move to the top |
| `RowAlwaysTellsTheTruth` (`PipelinesProofs`) | `Truthful`, `OneCommit` | what was collected so far is of the commit read first, and nothing is missing without a warning, but the README of a repository that disappeared: there the next request warns; what the pages did not show is `crowded` |
| `RecordsAlwaysSurvive` (`PipelinesProofs`) | `RunInv` | a log without its records is only begun for a start without `--resume` or by a killed copy, which the output survives; a log goes only when the output says the same (`Fit`, for each script) |
| `VectorsAlwaysFollow` (`PipelinesProofs`) | `VectorInv` | the property is about rows without a request: the vector call of a request is still right when it is made (`CallsAgree`), requests that overlap are accounted for (`OneEach`), a successor that is a row exists (`ItemsAgree`), none survives a restart |
| `CancelAlwaysRemembered` (`PipelinesProofs`) | `CancelInv` | a restart makes the saved queue the queue, so `SavedToo` says of the copy what the property says of the queue; `OnlyAnswered` and `GoneIsGone` say why an entry may be dropped |
| `ReportsAlwaysPair`, `PassAlwaysDeserved` (`PipelinesProofs`) | `EvalInv` | a seal is that of a run the service answered (`SealsHold`), whatever was edited; a run under way has one model, and the state of its manifest unless that was replaced (`RunSound`), a command that judges or grades holds a run as answered (`JobSound`), and what grading adds changes no contract; `ContractEvidence` is what a passed contract says of the sources |
| `StoredAlwaysWhole` (`PipelinesProofs`) | `ExtractInv` | until a chunk fails, every statement that lies in a chunk asked about has been found (`FoundSoFar`). That each statement lies in one is `SplitCovers`: the chunks follow each other without a gap, and two slices of a paragraph share the overlap; dropping items of one key keeps one of each (`DedupTells`), and items alike in known spellings have one key (`AlikeHaveOneKey`) |
| `ChainsAlwaysTellTheStory` (`RequestsProofs`) | `StoryInv` | the algorithm is one step, so the invariant is its input and the property; the work is in what it computes. A component is a fixed point, reached in as many steps as there are decisions, hence two of them are equal or apart; a successor is one level nearer the end, so the rows taken are closed under successors wherever the budget cuts; after each component, what was added and what was left out add up (`Account`) |
| `OneVersionIsLeft` (`PipelinesProofs`) | that of `DocumentVersionProofs` | the instance of the run takes the steps of the instance that is proved, definition by definition |

Assumptions on constants are ASSUMEs that TLC evaluates in every run of the module: bounds
are numbers and sets that are counted are finite (`LoopAssumption`, `ClockAssumption`,
`ReadinessAssumption`, `ChatAssumption`, `SuggestionsAssumption`, `CollectionAssumption`,
`QuestionAssumption`, `DocAssumption`); a page has room for one pull request
(`PageAssumption`); owners of uploads are among the users (`LifecycleAssumption`); a merge is
not a rebuild, and neither is "free" (`SummaryAssumption`); "no item" and "no row" are
neither items nor rows, the documents are no generation, and a decision of the repository
is not one of the rows (`EvidenceAssumption`, `VectorsAssumption`); the evaluated files are
lists of questions that the service can be asked, with a first version of each
(`EvaluationAssumption`); and those of
`DocumentUpload` (`VersionsAssumption`).

A source of the extraction is its paragraphs or its segments, with lengths that are numbers,
and chunks are not empty (`ExtractionAssumption`; `_split_chunks` refuses other sizes); the
limits of a history are numbers, the hard one not below the soft one, as `_history_limits`
sees to (`HistoryAssumption`).

`Numbers` holds what several of the proofs need and the library does not offer in a form
the provers can apply: a set of numbers has a least element, a bounded one a greatest, and
a set that contains 0 and every successor of its elements contains all. They come from the
well-foundedness of finite sets, and replace induction wherever a chain of successors or a
recursive function over numbers is followed. Two more rest on them: a recursive function
over `0..n` with values in a set exists and is what its equation says (`Recursion`), so
that sums, filters, folds and orderings of a model can be reasoned about one place after
the next; and a growing part of a finite set is at rest after as many steps as the set has
elements (`Saturates`), which is what a search over a graph needs. `Extraction` and
`HistoryChains` are written with such functions for that reason, where a fold of the
community modules would do for TLC alone.

Model-checked only, because liveness under fairness is beyond the prover:
`EventuallySettled`, `SyncResolved`, `StaleRepaired`, `OrderedPrJudged` and
`UpgradeConverges`.

## What the code leaves, without being a finding

Behaviour met while modelling that no document contradicts, or that the properties
except by name:

- Suggestions: changing the category of an action leaves its due-date suggestion
  pending (`suggestion.py:257-259` closes supersede suggestions). Editing a superseded
  row, or one deleted meanwhile, commits and then answers 500: the handler of
  `_upsert_memory_vector_best_effort` reads a row that is None (`memory.py:18-24,240-243`).
- Summary: `_delete_repo_data` takes no summary lock (`repository.py:371-399`), so a merge
  or rebuild under way may write the deleted generation back; the rebuild that follows the
  deletion repairs it unless it fails.
- Pull requests: one merged after a sync listed a greater number, or moved between two
  pages by a comment or a reopening, may end up behind the watermark and is then never
  compared (`repository.py:321-341`, `pr_actions.py:177`).
- Collection: one page of twenty issues is read, pull requests included, which are then
  dropped (`repository.py:234-251`): newer pull requests hide every issue, without a
  warning.
- Memory vectors: the backfill compares ids, so an old text stays; a decision that
  becomes active again, because its successor is deleted or retired by a publication
  (`repository.py:590-597`), has no vector until the next start.
- Uploads: replacing a git log does not rebuild the summary (`documents.py:442-449`).
- Repositories: a failed sync clears the warning of the published generation
  (documented, `docs/API_명세서.md:1620`); a README over 1 MB is skipped silently; rows of
  a DELETE whose process dies before the vectors go leave chunks nobody reads
  (`repository.py:391`).
- Time: `sync_started_at` is written with `UTC_TIMESTAMP` and compared with `NOW()`
  (`startup.py:449`), which agree only in a UTC session; on old databases the column is
  a DATETIME, and v9 never widens it.
- Schema: a legacy document that has not failed and whose file is missing stops the
  start.
- Extraction: of equal items of two chunks the owner, date and completion of one are
  dropped; items that differ in the source, or in a date that `_norm_date_key` does not
  know (`2026-6-2`, or none), are both kept.
- Evaluation: the manifest is read once, so a state prepared anew under a run is not
  noticed (`pipeline.py:836,909`); a baseline question whose metrics need no context may
  have stayed unanswered in a report that passes; `--resume` keeps verdicts of answers that
  were replaced, and never asks failed questions again; it reads the log alone, so after a
  copy cut short it asks again what the output has (`run_user_realistic_160_qa.py:106-107`);
  a log killed before the newline of its last record is accepted, the next record is joined
  to that line, and the log is then refused until somebody splits it.
- Client: a stale list merged after a confirmed deletion shows a ghost until the next
  sync; the entry of a person and the listed one of the same upload may both show; a
  lost upload answer leaves a document without a handle for its deletion.

## Not modelled

- Membership, authentication, rate limiting, request plumbing: each operation checks
  the caller and issues one statement; nothing spans two steps.
- Document converters, prompts, scoring of search results, labels: pure functions whose
  detail no property depends on. Model and speech providers are steps that answer or fail.
- The locked-split rule about where files of an evaluation may lie, report and
  preparation scripts, the contents of reports.
- The desktop client beyond the pending deletions and the merge of the file list.
- A restart that forgets the sessions of the GitHub App; the best-effort membership of
  the development user; a connection lost while a transaction is open.
- Deployment, archive: no state of their own.
