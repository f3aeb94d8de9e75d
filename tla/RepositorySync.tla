--------------------------- MODULE RepositorySync ---------------------------
(***************************************************************************)
(* Synchronisation of one connected repository: backend/api/repository.py, *)
(* the repository path of pipeline/ingestor.ingest, and the two recovery   *)
(* functions of backend/startup.py that touch repositories.                *)
(*                                                                         *)
(* A sync run is a generation. Runs are numbered in the order they are     *)
(* claimed (the code draws a fresh UUID); generation 0 is the content      *)
(* indexed before generations existed (both run columns NULL), so 0 also   *)
(* stands for NULL in current and active. A run stages its sources in      *)
(* MySQL and Chroma under its own id, then moves the pointer active to     *)
(* itself, all under the fence: the row still says syncing by this run.    *)
(* Each action is one transaction, one Chroma call or one failure.         *)
(***************************************************************************)
EXTENDS Integers, FiniteSets

CONSTANTS
    Source,     \* what a run may collect: README, commits, issues, ...
    MaxRuns,    \* bound on the runs claimed
    MaxCrashes, \* bound on the deaths of the process
    Faults      \* the failures the environment may produce

\* lost_ack: a COMMIT takes effect and its reply is lost.
\* sweep: an error while the rows or vectors of a generation are deleted.
\* delete: an error in the MySQL transaction of _delete_repo_data.
FaultKind == {"lost_ack", "sweep", "delete"}

ASSUME SyncAssumption ==
    /\ IsFiniteSet(Source)
    /\ MaxRuns \in Nat /\ MaxCrashes \in Nat
    /\ Faults \subseteq FaultKind

VARIABLES
    status,   \* repositories.status; "deleted" once the row is gone
    current,  \* current_sync_run_id: the fence
    active,   \* active_sync_run_id: the published generation
    stale,    \* syncing, and sync_started_at is NULL or older than the cutoff
    issued,   \* runs claimed so far
    pc,       \* where the worker of each run is
    prepared, \* the sources with content each run collected
    left,     \* those it has still to stage, while it stages
    broken,   \* runs with ingest_failed, while they stage
    rows,     \* committed memory rows by repo_sync_run_id
    chunks,   \* Chroma entries by repo_sync_run_id
    watch,    \* the watchdog: the run it cleans up and where it is
    deleting, \* a DELETE request between its MySQL and its Chroma part
    server,   \* "up", or which cleanup of the start-up comes next
    snap,     \* the generation a running query was given, or NoReader
    crashes

rowVars    == <<status, current, active, stale, issued>>
workerVars == <<pc, prepared, left, broken>>
indexVars  == <<rows, chunks>>
otherVars  == <<watch, deleting, server, snap, crashes>>
vars == <<rowVars, workerVars, indexVars, otherVars>>

Runs == 1..MaxRuns
Null == 0
Gens == {Null} \cup Runs
NoReader == -1

NoWatch == [at |-> "idle", run |-> Null]

PC == {"idle", "start", "collect", "check", "stage", "embed", "publish", "fail",
       "sweep_rows", "sweep_chunks", "published", "done", "lost"}

TypeOK ==
    /\ status \in {"connected", "syncing", "indexed", "failed", "deleted"}
    /\ current \in Gens /\ active \in Gens
    /\ stale \in BOOLEAN
    /\ issued \in 0..MaxRuns
    /\ pc \in [Runs -> PC]
    /\ prepared \in [Gens -> SUBSET Source]
    /\ left \in [Runs -> SUBSET Source]
    /\ \A r \in Runs : pc[r] \in {"stage", "embed"} => left[r] # {}
    /\ broken \subseteq Runs
    /\ rows \in [Gens -> SUBSET Source]
    /\ chunks \in [Gens -> SUBSET Source]
    /\ watch \in {NoWatch} \cup [at : {"rows", "chunks"}, run : Runs]
    /\ deleting \in BOOLEAN
    /\ server \in {"up", "rows", "chunks"}
    /\ snap \in Gens \cup {NoReader}
    /\ crashes \in 0..MaxCrashes

\* A repository just connected, one indexed before generations existed, or
\* one left syncing with no run by that older version.
Init ==
    /\ \E S \in SUBSET Source :
          /\ prepared = [g \in Gens |-> IF g = Null THEN S ELSE {}]
          /\ status \in {"syncing", IF S = {} THEN "connected" ELSE "indexed"}
    /\ rows = prepared /\ chunks = prepared
    /\ stale = (status = "syncing")
    /\ current = Null /\ active = Null /\ issued = 0
    /\ pc = [r \in Runs |-> "idle"]
    /\ left = [r \in Runs |-> {}]
    /\ broken = {}
    /\ watch = NoWatch
    /\ deleting = FALSE
    /\ server = "up"
    /\ snap = NoReader
    /\ crashes = 0

-----------------------------------------------------------------------------
(* POST /sync.                                                             *)

Claimable == status # "deleted" /\ ~(status = "syncing" /\ current # Null)

\* The row now belongs to the next run, whose worker begins at step.
ClaimAs(step) ==
    LET r == issued + 1 IN
    /\ server = "up"
    /\ issued < MaxRuns
    /\ Claimable
    /\ status' = "syncing" /\ current' = r /\ stale' = FALSE /\ issued' = r
    /\ pc' = [pc EXCEPT ![r] = step]
    /\ UNCHANGED <<active, prepared, left, broken, indexVars, otherVars>>

\* The claim commits and the worker is queued, or the stored URL does not
\* parse and the run is failed at once.
Claim == ClaimAs("start") \/ ClaimAs("fail")

\* The claim commits but the request dies with the reply: no worker.
ClaimAckLost == "lost_ack" \in Faults /\ ClaimAs("lost")

-----------------------------------------------------------------------------
(* The worker, _sync_bg.                                                   *)

Owns(r) == status = "syncing" /\ current = r

Goto(r, step) == pc' = [pc EXCEPT ![r] = step]

\* Mutant: ingest errors are forgotten.
CheckFenceIgnoresErrors(r) ==
    /\ pc[r] \in {"start", "check"}
    /\ Goto(r, CASE ~Owns(r)        -> "sweep_rows"
                 [] pc[r] = "start" -> "collect"
                 [] left[r] # {}    -> "stage"
                 [] OTHER           -> "publish")
    /\ UNCHANGED <<rowVars, prepared, left, broken, indexVars, otherVars>>

\* _require_sync_ownership, a read of its own before every part of the work.
CheckFence(r) ==
    /\ pc[r] \in {"start", "check"}
    /\ LET step == CASE ~Owns(r)        -> "sweep_rows"
                      [] pc[r] = "start" -> "collect"
                      [] left[r] # {}    -> "stage"
                      [] r \in broken    -> "fail"
                      [] OTHER           -> "publish"
       IN  /\ Goto(r, step)
           /\ IF step \in {"collect", "stage"}
              THEN UNCHANGED <<left, broken>>
              ELSE left' = [left EXCEPT ![r] = {}] /\ broken' = broken \ {r}
    /\ UNCHANGED <<rowVars, prepared, indexVars, otherVars>>

\* The sources of GitHub that have content; none, or an error, fails the run.
Collect(r) ==
    /\ pc[r] = "collect"
    /\ \E S \in SUBSET Source :
          /\ prepared' = [prepared EXCEPT ![r] = S]
          /\ left' = [left EXCEPT ![r] = S]
          /\ Goto(r, IF S = {} THEN "fail" ELSE "check")
    /\ UNCHANGED <<rowVars, broken, indexVars, otherVars>>

\* The source the loop over prepared_sources is at.
At(r) == CHOOSE s \in left[r] : TRUE

NextSource(r) == left' = [left EXCEPT ![r] = @ \ {At(r)}]

\* ingest commits the memory rows first; the foreign key needs the repository.
StageRows(r) ==
    /\ pc[r] = "stage"
    /\ status # "deleted"
    /\ rows' = [rows EXCEPT ![r] = @ \cup {At(r)}]
    /\ Goto(r, "embed")
    /\ UNCHANGED <<rowVars, prepared, left, broken, chunks, otherVars>>

StageRowsFails(r) ==
    /\ pc[r] = "stage"
    /\ broken' = broken \cup {r}
    /\ NextSource(r)
    /\ Goto(r, "check")
    /\ UNCHANGED <<rowVars, prepared, indexVars, otherVars>>

\* ... and then writes the vectors.
StageChunks(r) ==
    /\ pc[r] = "embed"
    /\ chunks' = [chunks EXCEPT ![r] = @ \cup {At(r)}]
    /\ NextSource(r)
    /\ Goto(r, "check")
    /\ UNCHANGED <<rowVars, prepared, broken, rows, otherVars>>

\* An error leaves the source in Chroma or not; the rows stay committed.
StageChunksFails(r) ==
    /\ pc[r] = "embed"
    /\ \E written \in SUBSET {At(r)} :
          chunks' = [chunks EXCEPT ![r] = @ \cup written]
    /\ broken' = broken \cup {r}
    /\ NextSource(r)
    /\ Goto(r, "check")
    /\ UNCHANGED <<rowVars, prepared, rows, otherVars>>

\* Mutant: the publication deletes the rows of the previous generation.
PublishAsReplacing(r, step) ==
    /\ pc[r] = "publish"
    /\ Owns(r)
    /\ status' = "indexed" /\ current' = Null /\ active' = r /\ stale' = FALSE
    /\ rows' = [rows EXCEPT ![active] = {}]
    /\ Goto(r, step)
    /\ UNCHANGED <<issued, prepared, left, broken, chunks, otherVars>>

\* Mutant: publication is not fenced.
PublishAsUnfenced(r, step) ==
    /\ pc[r] = "publish"
    /\ status' = "indexed" /\ current' = Null /\ active' = r /\ stale' = FALSE
    /\ Goto(r, step)
    /\ UNCHANGED <<issued, prepared, left, broken, indexVars, otherVars>>

\* _set_repo_status(..., "indexed"): one transaction, fenced.
PublishAs(r, step) ==
    /\ pc[r] = "publish"
    /\ Owns(r)
    /\ status' = "indexed" /\ current' = Null /\ active' = r /\ stale' = FALSE
    /\ Goto(r, step)
    /\ UNCHANGED <<issued, prepared, left, broken, indexVars, otherVars>>

Publish(r) == PublishAs(r, "published")

PublishAckLost(r) == "lost_ack" \in Faults /\ PublishAs(r, "fail")

PublishFenced(r) ==
    /\ pc[r] = "publish"
    /\ ~Owns(r)
    /\ Goto(r, "sweep_rows")
    /\ UNCHANGED <<rowVars, prepared, left, broken, indexVars, otherVars>>

PublishError(r) ==
    /\ pc[r] = "publish"
    /\ Goto(r, "fail")
    /\ UNCHANGED <<rowVars, prepared, left, broken, indexVars, otherVars>>

\* _set_repo_status(..., "failed"): the owner records the failure.
Fail(r) ==
    /\ pc[r] = "fail"
    /\ Owns(r)
    /\ status' = "failed" /\ current' = Null /\ stale' = FALSE
    /\ Goto(r, "sweep_rows")
    /\ UNCHANGED <<active, issued, prepared, left, broken, indexVars, otherVars>>

\* Not the owner any more, or the update raised; the cleanup runs all the same.
FailUnrecorded(r) ==
    /\ pc[r] = "fail"
    /\ Goto(r, "sweep_rows")
    /\ UNCHANGED <<rowVars, prepared, left, broken, indexVars, otherVars>>

-----------------------------------------------------------------------------
(* _cleanup_repo_generation: by the worker, or by the watchdog.            *)

Without(store, r) == [store EXCEPT ![r] = {}]

\* Mutant: a repository that is gone needs no cleanup.
SweepRowsOfExisting(r) ==
    /\ pc[r] = "sweep_rows"
    /\ IF active = r \/ status = "deleted"
       THEN Goto(r, "done") /\ rows' = rows
       ELSE Goto(r, "sweep_chunks") /\ rows' = Without(rows, r)
    /\ UNCHANGED <<rowVars, prepared, left, broken, chunks, otherVars>>

SweepRows(r) ==
    /\ pc[r] = "sweep_rows"
    /\ IF active = r
       THEN Goto(r, "done") /\ rows' = rows
       ELSE Goto(r, "sweep_chunks") /\ rows' = Without(rows, r)
    /\ UNCHANGED <<rowVars, prepared, left, broken, chunks, otherVars>>

SweepChunks(r) ==
    /\ pc[r] = "sweep_chunks"
    /\ chunks' = Without(chunks, r)
    /\ Goto(r, "done")
    /\ UNCHANGED <<rowVars, prepared, left, broken, rows, otherVars>>

SweepFails(r) ==
    /\ "sweep" \in Faults
    /\ pc[r] \in {"sweep_rows", "sweep_chunks"}
    /\ Goto(r, "done")
    /\ UNCHANGED <<rowVars, prepared, left, broken, indexVars, otherVars>>

\* Mutant: only rows with a run are failed.
WatchFailNeedsRun ==
    /\ watch.at = "idle"
    /\ server \in {"up", "rows"}
    /\ status = "syncing" /\ stale /\ current # Null
    /\ status' = "failed" /\ current' = Null /\ stale' = FALSE
    /\ watch' = [at |-> "rows", run |-> current]
    /\ UNCHANGED <<active, issued, workerVars, indexVars,
                   deleting, server, snap, crashes>>

\* recover_stale_tasks: the stale sync is failed, then its run cleaned up.
WatchFail ==
    /\ watch.at = "idle"
    /\ server \in {"up", "rows"}
    /\ status = "syncing" /\ stale
    /\ status' = "failed" /\ current' = Null /\ stale' = FALSE
    /\ watch' = IF current = Null THEN NoWatch ELSE [at |-> "rows", run |-> current]
    /\ UNCHANGED <<active, issued, workerVars, indexVars,
                   deleting, server, snap, crashes>>

WatchGoto(step) == watch' = [watch EXCEPT !.at = step]
WatchDone == watch' = NoWatch

WatchSweepRows ==
    /\ watch.at = "rows"
    /\ IF active = watch.run
       THEN WatchDone /\ rows' = rows
       ELSE WatchGoto("chunks") /\ rows' = Without(rows, watch.run)
    /\ UNCHANGED <<rowVars, workerVars, chunks, deleting, server, snap, crashes>>

WatchSweepChunks ==
    /\ watch.at = "chunks"
    /\ chunks' = Without(chunks, watch.run)
    /\ WatchDone
    /\ UNCHANGED <<rowVars, workerVars, rows, deleting, server, snap, crashes>>

\* Also an error while a stale document is failed, which comes before.
WatchSweepFails ==
    /\ "sweep" \in Faults
    /\ watch.at # "idle"
    /\ WatchDone
    /\ UNCHANGED <<rowVars, workerVars, indexVars, deleting, server, snap, crashes>>

\* Time passes: the cutoff overtakes sync_started_at.
Age ==
    /\ status = "syncing" /\ ~stale
    /\ stale' = TRUE
    /\ UNCHANGED <<status, current, active, issued, workerVars, indexVars, otherVars>>

-----------------------------------------------------------------------------
(* DELETE of the repository.                                               *)

NoContent == [g \in Gens |-> {}]

DeleteRows ==
    /\ server = "up" /\ ~deleting
    /\ status # "deleted"
    /\ status' = "deleted" /\ current' = Null /\ active' = Null /\ stale' = FALSE
    /\ rows' = NoContent
    /\ deleting' = TRUE
    /\ UNCHANGED <<issued, workerVars, chunks, watch, server, snap, crashes>>

\* The error is logged, the vectors are deleted all the same.
DeleteRowsFails ==
    /\ "delete" \in Faults
    /\ server = "up" /\ ~deleting
    /\ status # "deleted"
    /\ deleting' = TRUE
    /\ UNCHANGED <<rowVars, workerVars, indexVars, watch, server, snap, crashes>>

DeleteChunks ==
    /\ deleting
    /\ chunks' = NoContent
    /\ deleting' = FALSE
    /\ UNCHANGED <<rowVars, workerVars, rows, watch, server, snap, crashes>>

DeleteChunksFails ==
    /\ "sweep" \in Faults
    /\ deleting
    /\ deleting' = FALSE
    /\ UNCHANGED <<rowVars, workerVars, indexVars, watch, server, snap, crashes>>

-----------------------------------------------------------------------------
(* Death and start-up of the process, cleanup_stale_repository_generations. *)

Crash ==
    /\ crashes < MaxCrashes
    /\ crashes' = crashes + 1
    /\ pc' = [r \in Runs |-> IF pc[r] \in {"idle", "published", "done"}
                             THEN pc[r] ELSE "lost"]
    /\ watch' = NoWatch
    /\ deleting' = FALSE
    /\ server' = "rows"
    /\ snap' = NoReader
    /\ left' = [r \in Runs |-> {}] /\ broken' = {}
    /\ UNCHANGED <<rowVars, prepared, indexVars>>

\* Of an existing repository only the published generation is kept.
OnlyActive(store) ==
    IF status = "deleted" THEN store
    ELSE [g \in Gens |-> IF g = active THEN store[g] ELSE {}]

StartRows ==
    /\ server = "rows" /\ watch.at = "idle"
    /\ rows' = OnlyActive(rows)
    /\ server' = "chunks"
    /\ UNCHANGED <<rowVars, workerVars, chunks, watch, deleting, snap, crashes>>

StartChunks ==
    /\ server = "chunks"
    /\ chunks' = OnlyActive(chunks)
    /\ server' = "up"
    /\ UNCHANGED <<rowVars, workerVars, rows, watch, deleting, snap, crashes>>

\* The error is logged and the application starts all the same.
StartFails ==
    /\ "sweep" \in Faults
    /\ server = "chunks" \/ (server = "rows" /\ watch.at = "idle")
    /\ server' = "up"
    /\ UNCHANGED <<rowVars, workerVars, indexVars, watch, deleting, snap, crashes>>

-----------------------------------------------------------------------------
(* A query: load_project_index_scope once, then reads of both stores.      *)

ReaderStarts ==
    /\ server = "up" /\ snap = NoReader
    /\ status # "deleted"
    /\ snap' = active
    /\ UNCHANGED <<rowVars, workerVars, indexVars, watch, deleting, server, crashes>>

ReaderEnds ==
    /\ snap # NoReader
    /\ snap' = NoReader
    /\ UNCHANGED <<rowVars, workerVars, indexVars, watch, deleting, server, crashes>>

-----------------------------------------------------------------------------
Worker(r) ==
    \/ CheckFence(r) \/ Collect(r)
    \/ StageRows(r) \/ StageRowsFails(r) \/ StageChunks(r) \/ StageChunksFails(r)
    \/ Publish(r) \/ PublishAckLost(r) \/ PublishFenced(r) \/ PublishError(r)
    \/ Fail(r) \/ FailUnrecorded(r)
    \/ SweepRows(r) \/ SweepChunks(r) \/ SweepFails(r)

Watchdog == WatchFail \/ WatchSweepRows \/ WatchSweepChunks \/ WatchSweepFails
Delete   == DeleteRows \/ DeleteRowsFails \/ DeleteChunks \/ DeleteChunksFails
StartUp  == StartRows \/ StartChunks \/ StartFails

Next ==
    \/ Claim \/ ClaimAckLost
    \/ \E r \in Runs : Worker(r)
    \/ Watchdog \/ Age
    \/ Delete
    \/ Crash \/ StartUp
    \/ ReaderStarts \/ ReaderEnds

Spec == Init /\ [][Next]_vars

\* The watchdog runs every minute, a process that died is restarted, and time
\* passes. Workers and requests promise nothing.
FairSpec == Spec /\ WF_vars(Watchdog) /\ WF_vars(Age) /\ WF_vars(StartUp)

-----------------------------------------------------------------------------
(* Properties.                                                             *)

Whole(g) == rows[g] = prepared[g] /\ chunks[g] = prepared[g]

\* What readers of the repository are shown is everything one run prepared, in
\* both stores: ingest errors, lost fences, lost replies and every cleanup
\* (the worker's, the watchdog's, the start-up's) leave it alone.
PublishedIsComplete == status # "deleted" => Whole(active)

\* A query keeps finding the generation it was given at its start, even when
\* newer ones are published or cleaned up while it runs (the promise of
\* cleanup_stale_repository_generations), unless the repository is deleted.
SnapshotStaysReadable ==
    snap # NoReader /\ status # "deleted" => Whole(snap)

Quiet ==
    /\ server = "up" /\ watch.at = "idle" /\ ~deleting
    /\ \A r \in Runs : pc[r] \in {"idle", "published", "done", "lost"}

\* When nobody works on the repository any more, a run that was never
\* published has left no row and no vector, whoever failed it and whenever the
\* worker noticed.
FailedRunLeavesNothing ==
    Quiet /\ status # "deleted" =>
        \A r \in Runs : pc[r] # "published" => rows[r] = {} /\ chunks[r] = {}

\* Deleting a repository in the middle of a sync leaves nothing behind, even
\* when the worker writes vectors after the DELETE removed the others, as
\* long as the process lives.
DeletedRepoLeavesNothing ==
    Quiet /\ status = "deleted" /\ crashes = 0 =>
        \A g \in Gens : rows[g] = {} /\ chunks[g] = {}

\* Together: whatever was not published, and all of a deleted repository, is gone
\* when the work on it is over (_cleanup_repo_generation, _delete_repo_data).
NothingLeftBehind == FailedRunLeavesNothing /\ DeletedRepoLeavesNothing

\* The pointer only moves to a later run, or away with the repository: a slow
\* worker never puts an older snapshot over a newer one.
OnlyNewerPublished ==
    [][active' # active => active' > active \/ status' = "deleted"]_vars

\* A sync that is under way is resolved, with or without its worker
\* (stale_watchdog: the client must not poll forever).
SyncResolved == status = "syncing" ~> status # "syncing"

\* The detailed specification implements the index its readers rely on.
Index == INSTANCE PublishedIndex WITH
    shown  <- IF status = "deleted" THEN -1 ELSE active,
    rows   <- IF status = "deleted" THEN {} ELSE rows[active],
    chunks <- IF status = "deleted" THEN {} ELSE chunks[active]
ImplementsIndex == Index!IndexSpec

-----------------------------------------------------------------------------
(* The inductive strengthening the proofs use.                             *)

AtRest   == {"idle", "published", "done", "lost"}
Staging  == {"check", "stage", "embed", "publish"}

\* The fence: runs beyond the last claimed one have not begun; the run that
\* owns the row is the last one claimed, newer than the published one; a run
\* that was published never stages again; the watchdog cleans up neither of
\* the two; while the process starts nobody works.
FenceAgrees ==
    /\ \A r \in Runs : pc[r] = "idle" <=> r > issued
    /\ current # Null => status = "syncing" /\ current = issued /\ active < current
    /\ active <= issued
    /\ active # Null => pc[active] \in {"published", "fail", "sweep_rows", "done", "lost"}
    /\ watch # NoWatch =>
          watch.run <= issued /\ watch.run # current /\ watch.run # active
    /\ server # "up" => (\A r \in Runs : pc[r] \in AtRest) /\ snap = NoReader /\ ~deleting
    /\ status = "deleted" => current = Null /\ active = Null

\* What run r has staged, if nothing went wrong.
StagedSoFar(r) ==
    /\ left[r] \subseteq prepared[r]
    /\ rows[r] = (prepared[r] \ left[r]) \cup (IF pc[r] = "embed" THEN {At(r)} ELSE {})
    /\ chunks[r] = prepared[r] \ left[r]

\* The owner of the fence has staged what it should have, unless it knows
\* better; what readers see is whole.
ContentWhole ==
    /\ \A r \in Runs : r > issued \/ pc[r] \in {"start", "collect"} =>
          r \notin broken /\ left[r] = {} /\ (r > issued \/ r = current => rows[r] = {} /\ chunks[r] = {})
    /\ \A r \in Runs : pc[r] = "publish" => r \notin broken /\ left[r] = {}
    /\ \A r \in Runs : pc[r] \in Staging => prepared[r] # {}
    /\ \A r \in Runs :
          r = current /\ pc[r] \in Staging /\ r \notin broken => StagedSoFar(r)
    /\ deleting => status = "deleted"
    /\ status # "deleted" => Whole(active)

\* A query's generation is published, so no worker and no watchdog removes it.
SnapshotKept ==
    /\ active # Null => pc[active] = "published"
    /\ snap # NoReader => snap <= active \/ status = "deleted"
    /\ snap \in Runs => pc[snap] = "published" /\ watch.run # snap
    /\ snap # NoReader /\ status # "deleted" => Whole(snap)
Cleaning == {"fail", "sweep_rows", "sweep_chunks"}

\* What is left of an unpublished run has a worker or a start-up that will
\* remove it; what is left of a deleted repository, a worker or the DELETE.
LeftoversOwed ==
    /\ status # "deleted" =>
          \A r \in Runs : pc[r] # "published" =>
             /\ rows[r] # {} => pc[r] \in Staging \cup Cleaning \/ server = "rows"
             /\ chunks[r] # {} => pc[r] \in Staging \cup Cleaning \/ server # "up"
             /\ pc[r] = "sweep_chunks" => rows[r] = {}
    /\ status = "deleted" => \A g \in Gens : rows[g] = {}
    /\ status = "deleted" /\ crashes = 0 =>
          \A g \in Gens : chunks[g] # {} =>
             deleting \/ (g \in Runs /\ pc[g] \in Staging \cup Cleaning)
=============================================================================
