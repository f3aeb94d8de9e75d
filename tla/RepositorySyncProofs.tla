------------------------ MODULE RepositorySyncProofs ------------------------
(* Theorems about RepositorySync, for every set of sources and any number of *)
(* runs and crashes.                                                         *)
EXTENDS RepositorySync, TLAPS

-----------------------------------------------------------------------------
(* Type correctness.                                                       *)

\* The source a worker is at is one of those it has left.
LEMMA AtLeft ==
    ASSUME TypeOK, NEW r \in Runs, pc[r] \in {"stage", "embed"}
    PROVE  At(r) \in left[r] /\ At(r) \in Source
BY DEF TypeOK, At

\* Each step of a worker keeps the types.
LEMMA WorkerTypes ==
    ASSUME TypeOK, NEW r \in Runs, Worker(r)
    PROVE  TypeOK'
<1> USE SyncAssumption
<1> USE DEF TypeOK, PC, Runs, Gens, Null, NoReader, NoWatch, rowVars, workerVars, indexVars, otherVars
<1>1. CASE CheckFence(r)
  BY <1>1 DEF CheckFence, Owns, Goto
<1>2. CASE Collect(r)
  BY <1>2 DEF Collect, Goto
<1>3. CASE StageRows(r)
  BY <1>3, AtLeft DEF StageRows, Goto
<1>4. CASE StageRowsFails(r)
  BY <1>4 DEF StageRowsFails, NextSource, Goto
<1>5. CASE StageChunks(r)
  BY <1>5, AtLeft DEF StageChunks, NextSource, Goto
<1>6. CASE StageChunksFails(r)
  BY <1>6, AtLeft DEF StageChunksFails, NextSource, Goto
<1>7. CASE Publish(r)
  BY <1>7 DEF Publish, PublishAs, Owns, Goto
<1>8. CASE PublishAckLost(r)
  BY <1>8 DEF PublishAckLost, PublishAs, Owns, Goto
<1>9. CASE PublishFenced(r)
  BY <1>9 DEF PublishFenced, Goto
<1>10. CASE PublishError(r)
  BY <1>10 DEF PublishError, Goto
<1>11. CASE Fail(r)
  BY <1>11 DEF Fail, Owns, Goto
<1>12. CASE FailUnrecorded(r)
  BY <1>12 DEF FailUnrecorded, Goto
<1>13. CASE SweepRows(r)
  BY <1>13 DEF SweepRows, Without, Goto
<1>14. CASE SweepChunks(r)
  BY <1>14 DEF SweepChunks, Without, Goto
<1>15. CASE SweepFails(r)
  BY <1>15 DEF SweepFails, Goto
<1>16. QED BY <1>1, <1>2, <1>3, <1>4, <1>5, <1>6, <1>7, <1>8, <1>9, <1>10, <1>11, <1>12, <1>13, <1>14, <1>15 DEF Worker

\* A claim keeps the types.
LEMMA ClaimTypes ==
    ASSUME TypeOK, Claim \/ ClaimAckLost
    PROVE  TypeOK'
<1> USE SyncAssumption
<1>1. PICK step \in {"start", "fail", "lost"} : ClaimAs(step)
  BY DEF Claim, ClaimAckLost
<1>2. QED
  <2>1. issued + 1 \in Runs
    BY <1>1 DEF ClaimAs, TypeOK, Runs
  <2>2. pc' \in [Runs -> PC]
    BY <1>1, <2>1 DEF ClaimAs, TypeOK, PC
  <2>3. \A x \in Runs : pc'[x] \in {"stage", "embed"} => pc'[x] = pc[x]
    BY <1>1, <2>1 DEF ClaimAs, TypeOK
  <2>4. current' \in Gens /\ issued' \in 0..MaxRuns /\ status' = "syncing" /\ stale' = FALSE
    BY <1>1, <2>1 DEF ClaimAs, TypeOK, Gens, Runs
  <2>5. UNCHANGED <<active, prepared, left, broken, rows, chunks, watch, deleting, server, snap, crashes>>
    BY <1>1 DEF ClaimAs, indexVars, otherVars
  <2>6. QED
    BY <2>2, <2>3, <2>4, <2>5 DEF TypeOK

\* Each step of the watchdog, a deletion, a crash, the start-up and a query
\* keeps the types.
LEMMA SystemTypes ==
    ASSUME TypeOK, Watchdog \/ Age \/ Delete \/ Crash \/ StartUp \/ ReaderStarts \/ ReaderEnds
    PROVE  TypeOK'
<1> USE SyncAssumption
<1> USE DEF TypeOK, PC, Runs, Gens, Null, NoReader, NoWatch, rowVars, workerVars, indexVars, otherVars
<1>1. CASE WatchFail
  BY <1>1 DEF WatchFail
<1>2. CASE WatchSweepRows
  <2>1. watch \in [at : {"rows", "chunks"}, run : Runs]
    BY <1>2 DEF WatchSweepRows
  <2>2. watch' \in {NoWatch} \cup [at : {"rows", "chunks"}, run : Runs]
    BY <1>2, <2>1 DEF WatchSweepRows, WatchGoto, WatchDone
  <2>3. rows' \in [Gens -> SUBSET Source]
    BY <1>2 DEF WatchSweepRows, Without
  <2>4. UNCHANGED <<status, current, active, stale, issued, pc, prepared, left, broken,
                    chunks, deleting, server, snap, crashes>>
    BY <1>2 DEF WatchSweepRows
  <2>5. QED
    BY <2>2, <2>3, <2>4
<1>3. CASE WatchSweepChunks
  BY <1>3 DEF WatchSweepChunks, WatchDone, Without
<1>4. CASE WatchSweepFails
  BY <1>4 DEF WatchSweepFails, WatchDone
<1>5. CASE Age
  BY <1>5 DEF Age
<1>6. CASE DeleteRows
  BY <1>6 DEF DeleteRows, NoContent
<1>7. CASE DeleteRowsFails
  BY <1>7 DEF DeleteRowsFails
<1>8. CASE DeleteChunks
  BY <1>8 DEF DeleteChunks, NoContent
<1>9. CASE DeleteChunksFails
  BY <1>9 DEF DeleteChunksFails
<1>10. CASE Crash
  <2>1. pc' \in [Runs -> PC] /\ \A r \in Runs : pc'[r] \notin {"stage", "embed"}
    BY <1>10 DEF Crash
  <2>2. crashes' \in 0..MaxCrashes
    BY <1>10 DEF Crash
  <2>3. left' \in [Runs -> SUBSET Source] /\ broken' \subseteq Runs
    BY <1>10 DEF Crash
  <2>4. QED
    BY <1>10, <2>1, <2>2, <2>3 DEF Crash
<1>11. CASE StartRows
  BY <1>11 DEF StartRows, OnlyActive
<1>12. CASE StartChunks
  BY <1>12 DEF StartChunks, OnlyActive
<1>13. CASE StartFails
  BY <1>13 DEF StartFails
<1>14. CASE ReaderStarts
  BY <1>14 DEF ReaderStarts
<1>15. CASE ReaderEnds
  BY <1>15 DEF ReaderEnds
<1>16. QED BY <1>1, <1>2, <1>3, <1>4, <1>5, <1>6, <1>7, <1>8, <1>9, <1>10, <1>11, <1>12, <1>13, <1>14, <1>15 DEF Watchdog, Delete, StartUp

\* The columns and the workers' local state always hold values of their types;
\* the watchdog never cleans up for a row without a run.
THEOREM SyncTypeCorrect == Spec => []TypeOK
<1>1. ASSUME Init PROVE TypeOK
  <2>1. /\ prepared \in [Gens -> SUBSET Source]
        /\ rows \in [Gens -> SUBSET Source] /\ chunks \in [Gens -> SUBSET Source]
        /\ status \in {"connected", "syncing", "indexed"}
    BY <1>1 DEF Init
  <2>2. pc \in [Runs -> PC] /\ \A r \in Runs : pc[r] = "idle"
    BY <1>1 DEF Init, PC
  <2>3. left \in [Runs -> SUBSET Source] /\ broken \subseteq Runs /\ stale \in BOOLEAN
    BY <1>1 DEF Init
  <2>4. /\ current \in Gens /\ active \in Gens /\ snap \in Gens \cup {NoReader}
        /\ issued \in 0..MaxRuns /\ crashes \in 0..MaxCrashes
    BY <1>1, SyncAssumption DEF Init, Gens
  <2>5. QED
    BY <1>1, <2>1, <2>2, <2>3, <2>4 DEF Init, TypeOK
<1>2. TypeOK /\ [Next]_vars => TypeOK'
  <2> SUFFICES ASSUME TypeOK, [Next]_vars PROVE TypeOK'
    OBVIOUS
  <2>1. CASE UNCHANGED vars
    BY <2>1 DEF TypeOK, vars, rowVars, workerVars, indexVars, otherVars
  <2>2. QED BY <2>1, WorkerTypes, ClaimTypes, SystemTypes DEF Next
<1>3. QED BY <1>1, <1>2, PTL DEF Spec

-----------------------------------------------------------------------------
(* The fence.                                                              *)

\* Each step of a worker preserves the fence.
LEMMA WorkerFence ==
    ASSUME TypeOK, FenceAgrees, NEW r \in Runs, Worker(r)
    PROVE  FenceAgrees'
<1> USE SyncAssumption
<1> USE DEF TypeOK, PC, Runs, Gens, Null, NoReader, NoWatch, FenceAgrees, AtRest, rowVars, workerVars, indexVars, otherVars
<1>1. CASE CheckFence(r)
  BY <1>1 DEF CheckFence, Owns, Goto
<1>2. CASE Collect(r)
  BY <1>2 DEF Collect, Goto
<1>3. CASE StageRows(r)
  BY <1>3 DEF StageRows, Goto
<1>4. CASE StageRowsFails(r)
  BY <1>4 DEF StageRowsFails, NextSource, Goto
<1>5. CASE StageChunks(r)
  BY <1>5 DEF StageChunks, NextSource, Goto
<1>6. CASE StageChunksFails(r)
  BY <1>6 DEF StageChunksFails, NextSource, Goto
<1>7. CASE Publish(r)
  BY <1>7 DEF Publish, PublishAs, Owns, Goto
<1>8. CASE PublishAckLost(r)
  BY <1>8 DEF PublishAckLost, PublishAs, Owns, Goto
<1>9. CASE PublishFenced(r)
  BY <1>9 DEF PublishFenced, Goto
<1>10. CASE PublishError(r)
  BY <1>10 DEF PublishError, Goto
<1>11. CASE Fail(r)
  BY <1>11 DEF Fail, Owns, Goto
<1>12. CASE FailUnrecorded(r)
  BY <1>12 DEF FailUnrecorded, Goto
<1>13. CASE SweepRows(r)
  BY <1>13 DEF SweepRows, Without, Goto
<1>14. CASE SweepChunks(r)
  BY <1>14 DEF SweepChunks, Without, Goto
<1>15. CASE SweepFails(r)
  BY <1>15 DEF SweepFails, Goto
<1>16. QED BY <1>1, <1>2, <1>3, <1>4, <1>5, <1>6, <1>7, <1>8, <1>9, <1>10, <1>11, <1>12, <1>13, <1>14, <1>15 DEF Worker

\* A claim preserves the fence.
LEMMA ClaimFence ==
    ASSUME TypeOK, FenceAgrees, Claim \/ ClaimAckLost
    PROVE  FenceAgrees'
<1> USE SyncAssumption
<1>1. PICK step \in {"start", "fail", "lost"} : ClaimAs(step)
  BY DEF Claim, ClaimAckLost
<1>2. QED
  BY <1>1 DEF TypeOK, PC, Runs, Gens, Null, NoReader, NoWatch, FenceAgrees, AtRest, rowVars, workerVars, indexVars, otherVars, ClaimAs, Claimable

\* Each step of the watchdog, a deletion, a crash, the start-up and a query
\* preserves the fence.
LEMMA SystemFence ==
    ASSUME TypeOK, FenceAgrees, Watchdog \/ Age \/ Delete \/ Crash \/ StartUp \/ ReaderStarts \/ ReaderEnds
    PROVE  FenceAgrees'
<1> USE SyncAssumption
<1> USE DEF TypeOK, PC, Runs, Gens, Null, NoReader, NoWatch, FenceAgrees, AtRest, rowVars, workerVars, indexVars, otherVars
<1>1. CASE WatchFail
  BY <1>1 DEF WatchFail
<1>2. CASE WatchSweepRows
  BY <1>2 DEF WatchSweepRows, WatchGoto, WatchDone, Without
<1>3. CASE WatchSweepChunks
  BY <1>3 DEF WatchSweepChunks, WatchDone, Without
<1>4. CASE WatchSweepFails
  BY <1>4 DEF WatchSweepFails, WatchDone
<1>5. CASE Age
  BY <1>5 DEF Age
<1>6. CASE DeleteRows
  BY <1>6 DEF DeleteRows, NoContent
<1>7. CASE DeleteRowsFails
  BY <1>7 DEF DeleteRowsFails
<1>8. CASE DeleteChunks
  BY <1>8 DEF DeleteChunks, NoContent
<1>9. CASE DeleteChunksFails
  BY <1>9 DEF DeleteChunksFails
<1>10. CASE Crash
  BY <1>10 DEF Crash
<1>11. CASE StartRows
  BY <1>11 DEF StartRows, OnlyActive
<1>12. CASE StartChunks
  BY <1>12 DEF StartChunks, OnlyActive
<1>13. CASE StartFails
  BY <1>13 DEF StartFails
<1>14. CASE ReaderStarts
  BY <1>14 DEF ReaderStarts
<1>15. CASE ReaderEnds
  BY <1>15 DEF ReaderEnds
<1>16. QED BY <1>1, <1>2, <1>3, <1>4, <1>5, <1>6, <1>7, <1>8, <1>9, <1>10, <1>11, <1>12, <1>13, <1>14, <1>15 DEF Watchdog, Delete, StartUp

\* The fence is an invariant whatever fails.
THEOREM FenceAlwaysAgrees == Spec => []FenceAgrees
<1>1. Init => FenceAgrees
  BY SyncAssumption DEF Init, FenceAgrees, Runs, Null, NoWatch, NoReader
<1>2. TypeOK /\ FenceAgrees /\ [Next]_vars => FenceAgrees'
  <2> SUFFICES ASSUME TypeOK, FenceAgrees, [Next]_vars PROVE FenceAgrees'
    OBVIOUS
  <2>1. CASE UNCHANGED vars
    BY <2>1 DEF FenceAgrees, AtRest, vars, rowVars, workerVars, indexVars, otherVars
  <2>2. QED BY <2>1, WorkerFence, ClaimFence, SystemFence DEF Next
<1>3. QED BY <1>1, <1>2, SyncTypeCorrect, PTL DEF Spec

\* The pointer moves only to a later run or goes with the repository.
LEMMA StepPublishesNewer ==
    ASSUME TypeOK, FenceAgrees, [Next]_vars
    PROVE  active' # active => active' > active \/ status' = "deleted"
<1> USE DEF rowVars, workerVars, indexVars, otherVars
<1>1. ASSUME NEW r \in Runs, Publish(r) \/ PublishAckLost(r) PROVE active' > active
  BY <1>1 DEF Publish, PublishAckLost, PublishAs, Owns, FenceAgrees, TypeOK, Gens, Runs, Null
<1>2. ASSUME NEW r \in Runs, Worker(r), ~(Publish(r) \/ PublishAckLost(r))
      PROVE  active' = active
  BY <1>2 DEF Worker, CheckFence, Collect, StageRows, StageRowsFails, StageChunks, StageChunksFails,
              PublishFenced, PublishError, Fail, FailUnrecorded, SweepRows, SweepChunks, SweepFails
<1>3. CASE DeleteRows
  BY <1>3 DEF DeleteRows
<1>4. CASE Claim \/ ClaimAckLost
  BY <1>4 DEF Claim, ClaimAckLost, ClaimAs
<1>5. CASE Watchdog \/ Age \/ Crash \/ StartUp \/ ReaderStarts \/ ReaderEnds
  BY <1>5 DEF Watchdog, WatchFail, WatchSweepRows, WatchSweepChunks, WatchSweepFails, Age, Crash,
              StartUp, StartRows, StartChunks, StartFails, ReaderStarts, ReaderEnds
<1>6. CASE DeleteRowsFails \/ DeleteChunks \/ DeleteChunksFails
  BY <1>6 DEF DeleteRowsFails, DeleteChunks, DeleteChunksFails
<1>7. CASE UNCHANGED vars
  BY <1>7 DEF vars
<1>8. QED BY <1>1, <1>2, <1>3, <1>4, <1>5, <1>6, <1>7 DEF Next, Delete

\* A slow worker never puts an older generation over a newer one, whatever
\* fails and however many syncs overlap.
THEOREM PublishesForwardOnly == Spec => OnlyNewerPublished
<1>1. TypeOK /\ FenceAgrees /\ [Next]_vars
        => [active' # active => active' > active \/ status' = "deleted"]_vars
  BY StepPublishesNewer
<1>2. QED
  BY <1>1, SyncTypeCorrect, FenceAlwaysAgrees, PTL DEF Spec, OnlyNewerPublished

-----------------------------------------------------------------------------
(* What readers are shown is whole, when no DELETE fails half-way.          *)

\* The publication of a generation that passed the fence shows a whole one.
LEMMA PublishContent ==
    ASSUME TypeOK, FenceAgrees, ContentWhole, NEW r \in Runs,
           NEW step \in {"published", "fail"}, PublishAs(r, step)
    PROVE  ContentWhole'
<1> USE DEF rowVars, workerVars, indexVars, otherVars
<1>1. Whole(r)
  <2>1. pc[r] = "publish" /\ current = r
    BY DEF PublishAs, Owns
  <2>2. r \notin broken /\ left[r] = {}
    BY <2>1 DEF ContentWhole
  <2>3. StagedSoFar(r)
    BY <2>1, <2>2 DEF ContentWhole, Staging
  <2>4. rows[r] = (prepared[r] \ {}) \cup {} /\ chunks[r] = prepared[r] \ {}
    BY <2>1, <2>2, <2>3 DEF StagedSoFar
  <2>5. QED
    BY <2>4 DEF Whole
<1>2. pc' = [pc EXCEPT ![r] = step] /\ active' = r /\ current' = Null
  BY DEF PublishAs, Goto
<1>3. UNCHANGED <<issued, left, broken, prepared, rows, chunks, deleting>>
  BY DEF PublishAs
<1>4. deleting => FALSE
  BY DEF PublishAs, Owns, ContentWhole
<1>5. Whole(active)'
  BY <1>1, <1>2, <1>3 DEF Whole
<1>6. \A x \in Runs : pc'[x] = pc[x] \/ (x = r /\ pc'[x] = step)
  BY <1>2 DEF TypeOK
<1>7. \A x \in Runs : x # Null
  BY DEF Runs, Null
<1>8. \A x \in Runs : pc'[x] = "publish" => x \notin broken /\ left[x] = {}
  BY <1>6 DEF ContentWhole
<1>9. \A x \in Runs : pc'[x] \in Staging => prepared[x] # {}
  BY <1>6 DEF ContentWhole, Staging
<1>10. \A x \in Runs : x > issued \/ pc'[x] \in {"start", "collect"} =>
          x \notin broken /\ left[x] = {} /\ (x > issued => rows[x] = {} /\ chunks[x] = {})
  BY <1>6 DEF ContentWhole
<1>11. QED
  BY <1>2, <1>3, <1>4, <1>5, <1>7, <1>8, <1>9, <1>10 DEF ContentWhole

\* Removing the rows of a run that neither is shown nor stages.
LEMMA RowsOfOthersContent ==
    ASSUME TypeOK, FenceAgrees, ContentWhole, NEW r \in Runs,
           r # active, r <= issued,
           r # current \/ pc[r] = "sweep_rows",
           rows' = Without(rows, r),
           \A x \in Runs : x # r => pc'[x] = pc[x],
           pc'[r] = pc[r] \/ pc'[r] = "sweep_chunks",
           UNCHANGED <<rowVars, prepared, left, broken, chunks, deleting>>
    PROVE  ContentWhole'
<1> USE DEF rowVars
<1>1. \A g \in Gens : g # r => rows'[g] = rows[g]
  BY DEF Without, TypeOK
<1>2. status # "deleted" => Whole(active)'
  BY <1>1 DEF ContentWhole, Whole, TypeOK
<1>3. \A x \in Runs : x > issued \/ pc'[x] \in {"start", "collect"} =>
         /\ x \notin broken /\ left[x] = {}
         /\ x > issued \/ x = current => rows'[x] = {} /\ chunks[x] = {}
  BY <1>1 DEF ContentWhole, Gens, TypeOK, Runs
<1>4. \A x \in Runs : pc'[x] = "publish" => x \notin broken /\ left[x] = {}
  BY DEF ContentWhole
<1>5. \A x \in Runs : pc'[x] \in Staging => prepared[x] # {}
  BY DEF ContentWhole, Staging
<1>6. ASSUME NEW x \in Runs, x = current, pc'[x] \in Staging, x \notin broken
      PROVE  StagedSoFar(x)'
  <2>1. x # r
    BY <1>6 DEF Staging
  <2>2. pc'[x] = pc[x] /\ rows'[x] = rows[x]
    BY <1>1, <2>1 DEF Gens
  <2>3. StagedSoFar(x)
    BY <1>6, <2>2 DEF ContentWhole
  <2>4. QED
    BY <2>2, <2>3 DEF StagedSoFar, At
<1>7. QED
  BY <1>2, <1>3, <1>4, <1>5, <1>6 DEF ContentWhole

\* Each step of a worker keeps the content whole.
LEMMA WorkerContent ==
    ASSUME TypeOK, FenceAgrees, ContentWhole, "delete" \notin Faults, NEW r \in Runs, Worker(r)
    PROVE  ContentWhole'
<1> USE SyncAssumption
<1> USE DEF TypeOK, PC, Runs, Gens, Null, NoReader, NoWatch, FenceAgrees, AtRest, ContentWhole, Staging, StagedSoFar, Whole, At, rowVars, workerVars, indexVars, otherVars
<1>1. CASE CheckFence(r)
  BY <1>1 DEF CheckFence, Owns, Goto
<1>2. CASE Collect(r)
  BY <1>2 DEF Collect, Goto
<1>3. CASE StageRows(r)
  BY <1>3 DEF StageRows, Goto
<1>4. CASE StageRowsFails(r)
  BY <1>4 DEF StageRowsFails, NextSource, Goto
<1>5. CASE StageChunks(r)
  BY <1>5 DEF StageChunks, NextSource, Goto
<1>6. CASE StageChunksFails(r)
  BY <1>6 DEF StageChunksFails, NextSource, Goto
<1>7. CASE Publish(r)
  BY <1>7, PublishContent DEF Publish
<1>8. CASE PublishAckLost(r)
  BY <1>8, PublishContent DEF PublishAckLost
<1>9. CASE PublishFenced(r)
  BY <1>9 DEF PublishFenced, Goto
<1>10. CASE PublishError(r)
  BY <1>10 DEF PublishError, Goto
<1>11. CASE Fail(r)
  BY <1>11 DEF Fail, Owns, Goto
<1>12. CASE FailUnrecorded(r)
  BY <1>12 DEF FailUnrecorded, Goto
<1>13. CASE SweepRows(r)
  <2>1. CASE active = r
    BY <1>13, <2>1 DEF SweepRows, Goto
  <2>2. CASE active # r
    <3>1. pc' = [pc EXCEPT ![r] = "sweep_chunks"] /\ rows' = Without(rows, r)
      BY <1>13, <2>2 DEF SweepRows, Goto
    <3>2. r <= issued
      BY <1>13 DEF SweepRows
    <3>3. QED
      BY <1>13, <2>2, <3>1, <3>2, RowsOfOthersContent DEF SweepRows
  <2>3. QED BY <2>1, <2>2
<1>14. CASE SweepChunks(r)
  BY <1>14 DEF SweepChunks, Without, Goto
<1>15. CASE SweepFails(r)
  BY <1>15 DEF SweepFails, Goto
<1>16. QED BY <1>1, <1>2, <1>3, <1>4, <1>5, <1>6, <1>7, <1>8, <1>9, <1>10, <1>11, <1>12, <1>13, <1>14, <1>15 DEF Worker

\* A claim keeps the content whole.
LEMMA ClaimContent ==
    ASSUME TypeOK, FenceAgrees, ContentWhole, "delete" \notin Faults, Claim \/ ClaimAckLost
    PROVE  ContentWhole'
<1> USE SyncAssumption
<1>1. PICK step \in {"start", "fail", "lost"} : ClaimAs(step)
  BY DEF Claim, ClaimAckLost
<1>2. QED
  BY <1>1 DEF TypeOK, PC, Runs, Gens, Null, NoReader, NoWatch, FenceAgrees, AtRest, ContentWhole, Staging, StagedSoFar, Whole, At, rowVars, workerVars, indexVars, otherVars, ClaimAs, Claimable

\* Each step of the watchdog, a deletion, a crash, the start-up and a query
\* keeps the content whole.
LEMMA SystemContent ==
    ASSUME TypeOK, FenceAgrees, ContentWhole, "delete" \notin Faults, Watchdog \/ Age \/ Delete \/ Crash \/ StartUp \/ ReaderStarts \/ ReaderEnds
    PROVE  ContentWhole'
<1> USE SyncAssumption
<1> USE DEF TypeOK, PC, Runs, Gens, Null, NoReader, NoWatch, FenceAgrees, AtRest, ContentWhole, Staging, StagedSoFar, Whole, At, rowVars, workerVars, indexVars, otherVars
<1>1. CASE WatchFail
  BY <1>1 DEF WatchFail
<1>2. CASE WatchSweepRows
  <2>1. watch # NoWatch /\ watch.run \in Runs
    BY <1>2 DEF WatchSweepRows
  <2>2. watch.run <= issued /\ watch.run # current /\ watch.run # active
    BY <2>1
  <2>3. rows' = Without(rows, watch.run)
    BY <1>2, <2>2 DEF WatchSweepRows
  <2>4. QED
    BY <1>2, <2>1, <2>2, <2>3, RowsOfOthersContent DEF WatchSweepRows
<1>3. CASE WatchSweepChunks
  BY <1>3 DEF WatchSweepChunks, WatchDone, Without
<1>4. CASE WatchSweepFails
  BY <1>4 DEF WatchSweepFails, WatchDone
<1>5. CASE Age
  BY <1>5 DEF Age
<1>6. CASE DeleteRows
  BY <1>6 DEF DeleteRows, NoContent
<1>7. CASE DeleteRowsFails
  BY <1>7 DEF DeleteRowsFails
<1>8. CASE DeleteChunks
  BY <1>8 DEF DeleteChunks, NoContent
<1>9. CASE DeleteChunksFails
  BY <1>9 DEF DeleteChunksFails
<1>10. CASE Crash
  BY <1>10 DEF Crash
<1>11. CASE StartRows
  BY <1>11 DEF StartRows, OnlyActive
<1>12. CASE StartChunks
  BY <1>12 DEF StartChunks, OnlyActive
<1>13. CASE StartFails
  BY <1>13 DEF StartFails
<1>14. CASE ReaderStarts
  BY <1>14 DEF ReaderStarts
<1>15. CASE ReaderEnds
  BY <1>15 DEF ReaderEnds
<1>16. QED BY <1>1, <1>2, <1>3, <1>4, <1>5, <1>6, <1>7, <1>8, <1>9, <1>10, <1>11, <1>12, <1>13, <1>14, <1>15 DEF Watchdog, Delete, StartUp

\* The owner's staging and the published generation are whole.
THEOREM ContentAlwaysWhole ==
    ASSUME "delete" \notin Faults
    PROVE  Spec => []ContentWhole
<1>1. Init => ContentWhole
  BY SyncAssumption DEF Init, ContentWhole, Staging, Whole, Runs, Gens, Null
<1>2. TypeOK /\ FenceAgrees /\ ContentWhole /\ [Next]_vars => ContentWhole'
  <2> SUFFICES ASSUME TypeOK, FenceAgrees, ContentWhole, [Next]_vars PROVE ContentWhole'
    OBVIOUS
  <2>1. CASE UNCHANGED vars
    BY <2>1 DEF ContentWhole, Staging, StagedSoFar, At, Whole,
                vars, rowVars, workerVars, indexVars, otherVars
  <2>2. QED BY <2>1, WorkerContent, ClaimContent, SystemContent DEF Next
<1>3. QED BY <1>1, <1>2, SyncTypeCorrect, FenceAlwaysAgrees, PTL DEF Spec

\* Readers of the repository are always shown everything one run prepared, in
\* both stores, when the transaction of a DELETE does not fail.
THEOREM PublishedAlwaysComplete ==
    ASSUME "delete" \notin Faults
    PROVE  Spec => []PublishedIsComplete
<1>1. ContentWhole => PublishedIsComplete
  BY DEF ContentWhole, PublishedIsComplete
<1>2. QED BY <1>1, ContentAlwaysWhole, PTL
-----------------------------------------------------------------------------
(* The detailed specification implements the index readers rely on.         *)

\* A step of a worker that does not publish leaves what is shown alone.
LEMMA WorkerShowsSame ==
    ASSUME TypeOK, FenceAgrees, NEW r \in Runs, Worker(r),
           ~Publish(r), ~PublishAckLost(r)
    PROVE  /\ active' = active
           /\ rows'[active] = rows[active] /\ chunks'[active] = chunks[active]
           /\ status' = "deleted" <=> status = "deleted"
<1> USE DEF TypeOK, FenceAgrees, Gens, Null, Runs, rowVars, workerVars, indexVars, otherVars
<1>1. CASE CheckFence(r)
  BY <1>1 DEF CheckFence, Owns, Goto
<1>2. CASE Collect(r)
  BY <1>2 DEF Collect, Goto
<1>3. CASE StageRows(r)
  BY <1>3 DEF StageRows, Goto
<1>4. CASE StageRowsFails(r)
  BY <1>4 DEF StageRowsFails, NextSource, Goto
<1>5. CASE StageChunks(r)
  BY <1>5 DEF StageChunks, NextSource, Goto
<1>6. CASE StageChunksFails(r)
  BY <1>6 DEF StageChunksFails, NextSource, Goto
<1>7. CASE PublishFenced(r)
  BY <1>7 DEF PublishFenced, Goto
<1>8. CASE PublishError(r)
  BY <1>8 DEF PublishError, Goto
<1>9. CASE Fail(r)
  BY <1>9 DEF Fail, Owns, Goto
<1>10. CASE FailUnrecorded(r)
  BY <1>10 DEF FailUnrecorded, Goto
<1>11. CASE SweepRows(r)
  BY <1>11 DEF SweepRows, Without, Goto
<1>12. CASE SweepChunks(r)
  BY <1>12 DEF SweepChunks, Without, Goto
<1>13. CASE SweepFails(r)
  BY <1>13 DEF SweepFails, Goto
<1>14. QED BY <1>1, <1>2, <1>3, <1>4, <1>5, <1>6, <1>7, <1>8, <1>9, <1>10, <1>11, <1>12, <1>13 DEF Worker

\* So does a step of anyone else but a DELETE's first half.
LEMMA SystemShowsSame ==
    ASSUME TypeOK, FenceAgrees, ContentWhole, "delete" \notin Faults, status # "deleted",
           Watchdog \/ Age \/ Delete \/ Crash \/ StartUp \/ ReaderStarts \/ ReaderEnds,
           ~DeleteRows
    PROVE  /\ active' = active /\ status' # "deleted"
           /\ rows'[active] = rows[active] /\ chunks'[active] = chunks[active]
<1> USE DEF TypeOK, FenceAgrees, ContentWhole, Gens, Null, Runs, NoWatch,
            rowVars, workerVars, indexVars, otherVars
<1>1. CASE WatchFail
  BY <1>1 DEF WatchFail
<1>2. CASE WatchSweepRows
  BY <1>2 DEF WatchSweepRows, WatchGoto, WatchDone, Without
<1>3. CASE WatchSweepChunks
  BY <1>3 DEF WatchSweepChunks, WatchDone, Without
<1>4. CASE WatchSweepFails
  BY <1>4 DEF WatchSweepFails, WatchDone
<1>5. CASE Age
  BY <1>5 DEF Age
<1>6. CASE DeleteRowsFails
  BY <1>6 DEF DeleteRowsFails
<1>7. CASE DeleteChunks
  BY <1>7 DEF DeleteChunks, NoContent
<1>8. CASE DeleteChunksFails
  BY <1>8 DEF DeleteChunksFails
<1>9. CASE Crash
  BY <1>9 DEF Crash
<1>10. CASE StartRows
  BY <1>10 DEF StartRows, OnlyActive
<1>11. CASE StartChunks
  BY <1>11 DEF StartChunks, OnlyActive
<1>12. CASE StartFails
  BY <1>12 DEF StartFails
<1>13. CASE ReaderStarts
  BY <1>13 DEF ReaderStarts
<1>14. CASE ReaderEnds
  BY <1>14 DEF ReaderEnds
<1>15. QED BY <1>1, <1>2, <1>3, <1>4, <1>5, <1>6, <1>7, <1>8, <1>9, <1>10, <1>11, <1>12, <1>13, <1>14 DEF Watchdog, Delete, StartUp

\* A deleted repository stays deleted.
LEMMA DeletedStaysDeleted ==
    ASSUME TypeOK, FenceAgrees, status = "deleted", Next
    PROVE  status' = "deleted"
<1> USE DEF rowVars
<1>1. ASSUME NEW r \in Runs, Worker(r) PROVE status' = "deleted"
  BY <1>1 DEF Worker, CheckFence, Collect, StageRows, StageRowsFails, StageChunks, StageChunksFails,
              Publish, PublishAckLost, PublishAs, PublishFenced, PublishError, Fail, FailUnrecorded,
              Owns, SweepRows, SweepChunks, SweepFails
<1>2. CASE Claim \/ ClaimAckLost
  BY <1>2 DEF Claim, ClaimAckLost, ClaimAs, Claimable
<1>3. CASE Watchdog \/ Age \/ Crash \/ StartUp \/ ReaderStarts \/ ReaderEnds
  BY <1>3 DEF Watchdog, WatchFail, WatchSweepRows, WatchSweepChunks, WatchSweepFails, Age, Crash,
              StartUp, StartRows, StartChunks, StartFails, ReaderStarts, ReaderEnds
<1>4. CASE Delete
  BY <1>4 DEF Delete, DeleteRows, DeleteRowsFails, DeleteChunks, DeleteChunksFails
<1>5. QED BY <1>1, <1>2, <1>3, <1>4 DEF Next

\* A publication is one step of the index: a later generation, whole.
LEMMA PublicationRefines ==
    ASSUME TypeOK, FenceAgrees, ContentWhole, NEW r \in Runs,
           NEW step \in {"published", "fail"}, PublishAs(r, step)
    PROVE  Index!Publish
<1>1. pc[r] = "publish" /\ current = r /\ status = "syncing"
  BY DEF PublishAs, Owns
<1>2. active' = r /\ status' = "indexed" /\ rows' = rows /\ chunks' = chunks
  BY DEF PublishAs, indexVars
<1>3. r \notin broken /\ left[r] = {} /\ prepared[r] # {}
  BY <1>1 DEF ContentWhole, Staging
<1>4. StagedSoFar(r)
  BY <1>1, <1>3 DEF ContentWhole, Staging
<1>5. rows[r] = prepared[r] /\ chunks[r] = prepared[r]
  <2>1. rows[r] = (prepared[r] \ {}) \cup {} /\ chunks[r] = prepared[r] \ {}
    BY <1>1, <1>3, <1>4 DEF StagedSoFar
  <2>2. QED BY <2>1
<1>6. prepared[r] \in SUBSET Source
  BY DEF TypeOK, Gens
<1>7. r \in (active + 1)..MaxRuns /\ active # -1
  BY <1>1, SyncAssumption DEF FenceAgrees, TypeOK, Gens, Runs, Null
<1>8. status # "deleted" /\ status' # "deleted"
  BY <1>1, <1>2
<1>9. rows'[active'] = prepared[r] /\ chunks'[active'] = prepared[r]
  BY <1>2, <1>5
<1>10. prepared[r] \in (SUBSET Source) \ {{}}
  BY <1>3, <1>6
<1>11. QED
  BY <1>2, <1>7, <1>8, <1>9, <1>10 DEF Index!Publish, Index!Gone

\* Every behaviour of the sync, the watchdog, the start-up and the queries is
\* one of the abstract index, when the transaction of a DELETE does not fail.
THEOREM SyncImplementsIndex ==
    ASSUME "delete" \notin Faults
    PROVE  Spec => ImplementsIndex
<1> DEFINE shown  == IF status = "deleted" THEN -1 ELSE active
           mrows  == IF status = "deleted" THEN {} ELSE rows[active]
           mchunk == IF status = "deleted" THEN {} ELSE chunks[active]
<1>1. Init => Index!IndexInit
  <2> SUFFICES ASSUME Init PROVE Index!IndexInit
    OBVIOUS
  <2>1. status # "deleted" /\ active = 0 /\ rows[0] \in SUBSET Source /\ chunks[0] = rows[0]
    BY DEF Init, Gens, Null
  <2>2. QED BY <2>1 DEF Index!IndexInit, Index!Legacy
<1>2. TypeOK /\ FenceAgrees /\ ContentWhole /\ [Next]_vars
        => [Index!IndexNext]_<<shown, mrows, mchunk>>
  <2> SUFFICES ASSUME TypeOK, FenceAgrees, ContentWhole, [Next]_vars
               PROVE  Index!IndexNext \/ UNCHANGED <<shown, mrows, mchunk>>
    OBVIOUS
  <2>1. CASE UNCHANGED vars
    BY <2>1 DEF vars, rowVars, indexVars
  <2>2. CASE Next /\ status = "deleted"
    BY <2>2, DeletedStaysDeleted
  <2>3. ASSUME NEW r \in Runs, Publish(r) \/ PublishAckLost(r) PROVE Index!IndexNext
    BY <2>3, PublicationRefines DEF Publish, PublishAckLost, Index!IndexNext
  <2>4. CASE DeleteRows
    BY <2>4 DEF DeleteRows, Index!IndexNext, Index!Remove, Index!Gone
  <2>5. CASE (Claim \/ ClaimAckLost) /\ status # "deleted"
    BY <2>5 DEF Claim, ClaimAckLost, ClaimAs, indexVars
  <2>6. ASSUME NEW r \in Runs, Worker(r), ~Publish(r), ~PublishAckLost(r)
        PROVE  UNCHANGED <<shown, mrows, mchunk>>
    BY <2>6, WorkerShowsSame
  <2>7. CASE /\ Watchdog \/ Age \/ Delete \/ Crash \/ StartUp \/ ReaderStarts \/ ReaderEnds
             /\ ~DeleteRows /\ status # "deleted"
    BY <2>7, SystemShowsSame
  <2>8. QED BY <2>1, <2>2, <2>3, <2>4, <2>5, <2>6, <2>7 DEF Next
<1>3. QED
  BY <1>1, <1>2, SyncTypeCorrect, FenceAlwaysAgrees, ContentAlwaysWhole, PTL
  DEF Spec, ImplementsIndex, Index!IndexSpec

-----------------------------------------------------------------------------
(* A running query keeps its generation.                                    *)

\* Each step of a worker keeps the snapshot.
LEMMA WorkerSnapshot ==
    ASSUME TypeOK, FenceAgrees, ContentWhole, SnapshotKept,
           Faults \cap {"delete", "lost_ack"} = {}, NEW r \in Runs, Worker(r)
    PROVE  SnapshotKept'
<1> USE SyncAssumption
<1> USE DEF TypeOK, PC, Runs, Gens, Null, NoReader, NoWatch, FenceAgrees, AtRest, SnapshotKept, Whole, rowVars, workerVars, indexVars, otherVars
<1>1. CASE CheckFence(r)
  BY <1>1 DEF CheckFence, Owns, Goto
<1>2. CASE Collect(r)
  BY <1>2 DEF Collect, Goto
<1>3. CASE StageRows(r)
  BY <1>3 DEF StageRows, Goto
<1>4. CASE StageRowsFails(r)
  BY <1>4 DEF StageRowsFails, NextSource, Goto
<1>5. CASE StageChunks(r)
  BY <1>5 DEF StageChunks, NextSource, Goto
<1>6. CASE StageChunksFails(r)
  BY <1>6 DEF StageChunksFails, NextSource, Goto
<1>7. CASE Publish(r)
  BY <1>7 DEF Publish, PublishAs, Owns, Goto
<1>8. CASE PublishAckLost(r)
  BY <1>8 DEF PublishAckLost, PublishAs, Owns, Goto
<1>9. CASE PublishFenced(r)
  BY <1>9 DEF PublishFenced, Goto
<1>10. CASE PublishError(r)
  BY <1>10 DEF PublishError, Goto
<1>11. CASE Fail(r)
  BY <1>11 DEF Fail, Owns, Goto
<1>12. CASE FailUnrecorded(r)
  BY <1>12 DEF FailUnrecorded, Goto
<1>13. CASE SweepRows(r)
  BY <1>13 DEF SweepRows, Without, Goto
<1>14. CASE SweepChunks(r)
  BY <1>14 DEF SweepChunks, Without, Goto
<1>15. CASE SweepFails(r)
  BY <1>15 DEF SweepFails, Goto
<1>16. QED BY <1>1, <1>2, <1>3, <1>4, <1>5, <1>6, <1>7, <1>8, <1>9, <1>10, <1>11, <1>12, <1>13, <1>14, <1>15 DEF Worker

\* A claim keeps the snapshot.
LEMMA ClaimSnapshot ==
    ASSUME TypeOK, FenceAgrees, ContentWhole, SnapshotKept,
           Faults \cap {"delete", "lost_ack"} = {}, Claim \/ ClaimAckLost
    PROVE  SnapshotKept'
<1> USE SyncAssumption
<1>1. PICK step \in {"start", "fail", "lost"} : ClaimAs(step)
  BY DEF Claim, ClaimAckLost
<1>2. QED
  BY <1>1 DEF TypeOK, PC, Runs, Gens, Null, NoReader, NoWatch, FenceAgrees, AtRest, SnapshotKept, Whole, rowVars, workerVars, indexVars, otherVars, ClaimAs, Claimable

\* Each step of the watchdog, a deletion, a crash, the start-up and a query
\* keeps the snapshot.
LEMMA SystemSnapshot ==
    ASSUME TypeOK, FenceAgrees, ContentWhole, SnapshotKept,
           Faults \cap {"delete", "lost_ack"} = {}, Watchdog \/ Age \/ Delete \/ Crash \/ StartUp \/ ReaderStarts \/ ReaderEnds
    PROVE  SnapshotKept'
<1> USE SyncAssumption
<1> USE DEF TypeOK, PC, Runs, Gens, Null, NoReader, NoWatch, FenceAgrees, AtRest, SnapshotKept, Whole, rowVars, workerVars, indexVars, otherVars
<1>1. CASE WatchFail
  BY <1>1 DEF WatchFail
<1>2. CASE WatchSweepRows
  BY <1>2 DEF WatchSweepRows, WatchGoto, WatchDone, Without
<1>3. CASE WatchSweepChunks
  BY <1>3 DEF WatchSweepChunks, WatchDone, Without
<1>4. CASE WatchSweepFails
  BY <1>4 DEF WatchSweepFails, WatchDone
<1>5. CASE Age
  BY <1>5 DEF Age
<1>6. CASE DeleteRows
  BY <1>6 DEF DeleteRows, NoContent
<1>7. CASE DeleteRowsFails
  BY <1>7 DEF DeleteRowsFails
<1>8. CASE DeleteChunks
  BY <1>8 DEF DeleteChunks, NoContent, ContentWhole
<1>9. CASE DeleteChunksFails
  BY <1>9 DEF DeleteChunksFails
<1>10. CASE Crash
  BY <1>10 DEF Crash
<1>11. CASE StartRows
  BY <1>11 DEF StartRows, OnlyActive
<1>12. CASE StartChunks
  BY <1>12 DEF StartChunks, OnlyActive
<1>13. CASE StartFails
  BY <1>13 DEF StartFails
<1>14. CASE ReaderStarts
  BY <1>14 DEF ReaderStarts, ContentWhole
<1>15. CASE ReaderEnds
  BY <1>15 DEF ReaderEnds
<1>16. QED BY <1>1, <1>2, <1>3, <1>4, <1>5, <1>6, <1>7, <1>8, <1>9, <1>10, <1>11, <1>12, <1>13, <1>14, <1>15 DEF Watchdog, Delete, StartUp

\* The published generations a query can hold are never touched.
LEMMA SnapshotAlwaysKept ==
    ASSUME Faults \cap {"delete", "lost_ack"} = {}
    PROVE  Spec => []SnapshotKept
<1>1. Init => SnapshotKept
  BY SyncAssumption DEF Init, SnapshotKept, Runs, Gens, Null, NoReader
<1>2. TypeOK /\ FenceAgrees /\ ContentWhole /\ SnapshotKept /\ [Next]_vars => SnapshotKept'
  <2> SUFFICES ASSUME TypeOK, FenceAgrees, ContentWhole, SnapshotKept, [Next]_vars
               PROVE  SnapshotKept'
    OBVIOUS
  <2>1. CASE UNCHANGED vars
    BY <2>1 DEF SnapshotKept, Whole, vars, rowVars, workerVars, indexVars, otherVars
  <2>2. QED BY <2>1, WorkerSnapshot, ClaimSnapshot, SystemSnapshot DEF Next
<1>3. "delete" \notin Faults
  OBVIOUS
<1>4. QED
  BY <1>1, <1>2, <1>3, SyncTypeCorrect, FenceAlwaysAgrees, ContentAlwaysWhole, PTL DEF Spec

\* A query keeps finding the generation it was given, when replies arrive and
\* the transaction of a DELETE does not fail.
THEOREM SnapshotAlwaysReadable ==
    ASSUME Faults \cap {"delete", "lost_ack"} = {}
    PROVE  Spec => []SnapshotStaysReadable
<1>1. SnapshotKept => SnapshotStaysReadable
  BY DEF SnapshotKept, SnapshotStaysReadable
<1>2. QED BY <1>1, SnapshotAlwaysKept, PTL

-----------------------------------------------------------------------------
(* Nothing is left behind, when every cleanup and every reply works.        *)

\* Each step of a worker leaves its leftovers to somebody.
LEMMA WorkerLeftovers ==
    ASSUME TypeOK, FenceAgrees, ContentWhole, SnapshotKept, LeftoversOwed, Faults = {}, NEW r \in Runs, Worker(r)
    PROVE  LeftoversOwed'
<1> USE SyncAssumption
<1> USE DEF TypeOK, PC, Runs, Gens, Null, NoWatch, FenceAgrees, AtRest, LeftoversOwed, Staging, Cleaning, rowVars, workerVars, indexVars, otherVars
<1>1. CASE CheckFence(r)
  BY <1>1 DEF CheckFence, Owns, Goto
<1>2. CASE Collect(r)
  BY <1>2 DEF Collect, Goto
<1>3. CASE StageRows(r)
  BY <1>3 DEF StageRows, Goto
<1>4. CASE StageRowsFails(r)
  BY <1>4 DEF StageRowsFails, NextSource, Goto
<1>5. CASE StageChunks(r)
  BY <1>5 DEF StageChunks, NextSource, Goto
<1>6. CASE StageChunksFails(r)
  BY <1>6 DEF StageChunksFails, NextSource, Goto
<1>7. CASE Publish(r)
  BY <1>7 DEF Publish, PublishAs, Owns, Goto
<1>8. CASE PublishAckLost(r)
  BY <1>8 DEF PublishAckLost, PublishAs, Owns, Goto
<1>9. CASE PublishFenced(r)
  BY <1>9 DEF PublishFenced, Goto
<1>10. CASE PublishError(r)
  BY <1>10 DEF PublishError, Goto
<1>11. CASE Fail(r)
  BY <1>11 DEF Fail, Owns, Goto
<1>12. CASE FailUnrecorded(r)
  BY <1>12 DEF FailUnrecorded, Goto
<1>13. CASE SweepRows(r)
  <2>1. active # r
    BY <1>13 DEF SweepRows, SnapshotKept
  <2>2. pc' = [pc EXCEPT ![r] = "sweep_chunks"] /\ rows' = Without(rows, r)
    BY <1>13, <2>1 DEF SweepRows, Goto
  <2>3. QED
    BY <1>13, <2>2 DEF SweepRows, Without
<1>14. CASE SweepChunks(r)
  BY <1>14 DEF SweepChunks, Without, Goto
<1>15. CASE SweepFails(r)
  BY <1>15 DEF SweepFails, Goto
<1>16. QED BY <1>1, <1>2, <1>3, <1>4, <1>5, <1>6, <1>7, <1>8, <1>9, <1>10, <1>11, <1>12, <1>13, <1>14, <1>15 DEF Worker

\* A claim leaves its leftovers to somebody.
LEMMA ClaimLeftovers ==
    ASSUME TypeOK, FenceAgrees, ContentWhole, SnapshotKept, LeftoversOwed, Faults = {}, Claim \/ ClaimAckLost
    PROVE  LeftoversOwed'
<1> USE SyncAssumption
<1>1. PICK step \in {"start", "fail", "lost"} : ClaimAs(step)
  BY DEF Claim, ClaimAckLost
<1>2. QED
  BY <1>1 DEF TypeOK, PC, Runs, Gens, Null, NoWatch, FenceAgrees, AtRest, LeftoversOwed, Staging, Cleaning, rowVars, workerVars, indexVars, otherVars, ClaimAs, Claimable

\* Each step of the watchdog, a deletion, a crash, the start-up and a query
\* leaves its leftovers to somebody.
LEMMA SystemLeftovers ==
    ASSUME TypeOK, FenceAgrees, ContentWhole, SnapshotKept, LeftoversOwed, Faults = {}, Watchdog \/ Age \/ Delete \/ Crash \/ StartUp \/ ReaderStarts \/ ReaderEnds
    PROVE  LeftoversOwed'
<1> USE SyncAssumption
<1> USE DEF TypeOK, PC, Runs, Gens, Null, NoWatch, FenceAgrees, AtRest, LeftoversOwed, Staging, Cleaning, rowVars, workerVars, indexVars, otherVars
<1>1. CASE WatchFail
  BY <1>1 DEF WatchFail
<1>2. CASE WatchSweepRows
  BY <1>2 DEF WatchSweepRows, WatchGoto, WatchDone, Without
<1>3. CASE WatchSweepChunks
  BY <1>3 DEF WatchSweepChunks, WatchDone, Without
<1>4. CASE WatchSweepFails
  BY <1>4 DEF WatchSweepFails, WatchDone
<1>5. CASE Age
  BY <1>5 DEF Age
<1>6. CASE DeleteRows
  BY <1>6 DEF DeleteRows, NoContent
<1>7. CASE DeleteRowsFails
  BY <1>7 DEF DeleteRowsFails
<1>8. CASE DeleteChunks
  BY <1>8 DEF DeleteChunks, NoContent
<1>9. CASE DeleteChunksFails
  BY <1>9 DEF DeleteChunksFails
<1>10. CASE Crash
  BY <1>10 DEF Crash
<1>11. CASE StartRows
  <2>1. \A g \in Gens : rows'[g] = {} \/ (g = active /\ rows'[g] = rows[g] /\ status # "deleted")
    BY <1>11 DEF StartRows, OnlyActive
  <2>2. \A r \in Runs : pc[r] # "published" => rows'[r] = {} \/ status = "deleted"
    BY <2>1 DEF SnapshotKept
  <2>3. QED
    BY <1>11, <2>1, <2>2 DEF StartRows
<1>12. CASE StartChunks
  <2>1. CASE status = "deleted"
    BY <1>12, <2>1 DEF StartChunks, OnlyActive
  <2>2. CASE status # "deleted"
    <3>1. \A r \in Runs : pc[r] # "published" => chunks'[r] = {}
      BY <1>12, <2>2 DEF StartChunks, OnlyActive, SnapshotKept
    <3>2. \A r \in Runs : pc[r] # "published" /\ rows[r] # {} => FALSE
      BY <1>12, <2>2 DEF StartChunks
    <3>3. QED
      BY <1>12, <2>2, <3>1, <3>2 DEF StartChunks
  <2>3. QED BY <2>1, <2>2
<1>13. CASE StartFails
  BY <1>13 DEF StartFails
<1>14. CASE ReaderStarts
  BY <1>14 DEF ReaderStarts
<1>15. CASE ReaderEnds
  BY <1>15 DEF ReaderEnds
<1>16. QED BY <1>1, <1>2, <1>3, <1>4, <1>5, <1>6, <1>7, <1>8, <1>9, <1>10, <1>11, <1>12, <1>13, <1>14, <1>15 DEF Watchdog, Delete, StartUp

\* What an unpublished run or a deleted repository left is owed by somebody.
LEMMA LeftoversAlwaysOwed ==
    ASSUME Faults = {}
    PROVE  Spec => []LeftoversOwed
<1>1. ASSUME Init PROVE LeftoversOwed
  <2>1. status # "deleted" /\ \A r \in Runs : pc[r] = "idle"
    BY <1>1 DEF Init
  <2>2. \A r \in Runs : r # Null /\ rows[r] = {} /\ chunks[r] = {}
    BY <1>1 DEF Init, Runs, Gens, Null
  <2>3. QED
    BY <2>1, <2>2 DEF LeftoversOwed
<1>2. TypeOK /\ FenceAgrees /\ ContentWhole /\ SnapshotKept /\ LeftoversOwed /\ [Next]_vars
        => LeftoversOwed'
  <2> SUFFICES ASSUME TypeOK, FenceAgrees, ContentWhole, SnapshotKept, LeftoversOwed, [Next]_vars
               PROVE  LeftoversOwed'
    OBVIOUS
  <2>1. CASE UNCHANGED vars
    BY <2>1 DEF LeftoversOwed, vars, rowVars, workerVars, indexVars, otherVars
  <2>2. QED BY <2>1, WorkerLeftovers, ClaimLeftovers, SystemLeftovers DEF Next
<1>3. "delete" \notin Faults /\ Faults \cap {"delete", "lost_ack"} = {}
  OBVIOUS
<1>4. QED
  BY <1>1, <1>2, <1>3, SyncTypeCorrect, FenceAlwaysAgrees, ContentAlwaysWhole, SnapshotAlwaysKept, PTL
  DEF Spec

\* When nobody works on the repository, unpublished runs have left nothing.
THEOREM FailedRunsLeaveNothing ==
    ASSUME Faults = {}
    PROVE  Spec => []FailedRunLeavesNothing
<1>1. LeftoversOwed => FailedRunLeavesNothing
  BY DEF LeftoversOwed, FailedRunLeavesNothing, Quiet, Staging, Cleaning
<1>2. QED BY <1>1, LeftoversAlwaysOwed, PTL

\* A repository deleted in the middle of its syncs leaves nothing, as long as
\* the process lives.
THEOREM DeletedReposLeaveNothing ==
    ASSUME Faults = {}
    PROVE  Spec => []DeletedRepoLeavesNothing
<1>1. LeftoversOwed => DeletedRepoLeavesNothing
  BY DEF LeftoversOwed, DeletedRepoLeavesNothing, Quiet, Staging, Cleaning
<1>2. QED BY <1>1, LeftoversAlwaysOwed, PTL

\* Both together: neither an unpublished run nor a deleted repository leaves
\* anything when the work on it is over.
THEOREM NothingStaysBehind ==
    ASSUME Faults = {}
    PROVE  Spec => []NothingLeftBehind
<1>1. FailedRunLeavesNothing /\ DeletedRepoLeavesNothing => NothingLeftBehind
  BY DEF NothingLeftBehind
<1>2. QED BY <1>1, FailedRunsLeaveNothing, DeletedReposLeaveNothing, PTL
=============================================================================
