----------------------- MODULE DocumentVersionProofs -----------------------
(* Theorems about the versions of a file: uploads of one name into one project, *)
(* any number of them, however their requests and workers interleave.           *)
EXTENDS DocumentUploadProofs

Live(u) == doc[u] \in {"processing", "indexed"}

\* A version that made older ones disposable: it is indexed and its worker cannot
\* fail it any more, or a user has deleted it.
Survives(u) ==
    u \in userDeleted \/ (doc[u] = "indexed" /\ pc[u] \in {"replacing", "done", "dead"})

\* What a worker has replaced or will, and how far it is, agree with the documents.
\* Of two live versions one will be replaced by the other.
VersionsAgree ==
    /\ \A u \in Upload :
          /\ pc[u] = "replacing" => doc[u] \in {"indexed", "deleted"}
          /\ doc[u] = "indexed" => pc[u] \in {"replacing", "failing", "done", "dead"}
          /\ pc[u] = "done" /\ Live(u) => old[u] = {}
          /\ u \in userDeleted => doc[u] = "deleted"
          /\ \A v \in old[u] : SameFile(u, v) /\ doc[v] # "absent"
    /\ \A u, v \in Upload : Live(u) /\ Live(v) /\ SameFile(u, v) =>
          u = v \/ u \in old[v] \/ v \in old[u]

\* rank is an order in which the documents may have been finalized: each replaces only
\* lower ones, and of each that was replaced a higher one survives.
Ordered(rank) ==
    /\ \A u \in Upload : \A v \in old[u] : rank[v] < rank[u]
    /\ \A v \in Upload : doc[v] = "deleted" /\ v \notin userDeleted =>
          \E u \in Upload : SameFile(u, v) /\ rank[v] < rank[u] /\ Survives(u)
VersionsOrdered ==
    \E top \in Nat : \E rank \in [Upload -> 0..top] : Ordered(rank)

-----------------------------------------------------------------------------
\* A step that replaces nothing and creates no version.
KeepsVersions ==
    /\ UNCHANGED <<old, userDeleted>>
    /\ \A u \in Upload :
          /\ Survives(u) => Survives(u)'
          /\ Live(u)' => Live(u)
          /\ doc'[u] = "deleted" <=> doc[u] = "deleted"
          /\ doc[u] # "absent" => doc'[u] # "absent"
          /\ pc'[u] = "replacing" => doc'[u] \in {"indexed", "deleted"}
          /\ doc'[u] = "indexed" => pc'[u] \in {"replacing", "failing", "done", "dead"}
          /\ pc'[u] = "done" /\ Live(u)' => old[u] = {}

\* Such a step keeps both invariants, with the same order.
LEMMA KeptVersions ==
    ASSUME TypeOK, VersionsAgree, VersionsOrdered, KeepsVersions
    PROVE  VersionsAgree' /\ VersionsOrdered'
<1>1. VersionsAgree'
  <2>1. \A u \in Upload :
          /\ pc'[u] = "replacing" => doc'[u] \in {"indexed", "deleted"}
          /\ doc'[u] = "indexed" => pc'[u] \in {"replacing", "failing", "done", "dead"}
          /\ pc'[u] = "done" /\ Live(u)' => old'[u] = {}
          /\ u \in userDeleted' => doc'[u] = "deleted"
    BY DEF VersionsAgree, KeepsVersions
  <2>2. \A u \in Upload : \A v \in old'[u] : SameFile(u, v) /\ doc'[v] # "absent"
    BY DEF VersionsAgree, KeepsVersions, TypeOK
  <2>3. \A u, v \in Upload : Live(u)' /\ Live(v)' /\ SameFile(u, v) =>
          u = v \/ u \in old'[v] \/ v \in old'[u]
    BY DEF VersionsAgree, KeepsVersions
  <2>4. QED BY <2>1, <2>2, <2>3 DEF VersionsAgree, SameFile
<1>2. PICK top \in Nat : \E rank \in [Upload -> 0..top] : Ordered(rank)
  BY DEF VersionsOrdered
<1>3. PICK rank \in [Upload -> 0..top] : Ordered(rank)
  BY <1>2
<1>4. Ordered(rank)'
  BY <1>3 DEF Ordered, KeepsVersions, SameFile
<1>5. QED BY <1>1, <1>4 DEF VersionsOrdered

\* A request replaces nothing before it is finalized.
LEMMA RequestKeepsVersions ==
    ASSUME TypeOK, RowsAgree, VersionsAgree, NEW u \in Upload, Request(u), ~Finalize(u), ~FinalizeAckLost(u)
    PROVE  KeepsVersions
<1> USE DEF TypeOK, RowsAgree, VersionsAgree, KeepsVersions, Live, Survives, RowLocked, Owned,
            requestVars, accountVars, storeVars
<1>1. CASE Reserve(u)
  BY <1>1 DEF Reserve
<1>2. CASE WriteTemp(u)
  BY <1>2 DEF WriteTemp
<1>3. CASE RenameTemp(u)
  BY <1>3 DEF RenameTemp
<1>4. CASE RequestFails(u)
  BY <1>4 DEF RequestFails
<1>5. CASE FinalizeRejected(u)
  BY <1>5 DEF FinalizeRejected
<1>6. CASE Abandon(u)
  BY <1>6 DEF Abandon, AbandonReservation
<1>7. CASE Compensate(u)
  BY <1>7 DEF Compensate, FailDocument, Transfer
<1>8. QED BY <1>1, <1>2, <1>3, <1>4, <1>5, <1>6, <1>7 DEF Request

\* A worker replaces nothing in its other steps.
LEMMA WorkerKeepsVersions ==
    ASSUME TypeOK, RowsAgree, VersionsAgree, NEW u \in Upload, Worker(u), ~ReplaceOld(u)
    PROVE  KeepsVersions
<1> USE DEF TypeOK, RowsAgree, VersionsAgree, KeepsVersions, Live, Survives, RowLocked, Owned,
            requestVars, accountVars, storeVars
<1>1. CASE AcquireLock(u)
  BY <1>1 DEF AcquireLock
<1>2. CASE KeepWaiting(u)
  BY <1>2 DEF KeepWaiting, RenewOrLeave
<1>3. CASE BeginWork(u)
  BY <1>3 DEF BeginWork, RenewOrLeave
<1>4. CASE Transcribed(u)
  BY <1>4 DEF Transcribed, RenewOrLeave
<1>5. CASE ExtractProgress(u)
  BY <1>5 DEF ExtractProgress
<1>6. CASE Extracted(u)
  BY <1>6 DEF Extracted, RenewOrLeave
<1>7. CASE WorkFails(u)
  BY <1>7 DEF WorkFails
<1>8. CASE IngestBegin(u)
  BY <1>8 DEF IngestBegin
<1>9. CASE IngestVectors(u)
  BY <1>9 DEF IngestVectors
<1>10. CASE IngestCommit(u)
  BY <1>10 DEF IngestCommit, CommitIngest
<1>11. CASE IngestAckLost(u)
  BY <1>11 DEF IngestAckLost, CommitIngest
<1>12. CASE IngestFails(u)
  BY <1>12 DEF IngestFails
<1>13. CASE WorkerFails(u)
  BY <1>13 DEF WorkerFails, FailDocument, Transfer
<1>14. CASE Finish(u)
  BY <1>14 DEF Finish
<1>15. CASE StepRaises(u)
  BY <1>15 DEF StepRaises
<1>16. QED BY <1>1, <1>2, <1>3, <1>4, <1>5, <1>6, <1>7, <1>8, <1>9, <1>10, <1>11, <1>12, <1>13, <1>14, <1>15 DEF Worker

\* The watchdog replaces nothing.
LEMMA HousekeepingKeepsVersions ==
    ASSUME TypeOK, RowsAgree, VersionsAgree, NEW u \in Upload, Housekeeping(u)
    PROVE  KeepsVersions
<1> USE DEF TypeOK, RowsAgree, VersionsAgree, KeepsVersions, Live, Survives, RowLocked, Owned,
            requestVars, accountVars, storeVars
<1>1. CASE ReservationExpires(u)
  BY <1>1 DEF ReservationExpires
<1>2. CASE LeaseExpires(u)
  BY <1>2 DEF LeaseExpires
<1>3. CASE RecoverReservation(u)
  BY <1>3 DEF RecoverReservation, AbandonReservation
<1>4. CASE RecoverStale(u)
  BY <1>4 DEF RecoverStale, Transfer
<1>5. CASE ReleaseReservationRow(u)
  BY <1>5 DEF ReleaseReservationRow
<1>6. CASE ReleaseDocumentRow(u)
  BY <1>6 DEF ReleaseDocumentRow
<1>7. CASE CleanupDeferred(u)
  BY <1>7 DEF CleanupDeferred
<1>8. QED BY <1>1, <1>2, <1>3, <1>4, <1>5, <1>6, <1>7 DEF Housekeeping

\* A finalized document ranks above all others and will replace the live ones.
LEMMA FinalizedVersion ==
    ASSUME TypeOK, RowsAgree, VersionsAgree, VersionsOrdered,
           NEW x \in Upload, CommitFinalize(x),
           pc' = [pc EXCEPT ![x] = pc'[x]], pc'[x] \in {"queued", "extract", "compensating", "dead"}
    PROVE  VersionsAgree' /\ VersionsOrdered'
<1>1. /\ doc[x] = "absent" /\ doc'[x] = "processing" /\ old'[x] = {v \in LiveDocs : SameFile(x, v)}
      /\ \A u \in Upload \ {x} : doc'[u] = doc[u] /\ old'[u] = old[u] /\ pc'[u] = pc[u]
      /\ UNCHANGED userDeleted
  BY DEF CommitFinalize, TypeOK, RowsAgree
<1>2. x \notin userDeleted /\ \A u \in Upload : x \notin old[u]
  BY <1>1 DEF VersionsAgree
<1>3. \A u \in Upload : Live(u)' => u = x \/ Live(u)
  BY <1>1 DEF Live
<1>4. VersionsAgree'
  <2>1. \A u \in Upload :
          /\ pc'[u] = "replacing" => doc'[u] \in {"indexed", "deleted"}
          /\ doc'[u] = "indexed" => pc'[u] \in {"replacing", "failing", "done", "dead"}
          /\ pc'[u] = "done" /\ Live(u)' => old'[u] = {}
          /\ u \in userDeleted' => doc'[u] = "deleted"
    BY <1>1, <1>2 DEF VersionsAgree, Live
  <2>2. \A u \in Upload : \A v \in old'[u] : SameFile(u, v) /\ doc'[v] # "absent"
    BY <1>1, <1>2 DEF VersionsAgree, LiveDocs, TypeOK
  <2>3. \A u, v \in Upload : Live(u)' /\ Live(v)' /\ SameFile(u, v) =>
          u = v \/ u \in old'[v] \/ v \in old'[u]
    BY <1>1, <1>3 DEF VersionsAgree, LiveDocs, Live, SameFile
  <2>4. QED BY <2>1, <2>2, <2>3 DEF VersionsAgree, SameFile
<1>5. PICK top \in Nat : \E rank \in [Upload -> 0..top] : Ordered(rank)
  BY DEF VersionsOrdered
<1>6. PICK rank \in [Upload -> 0..top] : Ordered(rank)
  BY <1>5
<1> DEFINE above == [rank EXCEPT ![x] = top + 1]
<1>7. /\ above \in [Upload -> 0..(top + 1)] /\ above[x] = top + 1
      /\ \A u \in Upload \ {x} : above[u] = rank[u]
      /\ \A u \in Upload : rank[u] \in 0..top
  OBVIOUS
<1>8. \A u \in Upload : \A v \in old'[u] : above[v] < above[u]
  <2> TAKE u \in Upload
  <2> TAKE v \in old'[u]
  <2>1. v \in Upload /\ v # x
    BY <1>1, <1>2 DEF LiveDocs, TypeOK
  <2>2. CASE u = x
    BY <1>7, <2>1, <2>2
  <2>3. CASE u # x
    BY <1>1, <1>6, <1>7, <2>1, <2>3 DEF Ordered
  <2>4. QED BY <2>2, <2>3
<1>9. \A v \in Upload : doc'[v] = "deleted" /\ v \notin userDeleted' =>
         \E u \in Upload : SameFile(u, v) /\ above[v] < above[u] /\ Survives(u)'
  <2> TAKE v \in Upload
  <2> HAVE doc'[v] = "deleted" /\ v \notin userDeleted'
  <2>1. v # x /\ doc[v] = "deleted" /\ v \notin userDeleted
    BY <1>1
  <2>2. PICK u \in Upload : SameFile(u, v) /\ rank[v] < rank[u] /\ Survives(u)
    BY <1>6, <2>1 DEF Ordered
  <2>3. u # x
    BY <1>1, <1>2, <2>2 DEF Survives
  <2>4. Survives(u)' /\ above[v] < above[u]
    BY <1>1, <1>7, <2>1, <2>2, <2>3 DEF Survives
  <2>5. QED BY <2>2, <2>4
<1>10. Ordered(above)'
  BY <1>8, <1>9 DEF Ordered, SameFile
<1>11. VersionsOrdered'
  <2>1. top + 1 \in Nat
    OBVIOUS
  <2> HIDE DEF above
  <2>2. QED BY <1>7, <1>10, <2>1 DEF VersionsOrdered
<1>12. QED BY <1>4, <1>11

\* A document a user deletes survives as the reason why nothing older is left.
LEMMA UserDeletedVersion ==
    ASSUME TypeOK, VersionsAgree, VersionsOrdered, NEW x \in Upload, UserDelete(x)
    PROVE  VersionsAgree' /\ VersionsOrdered'
<1>1. /\ doc[x] # "absent" /\ doc' = [doc EXCEPT ![x] = "deleted"]
      /\ userDeleted' = userDeleted \cup {x} /\ UNCHANGED <<pc, old>>
  BY DEF UserDelete, DeleteDocument, Transfer, requestVars
<1>2. doc'[x] = "deleted" /\ \A u \in Upload \ {x} : doc'[u] = doc[u]
  BY <1>1 DEF TypeOK
<1>3. \A u \in Upload : Survives(u) => Survives(u)'
  BY <1>1, <1>2 DEF Survives
<1>4. VersionsAgree'
  <2>1. \A u \in Upload :
          /\ pc'[u] = "replacing" => doc'[u] \in {"indexed", "deleted"}
          /\ doc'[u] = "indexed" => pc'[u] \in {"replacing", "failing", "done", "dead"}
          /\ pc'[u] = "done" /\ Live(u)' => old'[u] = {}
          /\ u \in userDeleted' => doc'[u] = "deleted"
    BY <1>1, <1>2 DEF VersionsAgree, Live
  <2>2. \A u \in Upload : \A v \in old'[u] : SameFile(u, v) /\ doc'[v] # "absent"
    BY <1>1, <1>2 DEF VersionsAgree, TypeOK
  <2>3. \A u, v \in Upload : Live(u)' /\ Live(v)' /\ SameFile(u, v) =>
          u = v \/ u \in old'[v] \/ v \in old'[u]
    BY <1>1, <1>2 DEF VersionsAgree, Live
  <2>4. QED BY <2>1, <2>2, <2>3 DEF VersionsAgree, SameFile
<1>5. PICK top \in Nat : \E rank \in [Upload -> 0..top] : Ordered(rank)
  BY DEF VersionsOrdered
<1>6. PICK rank \in [Upload -> 0..top] : Ordered(rank)
  BY <1>5
<1>7. Ordered(rank)'
  BY <1>1, <1>2, <1>3, <1>6 DEF Ordered, SameFile
<1>8. QED BY <1>4, <1>7 DEF VersionsOrdered

\* A worker deletes a version when its own, a higher one, survives or was itself
\* replaced by a higher one that does.
LEMMA ReplacedVersion ==
    ASSUME TypeOK, VersionsAgree, VersionsOrdered, NEW x \in Upload, ReplaceOld(x)
    PROVE  VersionsAgree' /\ VersionsOrdered'
<1>1. PICK v \in old[x] : DeleteDocument(v) /\ old' = [old EXCEPT ![x] = @ \ {v}]
  BY DEF ReplaceOld
<1>2. v \in Upload /\ SameFile(x, v) /\ doc[v] # "absent" /\ pc[x] = "replacing"
  BY DEF ReplaceOld, TypeOK, VersionsAgree
<1>3. /\ doc'[v] = "deleted" /\ \A u \in Upload \ {v} : doc'[u] = doc[u]
      /\ UNCHANGED <<pc, userDeleted>>
      /\ old'[x] = old[x] \ {v} /\ \A u \in Upload \ {x} : old'[u] = old[u]
  BY <1>1, <1>2 DEF ReplaceOld, DeleteDocument, Transfer, TypeOK, accountVars
<1>4. VersionsAgree'
  <2>1. \A u \in Upload :
          /\ pc'[u] = "replacing" => doc'[u] \in {"indexed", "deleted"}
          /\ doc'[u] = "indexed" => pc'[u] \in {"replacing", "failing", "done", "dead"}
          /\ pc'[u] = "done" /\ Live(u)' => old'[u] = {}
          /\ u \in userDeleted' => doc'[u] = "deleted"
    BY <1>2, <1>3 DEF VersionsAgree, Live
  <2>2. \A u \in Upload : \A w \in old'[u] : SameFile(u, w) /\ doc'[w] # "absent"
    BY <1>3 DEF VersionsAgree, TypeOK
  <2>3. \A u, w \in Upload : Live(u)' /\ Live(w)' /\ SameFile(u, w) =>
          u = w \/ u \in old'[w] \/ w \in old'[u]
    BY <1>3 DEF VersionsAgree, Live
  <2>4. QED BY <2>1, <2>2, <2>3 DEF VersionsAgree, SameFile
<1>5. PICK top \in Nat : \E rank \in [Upload -> 0..top] : Ordered(rank)
  BY DEF VersionsOrdered
<1>6. PICK rank \in [Upload -> 0..top] : Ordered(rank)
  BY <1>5
<1>7. /\ rank[v] < rank[x] /\ v # x
      /\ \A u \in Upload : rank[u] \in Nat
  BY <1>2, <1>6 DEF Ordered
<1>8. \A u \in Upload \ {v} : Survives(u) => Survives(u)'
  BY <1>3 DEF Survives
<1>9. PICK y \in Upload : SameFile(y, v) /\ rank[v] < rank[y] /\ Survives(y)'
  <2>1. CASE Survives(x)
    BY <1>2, <1>7, <1>8, <2>1
  <2>2. CASE ~Survives(x)
    <3>1. doc[x] = "deleted" /\ x \notin userDeleted
      BY <1>2, <2>2 DEF Survives, VersionsAgree
    <3>2. PICK z \in Upload : SameFile(z, x) /\ rank[x] < rank[z] /\ Survives(z)
      BY <1>6, <3>1 DEF Ordered
    <3>3. rank[v] < rank[z] /\ z # v
      BY <1>2, <1>7, <3>2
    <3>4. QED BY <1>2, <1>8, <3>2, <3>3 DEF SameFile
  <2>3. QED BY <2>1, <2>2
<1>10. \A t \in Upload : doc'[t] = "deleted" /\ t \notin userDeleted' =>
          \E u \in Upload : SameFile(u, t) /\ rank[t] < rank[u] /\ Survives(u)'
  <2> TAKE t \in Upload
  <2> HAVE doc'[t] = "deleted" /\ t \notin userDeleted'
  <2>1. CASE t = v
    BY <1>9, <2>1
  <2>2. CASE t # v
    <3>1. PICK u \in Upload : SameFile(u, t) /\ rank[t] < rank[u] /\ Survives(u)
      BY <1>3, <1>6, <2>2 DEF Ordered
    <3>2. CASE u = v
      <4>1. SameFile(y, t) /\ rank[t] < rank[y]
        BY <1>7, <1>9, <3>1, <3>2 DEF SameFile
      <4>2. QED BY <1>9, <4>1
    <3>3. CASE u # v
      BY <1>8, <3>1, <3>3
    <3>4. QED BY <3>2, <3>3
  <2>3. QED BY <2>1, <2>2
<1>11. \A u \in Upload : \A w \in old'[u] : rank[w] < rank[u]
  BY <1>3, <1>6 DEF Ordered
<1>12. Ordered(rank)'
  BY <1>10, <1>11 DEF Ordered, SameFile
<1>13. QED BY <1>4, <1>12 DEF VersionsOrdered

-----------------------------------------------------------------------------
\* Both invariants hold in every state, whatever crashes and however slow requests are.
THEOREM VersionsAlwaysOrdered == Spec => [](VersionsAgree /\ VersionsOrdered)
<1>1. Init => VersionsAgree /\ VersionsOrdered
  <2>1. SUFFICES ASSUME Init PROVE VersionsAgree /\ VersionsOrdered
    OBVIOUS
  <2>2. VersionsAgree
    BY <2>1 DEF Init, VersionsAgree, Live
  <2>3. Ordered([u \in Upload |-> 0])
    BY <2>1 DEF Init, Ordered
  <2>4. [u \in Upload |-> 0] \in [Upload -> 0..0]
    OBVIOUS
  <2>5. QED BY <2>2, <2>3, <2>4 DEF VersionsOrdered
<1>2. TypeOK /\ RowsAgree /\ VersionsAgree /\ VersionsOrdered /\ [Next]_vars
         => VersionsAgree' /\ VersionsOrdered'
  <2> SUFFICES ASSUME TypeOK, RowsAgree, VersionsAgree, VersionsOrdered, [Next]_vars
               PROVE  VersionsAgree' /\ VersionsOrdered'
    OBVIOUS
  <2>1. ASSUME NEW u \in Upload, Finalize(u) \/ FinalizeAckLost(u)
        PROVE  VersionsAgree' /\ VersionsOrdered'
    <3>1. /\ CommitFinalize(u) /\ pc' = [pc EXCEPT ![u] = pc'[u]]
          /\ pc'[u] \in {"queued", "extract", "compensating", "dead"}
      BY <2>1 DEF Finalize, FinalizeAckLost, TypeOK
    <3>2. QED BY <3>1, FinalizedVersion
  <2>2. ASSUME NEW u \in Upload, ReplaceOld(u) \/ UserDelete(u)
        PROVE  VersionsAgree' /\ VersionsOrdered'
    BY <2>2, ReplacedVersion, UserDeletedVersion
  <2>3. ASSUME NEW u \in Upload, Request(u) \/ Worker(u) \/ Housekeeping(u),
               ~Finalize(u), ~FinalizeAckLost(u), ~ReplaceOld(u)
        PROVE  VersionsAgree' /\ VersionsOrdered'
    BY <2>3, RequestKeepsVersions, WorkerKeepsVersions, HousekeepingKeepsVersions, KeptVersions
  <2>4. CASE Crash \/ UNCHANGED vars
    <3>1. KeepsVersions
      <4>1. CASE Crash
        BY <4>1 DEF Crash, KeepsVersions, Survives, Live, VersionsAgree, TypeOK, accountVars, storeVars
      <4>2. CASE UNCHANGED vars
        BY <4>2 DEF vars, KeepsVersions, Survives, Live, VersionsAgree, requestVars, accountVars
      <4>3. QED BY <2>4, <4>1, <4>2
    <3>2. QED BY <3>1, KeptVersions
  <2>5. QED BY <2>1, <2>2, <2>3, <2>4 DEF Next
<1>3. QED BY <1>1, <1>2, TypeCorrect, RowsAgreeAlways, PTL DEF Spec

\* Replacement never leaves a file without a version: unless a user deleted the last one,
\* an indexed one is left, for any number of uploads that replace one another.
THEOREM NoVersionIsLost == Spec => []NoVersionLost
<1>1. VersionsOrdered => NoVersionLost
  <2>1. SUFFICES ASSUME VersionsOrdered PROVE NoVersionLost
    OBVIOUS
  <2>2. PICK top \in Nat : \E rank \in [Upload -> 0..top] : Ordered(rank)
    BY <2>1 DEF VersionsOrdered
  <2>3. PICK rank \in [Upload -> 0..top] : Ordered(rank)
    BY <2>2
  <2>4. QED BY <2>3 DEF Ordered, Survives, NoVersionLost
<1>2. QED BY <1>1, VersionsAlwaysOrdered, PTL

\* When every upload ran to its end, one version of each file is left, in whatever order
\* the uploads of it were finalized and processed.
THEOREM VersionsAlwaysConverge == Spec => []VersionsConverge
<1>1. RowsAgree /\ VersionsAgree => VersionsConverge
  BY DEF RowsAgree, VersionsAgree, VersionsConverge, LiveDocs, Live
<1>2. QED BY <1>1, VersionsAlwaysOrdered, RowsAgreeAlways, PTL

=============================================================================
