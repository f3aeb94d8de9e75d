------------------------ MODULE DocumentUploadProofs ------------------------
(* Theorems about DocumentUpload, for every set of uploads and every limit. *)
EXTENDS DocumentUpload, FiniteSetTheorems, TLAPS

-----------------------------------------------------------------------------
(* Type correctness.                                                       *)

\* Each step of a request keeps the types.
LEMMA RequestTypes ==
    ASSUME TypeOK, NEW u \in Upload, Request(u)
    PROVE  TypeOK'
<1> USE UploadAssumption, LimitAssumption
<1> USE DEF TypeOK, PC, requestVars, accountVars, storeVars
<1>1. CASE Reserve(u)
  BY <1>1 DEF Reserve
<1>2. CASE WriteTemp(u)
  BY <1>2 DEF WriteTemp
<1>3. CASE RenameTemp(u)
  BY <1>3 DEF RenameTemp
<1>4. CASE RequestFails(u)
  BY <1>4 DEF RequestFails
<1>5. CASE Finalize(u)
  BY <1>5 DEF Finalize, CommitFinalize, LiveDocs
<1>6. CASE FinalizeRejected(u)
  BY <1>6 DEF FinalizeRejected
<1>7. CASE FinalizeAckLost(u)
  BY <1>7 DEF FinalizeAckLost, CommitFinalize, LiveDocs
<1>8. CASE Abandon(u)
  BY <1>8 DEF Abandon, AbandonReservation, ReservationPath
<1>9. CASE Compensate(u)
  BY <1>9 DEF Compensate, FailDocument, Transfer, CleanupRow
<1>10. QED BY <1>1, <1>2, <1>3, <1>4, <1>5, <1>6, <1>7, <1>8, <1>9 DEF Request

\* Each step of a worker keeps the types.
LEMMA WorkerTypes ==
    ASSUME TypeOK, NEW u \in Upload, Worker(u)
    PROVE  TypeOK'
<1> USE UploadAssumption, LimitAssumption
<1> USE DEF TypeOK, PC, requestVars, accountVars, storeVars
<1>1. CASE AcquireLock(u)
  BY <1>1 DEF AcquireLock
<1>2. CASE KeepWaiting(u)
  BY <1>2 DEF KeepWaiting, RenewOrLeave
<1>3. CASE BeginWork(u)
  BY <1>3 DEF BeginWork, RenewOrLeave
<1>4. CASE Transcribed(u)
  BY <1>4 DEF Transcribed, RenewOrLeave
<1>5. CASE ExtractProgress(u)
  BY <1>5 DEF ExtractProgress
<1>6. CASE Extracted(u)
  BY <1>6 DEF Extracted, RenewOrLeave
<1>7. CASE WorkFails(u)
  BY <1>7 DEF WorkFails
<1>8. CASE IngestBegin(u)
  BY <1>8 DEF IngestBegin
<1>9. CASE IngestVectors(u)
  BY <1>9 DEF IngestVectors
<1>10. CASE IngestCommit(u)
  BY <1>10 DEF IngestCommit, CommitIngest
<1>11. CASE IngestAckLost(u)
  BY <1>11 DEF IngestAckLost, CommitIngest
<1>12. CASE IngestFails(u)
  BY <1>12 DEF IngestFails
<1>13. CASE WorkerFails(u)
  BY <1>13 DEF WorkerFails, FailDocument, Transfer, CleanupRow
<1>14. CASE ReplaceOld(u)
  BY <1>14 DEF ReplaceOld, DeleteDocument, Transfer, CleanupRow
<1>15. CASE Finish(u)
  BY <1>15 DEF Finish
<1>16. CASE StepRaises(u)
  BY <1>16 DEF StepRaises
<1>17. QED BY <1>1, <1>2, <1>3, <1>4, <1>5, <1>6, <1>7, <1>8, <1>9, <1>10, <1>11, <1>12, <1>13, <1>14, <1>15, <1>16 DEF Worker

\* Each step of the watchdog keeps the types.
LEMMA HousekeepingTypes ==
    ASSUME TypeOK, NEW u \in Upload, Housekeeping(u)
    PROVE  TypeOK'
<1> USE UploadAssumption, LimitAssumption
<1> USE DEF TypeOK, PC, requestVars, accountVars, storeVars
<1>1. CASE ReservationExpires(u)
  BY <1>1 DEF ReservationExpires
<1>2. CASE LeaseExpires(u)
  BY <1>2 DEF LeaseExpires
<1>3. CASE RecoverReservation(u)
  BY <1>3 DEF RecoverReservation, AbandonReservation, ReservationPath
<1>4. CASE RecoverStale(u)
  BY <1>4 DEF RecoverStale, Transfer, CleanupRow
<1>5. CASE ReleaseReservationRow(u)
  BY <1>5 DEF ReleaseReservationRow
<1>6. CASE ReleaseDocumentRow(u)
  BY <1>6 DEF ReleaseDocumentRow
<1>7. CASE CleanupDeferred(u)
  BY <1>7 DEF CleanupDeferred
<1>8. QED BY <1>1, <1>2, <1>3, <1>4, <1>5, <1>6, <1>7 DEF Housekeeping

\* The variables of the upload code always hold values of their types.
THEOREM TypeCorrect == Spec => []TypeOK
<1>1. Init => TypeOK
  BY LimitAssumption DEF Init, TypeOK, PC
<1>2. TypeOK /\ [Next]_vars => TypeOK'
  <2> SUFFICES ASSUME TypeOK, [Next]_vars PROVE TypeOK'
    OBVIOUS
  <2>1. CASE \E u \in Upload : Request(u) \/ Worker(u) \/ Housekeeping(u)
    BY <2>1, RequestTypes, WorkerTypes, HousekeepingTypes
  <2>2. ASSUME NEW u \in Upload, UserDelete(u) PROVE TypeOK'
    BY <2>2 DEF TypeOK, UserDelete, DeleteDocument, Transfer, CleanupRow,
                requestVars, accountVars, storeVars
  <2>3. CASE Crash
    BY <2>3, LimitAssumption DEF TypeOK, PC, Crash, accountVars, storeVars
  <2>4. CASE UNCHANGED vars
    BY <2>4 DEF TypeOK, vars, requestVars, accountVars, storeVars
  <2>5. QED BY <2>1, <2>2, <2>3, <2>4 DEF Next
<1>3. QED BY <1>1, <1>2, PTL DEF Spec

-----------------------------------------------------------------------------
(* An upload is in one table at a time.                                    *)

\* Each step of a request preserves RowsAgree.
LEMMA RequestRows ==
    ASSUME TypeOK, RowsAgree, NEW u \in Upload, Request(u)
    PROVE  RowsAgree'
<1> USE DEF TypeOK, RowsAgree, RowLocked, Owned, requestVars, accountVars, storeVars
<1>1. CASE Reserve(u)
  BY <1>1 DEF Reserve
<1>2. CASE WriteTemp(u)
  BY <1>2 DEF WriteTemp
<1>3. CASE RenameTemp(u)
  BY <1>3 DEF RenameTemp
<1>4. CASE RequestFails(u)
  BY <1>4 DEF RequestFails
<1>5. CASE Finalize(u)
  BY <1>5 DEF Finalize, CommitFinalize, LiveDocs
<1>6. CASE FinalizeRejected(u)
  BY <1>6 DEF FinalizeRejected
<1>7. CASE FinalizeAckLost(u)
  BY <1>7 DEF FinalizeAckLost, CommitFinalize, LiveDocs
<1>8. CASE Abandon(u)
  BY <1>8 DEF Abandon, AbandonReservation, ReservationPath
<1>9. CASE Compensate(u)
  BY <1>9 DEF Compensate, FailDocument, Transfer, CleanupRow
<1>10. QED BY <1>1, <1>2, <1>3, <1>4, <1>5, <1>6, <1>7, <1>8, <1>9 DEF Request

\* Each step of a worker preserves RowsAgree.
LEMMA WorkerRows ==
    ASSUME TypeOK, RowsAgree, NEW u \in Upload, Worker(u)
    PROVE  RowsAgree'
<1> USE DEF TypeOK, RowsAgree, RowLocked, Owned, requestVars, accountVars, storeVars
<1>1. CASE AcquireLock(u)
  BY <1>1 DEF AcquireLock
<1>2. CASE KeepWaiting(u)
  BY <1>2 DEF KeepWaiting, RenewOrLeave
<1>3. CASE BeginWork(u)
  BY <1>3 DEF BeginWork, RenewOrLeave
<1>4. CASE Transcribed(u)
  BY <1>4 DEF Transcribed, RenewOrLeave
<1>5. CASE ExtractProgress(u)
  BY <1>5 DEF ExtractProgress
<1>6. CASE Extracted(u)
  BY <1>6 DEF Extracted, RenewOrLeave
<1>7. CASE WorkFails(u)
  BY <1>7 DEF WorkFails
<1>8. CASE IngestBegin(u)
  BY <1>8 DEF IngestBegin
<1>9. CASE IngestVectors(u)
  BY <1>9 DEF IngestVectors
<1>10. CASE IngestCommit(u)
  BY <1>10 DEF IngestCommit, CommitIngest
<1>11. CASE IngestAckLost(u)
  BY <1>11 DEF IngestAckLost, CommitIngest
<1>12. CASE IngestFails(u)
  BY <1>12 DEF IngestFails
<1>13. CASE WorkerFails(u)
  BY <1>13 DEF WorkerFails, FailDocument, Transfer, CleanupRow
<1>14. CASE ReplaceOld(u)
  BY <1>14 DEF ReplaceOld, DeleteDocument, Transfer, CleanupRow
<1>15. CASE Finish(u)
  BY <1>15 DEF Finish
<1>16. CASE StepRaises(u)
  BY <1>16 DEF StepRaises
<1>17. QED BY <1>1, <1>2, <1>3, <1>4, <1>5, <1>6, <1>7, <1>8, <1>9, <1>10, <1>11, <1>12, <1>13, <1>14, <1>15, <1>16 DEF Worker

\* Each step of the watchdog preserves RowsAgree.
LEMMA HousekeepingRows ==
    ASSUME TypeOK, RowsAgree, NEW u \in Upload, Housekeeping(u)
    PROVE  RowsAgree'
<1> USE DEF TypeOK, RowsAgree, RowLocked, Owned, requestVars, accountVars, storeVars
<1>1. CASE ReservationExpires(u)
  BY <1>1 DEF ReservationExpires
<1>2. CASE LeaseExpires(u)
  BY <1>2 DEF LeaseExpires
<1>3. CASE RecoverReservation(u)
  BY <1>3 DEF RecoverReservation, AbandonReservation, ReservationPath
<1>4. CASE RecoverStale(u)
  BY <1>4 DEF RecoverStale, Transfer, CleanupRow
<1>5. CASE ReleaseReservationRow(u)
  BY <1>5 DEF ReleaseReservationRow
<1>6. CASE ReleaseDocumentRow(u)
  BY <1>6 DEF ReleaseDocumentRow
<1>7. CASE CleanupDeferred(u)
  BY <1>7 DEF CleanupDeferred
<1>8. QED BY <1>1, <1>2, <1>3, <1>4, <1>5, <1>6, <1>7 DEF Housekeeping

\* An upload is never in two tables, and the row it has agrees with where its
\* request or worker stands, whatever crashes, expires or is deleted between.
THEOREM RowsAgreeAlways == Spec => []RowsAgree
<1>1. Init => RowsAgree
  BY DEF Init, RowsAgree, RowLocked
<1>2. TypeOK /\ RowsAgree /\ [Next]_vars => RowsAgree'
  <2> SUFFICES ASSUME TypeOK, RowsAgree, [Next]_vars PROVE RowsAgree'
    OBVIOUS
  <2>1. CASE \E u \in Upload : Request(u) \/ Worker(u) \/ Housekeeping(u)
    BY <2>1, RequestRows, WorkerRows, HousekeepingRows
  <2>2. ASSUME NEW u \in Upload, UserDelete(u) PROVE RowsAgree'
    BY <2>2 DEF TypeOK, RowsAgree, RowLocked, UserDelete, DeleteDocument,
                Transfer, CleanupRow, requestVars, accountVars, storeVars
  <2>3. CASE Crash
    BY <2>3 DEF TypeOK, RowsAgree, RowLocked, Crash, accountVars, storeVars
  <2>4. CASE UNCHANGED vars
    BY <2>4 DEF RowsAgree, RowLocked, vars, requestVars, accountVars, storeVars
  <2>5. QED BY <2>1, <2>2, <2>3, <2>4 DEF Next
<1>3. QED BY <1>1, <1>2, TypeCorrect, PTL DEF Spec

-----------------------------------------------------------------------------
(* Where the content is, when requests finish within their reservation.    *)

\* Each step of a request preserves ContentAgrees.
LEMMA RequestContent ==
    ASSUME TypeOK, RowsAgree, ContentAgrees, ~SlowRequests, NEW u \in Upload, Request(u)
    PROVE  ContentAgrees'
<1> USE DEF TypeOK, RowsAgree, ContentAgrees, LiveDocs, RowLocked, Owned, Physical, Running, requestVars, accountVars, storeVars
<1>1. CASE Reserve(u)
  BY <1>1, UploadAssumption DEF Reserve
<1>2. CASE WriteTemp(u)
  BY <1>2, UploadAssumption DEF WriteTemp
<1>3. CASE RenameTemp(u)
  BY <1>3, UploadAssumption DEF RenameTemp
<1>4. CASE RequestFails(u)
  BY <1>4, UploadAssumption DEF RequestFails
<1>5. CASE Finalize(u)
  BY <1>5, UploadAssumption DEF Finalize, CommitFinalize, LiveDocs
<1>6. CASE FinalizeRejected(u)
  BY <1>6, UploadAssumption DEF FinalizeRejected
<1>7. CASE FinalizeAckLost(u)
  BY <1>7, UploadAssumption DEF FinalizeAckLost, CommitFinalize, LiveDocs
<1>8. CASE Abandon(u)
  BY <1>8, UploadAssumption DEF Abandon, AbandonReservation, ReservationPath
<1>9. CASE Compensate(u)
  BY <1>9, UploadAssumption DEF Compensate, FailDocument, Transfer, CleanupRow
<1>10. QED BY <1>1, <1>2, <1>3, <1>4, <1>5, <1>6, <1>7, <1>8, <1>9 DEF Request

\* Each step of a worker preserves ContentAgrees.
LEMMA WorkerContent ==
    ASSUME TypeOK, RowsAgree, ContentAgrees, ~SlowRequests, NEW u \in Upload, Worker(u)
    PROVE  ContentAgrees'
<1> USE DEF TypeOK, RowsAgree, ContentAgrees, LiveDocs, RowLocked, Owned, Physical, Running, requestVars, accountVars, storeVars
<1>1. CASE AcquireLock(u)
  BY <1>1, UploadAssumption DEF AcquireLock
<1>2. CASE KeepWaiting(u)
  BY <1>2, UploadAssumption DEF KeepWaiting, RenewOrLeave
<1>3. CASE BeginWork(u)
  BY <1>3, UploadAssumption DEF BeginWork, RenewOrLeave
<1>4. CASE Transcribed(u)
  BY <1>4, UploadAssumption DEF Transcribed, RenewOrLeave
<1>5. CASE ExtractProgress(u)
  BY <1>5, UploadAssumption DEF ExtractProgress
<1>6. CASE Extracted(u)
  BY <1>6, UploadAssumption DEF Extracted, RenewOrLeave
<1>7. CASE WorkFails(u)
  BY <1>7, UploadAssumption DEF WorkFails
<1>8. CASE IngestBegin(u)
  BY <1>8, UploadAssumption DEF IngestBegin
<1>9. CASE IngestVectors(u)
  BY <1>9, UploadAssumption DEF IngestVectors
<1>10. CASE IngestCommit(u)
  BY <1>10, UploadAssumption DEF IngestCommit, CommitIngest
<1>11. CASE IngestAckLost(u)
  BY <1>11, UploadAssumption DEF IngestAckLost, CommitIngest
<1>12. CASE IngestFails(u)
  BY <1>12, UploadAssumption DEF IngestFails
<1>13. CASE WorkerFails(u)
  BY <1>13, UploadAssumption DEF WorkerFails, FailDocument, Transfer, CleanupRow
<1>14. CASE ReplaceOld(u)
  BY <1>14, UploadAssumption DEF ReplaceOld, DeleteDocument, Transfer, CleanupRow
<1>15. CASE Finish(u)
  BY <1>15, UploadAssumption DEF Finish
<1>16. CASE StepRaises(u)
  BY <1>16, UploadAssumption DEF StepRaises
<1>17. QED BY <1>1, <1>2, <1>3, <1>4, <1>5, <1>6, <1>7, <1>8, <1>9, <1>10, <1>11, <1>12, <1>13, <1>14, <1>15, <1>16 DEF Worker

\* Each step of the watchdog preserves ContentAgrees.
LEMMA HousekeepingContent ==
    ASSUME TypeOK, RowsAgree, ContentAgrees, ~SlowRequests, NEW u \in Upload, Housekeeping(u)
    PROVE  ContentAgrees'
<1> USE DEF TypeOK, RowsAgree, ContentAgrees, LiveDocs, RowLocked, Owned, Physical, Running, requestVars, accountVars, storeVars
<1>1. CASE ReservationExpires(u)
  BY <1>1, UploadAssumption DEF ReservationExpires
<1>2. CASE LeaseExpires(u)
  BY <1>2, UploadAssumption DEF LeaseExpires
<1>3. CASE RecoverReservation(u)
  BY <1>3, UploadAssumption DEF RecoverReservation, AbandonReservation, ReservationPath
<1>4. CASE RecoverStale(u)
  BY <1>4, UploadAssumption DEF RecoverStale, Transfer, CleanupRow
<1>5. CASE ReleaseReservationRow(u)
  BY <1>5, UploadAssumption DEF ReleaseReservationRow
<1>6. CASE ReleaseDocumentRow(u)
  BY <1>6, UploadAssumption DEF ReleaseDocumentRow
<1>7. CASE CleanupDeferred(u)
  BY <1>7, UploadAssumption DEF CleanupDeferred
<1>8. QED BY <1>1, <1>2, <1>3, <1>4, <1>5, <1>6, <1>7 DEF Housekeeping

\* At every moment each file, vector and memory row is where the step of its
\* request, worker or cleanup row says, if no request outlives its reservation.
THEOREM ContentAgreesAlways ==
    ASSUME ~SlowRequests
    PROVE  Spec => []ContentAgrees
<1>1. Init => ContentAgrees
  BY DEF Init, ContentAgrees, LiveDocs
<1>2. TypeOK /\ RowsAgree /\ ContentAgrees /\ [Next]_vars => ContentAgrees'
  <2> SUFFICES ASSUME TypeOK, RowsAgree, ContentAgrees, [Next]_vars
               PROVE  ContentAgrees'
    OBVIOUS
  <2>1. CASE \E u \in Upload : Request(u) \/ Worker(u) \/ Housekeeping(u)
    BY <2>1, RequestContent, WorkerContent, HousekeepingContent
  <2>2. ASSUME NEW u \in Upload, UserDelete(u) PROVE ContentAgrees'
    BY <2>2, UploadAssumption
    DEF TypeOK, RowsAgree, ContentAgrees, LiveDocs, RowLocked, Physical,
        UserDelete, DeleteDocument, Transfer, CleanupRow,
        requestVars, accountVars, storeVars
  <2>3. CASE Crash
    BY <2>3 DEF TypeOK, RowsAgree, ContentAgrees, LiveDocs, Crash,
                accountVars, storeVars
  <2>4. CASE UNCHANGED vars
    BY <2>4 DEF ContentAgrees, LiveDocs, vars, requestVars, accountVars, storeVars
  <2>5. QED BY <2>1, <2>2, <2>3, <2>4 DEF Next
<1>3. QED BY <1>1, <1>2, TypeCorrect, RowsAgreeAlways, PTL DEF Spec

\* No crash, failed write or failed cleanup strands a file.
THEOREM FilesAreOwned ==
    ASSUME ~SlowRequests
    PROVE  Spec => []EveryFileOwned
<1>1. ContentAgrees => EveryFileOwned
  BY DEF ContentAgrees, EveryFileOwned
<1>2. QED BY <1>1, ContentAgreesAlways, PTL

\* No worker leaves vectors or memory rows of a failed or deleted document.
THEOREM IndexDataIsOwned ==
    ASSUME ~SlowRequests
    PROVE  Spec => []NoOrphanIndexData
<1>1. ContentAgrees => NoOrphanIndexData
  BY DEF ContentAgrees, NoOrphanIndexData
<1>2. QED BY <1>1, ContentAgreesAlways, PTL

\* What is shown as indexed is complete on disk, in Chroma and in MySQL.
THEOREM IndexedDocumentsAreComplete ==
    ASSUME ~SlowRequests
    PROVE  Spec => []IndexedIsComplete
<1>1. RowsAgree /\ ContentAgrees => IndexedIsComplete
  BY DEF RowsAgree, ContentAgrees, IndexedIsComplete, LiveDocs
<1>2. QED BY <1>1, RowsAgreeAlways, ContentAgreesAlways, PTL

-----------------------------------------------------------------------------
(* The refinement.                                                         *)

\* The four tables partition what the abstract ledger calls charged.
LEMMA ChargedSets ==
    ASSUME TypeOK, RowsAgree
    PROVE  /\ Ledger!Charged
                = LiveDocs \cup Reservations \cup ResvRows \cup ChargedDocRows
           /\ LiveDocs \cap Reservations = {}
           /\ (LiveDocs \cup Reservations) \cap ResvRows = {}
           /\ (LiveDocs \cup Reservations \cup ResvRows) \cap ChargedDocRows = {}
BY DEF TypeOK, RowsAgree, Ledger!Charged, phaseOf, LiveDocs, Reservations,
       ResvRows, ChargedDocRows

\* So the SUMs of _usage over the tables add up to one sum over the charged.
LEMMA ChargedBytesIsOneSum ==
    ASSUME TypeOK, RowsAgree, NEW S \in SUBSET Upload
    PROVE  ChargedBytes(S) = Bytes(S \cap Ledger!Charged)
<1> DEFINE A == S \cap LiveDocs
           B == S \cap Reservations
           C == S \cap ResvRows
           D == S \cap ChargedDocRows
<1>1. /\ A \in SUBSET Upload /\ B \in SUBSET Upload
      /\ C \in SUBSET Upload /\ D \in SUBSET Upload
  OBVIOUS
<1>2. /\ A \cap B = {} /\ (A \cup B) \cap C = {}
      /\ (A \cup B \cup C) \cap D = {}
  BY ChargedSets
<1>3. Bytes(A \cup B) = Bytes(A) + Bytes(B)
  BY <1>1, <1>2, BytesAssumption
<1>4. Bytes((A \cup B) \cup C) = Bytes(A \cup B) + Bytes(C)
  <2>1. (A \cup B) \in SUBSET Upload
    BY <1>1
  <2>2. QED BY <1>1, <1>2, <2>1, BytesAssumption
<1>5. Bytes((A \cup B \cup C) \cup D) = Bytes(A \cup B \cup C) + Bytes(D)
  <2>1. (A \cup B \cup C) \in SUBSET Upload
    BY <1>1
  <2>2. QED BY <1>1, <1>2, <2>1, BytesAssumption
<1>6. S \cap Ledger!Charged = (A \cup B \cup C) \cup D
  BY ChargedSets
<1>7. Bytes(A) \in Nat /\ Bytes(B) \in Nat /\ Bytes(C) \in Nat /\ Bytes(D) \in Nat
  BY <1>1, BytesAssumption
<1>8. ChargedBytes(S) = Bytes(A) + Bytes(B) + Bytes(C) + Bytes(D)
  BY DEF ChargedBytes
<1>9. QED
  <2> HIDE DEF A, B, C, D
  <2>1. QED BY <1>3, <1>4, <1>5, <1>6, <1>7, <1>8

\* A union has at most as many elements as its parts.
LEMMA UnionBound ==
    ASSUME NEW A, NEW B, IsFiniteSet(A), IsFiniteSet(B)
    PROVE  /\ IsFiniteSet(A \cup B)
           /\ Cardinality(A \cup B) <= Cardinality(A) + Cardinality(B)
<1>1. /\ IsFiniteSet(A \cup B)
      /\ Cardinality(A \cup B) = Cardinality(A) + Cardinality(B) - Cardinality(A \cap B)
  BY FS_Union
<1>2. IsFiniteSet(A \cap B)
  BY FS_Intersection
<1>3. Cardinality(A) \in Nat /\ Cardinality(B) \in Nat /\ Cardinality(A \cap B) \in Nat
  BY <1>2, FS_CardinalityType
<1>4. QED BY <1>1, <1>3

\* The COUNTs of _usage never undercount the charged uploads.
LEMMA ChargedUnitsCover ==
    ASSUME TypeOK, RowsAgree, NEW S \in SUBSET Upload
    PROVE  /\ Cardinality(S \cap Ledger!Charged) \in Nat
           /\ ChargedUnits(S) \in Nat
           /\ Cardinality(S \cap Ledger!Charged) <= ChargedUnits(S)
<1> DEFINE A == S \cap LiveDocs
           B == S \cap Reservations
           C == S \cap ResvRows
           D == S \cap DocRows
<1>1. A \subseteq Upload /\ B \subseteq Upload /\ C \subseteq Upload /\ D \subseteq Upload
  OBVIOUS
<1>2. IsFiniteSet(A) /\ IsFiniteSet(B) /\ IsFiniteSet(C) /\ IsFiniteSet(D)
  BY <1>1, FS_Subset, UploadAssumption
<1>3. S \cap Ledger!Charged \subseteq A \cup B \cup C \cup D
  BY ChargedSets DEF ChargedDocRows, DocRows
<1> HIDE DEF A, B, C, D
<1>4. /\ IsFiniteSet(A \cup B)
      /\ Cardinality(A \cup B) <= Cardinality(A) + Cardinality(B)
  BY <1>2, UnionBound
<1>5. /\ IsFiniteSet(A \cup B \cup C)
      /\ Cardinality(A \cup B \cup C) <= Cardinality(A \cup B) + Cardinality(C)
  BY <1>2, <1>4, UnionBound
<1>6. /\ IsFiniteSet(A \cup B \cup C \cup D)
      /\ Cardinality(A \cup B \cup C \cup D) <= Cardinality(A \cup B \cup C) + Cardinality(D)
  BY <1>2, <1>5, UnionBound
<1>7. /\ IsFiniteSet(S \cap Ledger!Charged)
      /\ Cardinality(S \cap Ledger!Charged) <= Cardinality(A \cup B \cup C \cup D)
  BY <1>3, <1>6, FS_Subset
<1>8. /\ Cardinality(A) \in Nat /\ Cardinality(B) \in Nat
      /\ Cardinality(C) \in Nat /\ Cardinality(D) \in Nat
      /\ Cardinality(A \cup B) \in Nat /\ Cardinality(A \cup B \cup C) \in Nat
      /\ Cardinality(A \cup B \cup C \cup D) \in Nat
      /\ Cardinality(S \cap Ledger!Charged) \in Nat
  BY <1>2, <1>4, <1>5, <1>6, <1>7, FS_CardinalityType
<1>9. ChargedUnits(S) = Cardinality(A) + Cardinality(B) + Cardinality(C) + Cardinality(D)
  BY DEF ChargedUnits, A, B, C, D
<1>10. QED BY <1>4, <1>5, <1>6, <1>7, <1>8, <1>9


\* The abstract step, or none, that a concrete step u makes.
LEMMA AdmitStep ==
    ASSUME TypeOK, RowsAgree, NEW u \in Upload, Reserve(u)
    PROVE  Ledger!Admit(u)
<1>1. phaseOf[u] = "new"
  BY DEF Reserve, RowsAgree, phaseOf, ResvRows, ChargedDocRows
<1>2. phaseOf' = [phaseOf EXCEPT ![u] = "held"]
  BY DEF TypeOK, Reserve, phaseOf, ResvRows, ChargedDocRows, storeVars
<1>3. /\ ProjectUploads(ProjectOf[u]) = Ledger!OfProject(ProjectOf[u])
      /\ UserUploads(UserOf[u]) = Ledger!OfUser(UserOf[u])
  BY DEF ProjectUploads, UserUploads, Ledger!OfProject, Ledger!OfUser
<1>4. /\ Ledger!OfProject(ProjectOf[u]) \in SUBSET Upload
      /\ Ledger!OfUser(UserOf[u]) \in SUBSET Upload
  BY DEF Ledger!OfProject, Ledger!OfUser
<1>5. /\ Bytes(Ledger!OfProject(ProjectOf[u]) \cap Ledger!Charged) + Size[u] <= ProjectLimit
      /\ Bytes(Ledger!OfUser(UserOf[u]) \cap Ledger!Charged) + Size[u] <= UserLimit
  BY <1>3, <1>4, ChargedBytesIsOneSum DEF Reserve
<1>6. Cardinality(Ledger!OfProject(ProjectOf[u]) \cap Ledger!Charged) + 1 <= CountLimit
  BY <1>3, <1>4, ChargedUnitsCover, LimitAssumption DEF Reserve
<1>7. UNCHANGED (temps \cup targets \cup vectors)
  BY DEF Reserve, storeVars
<1>8. QED BY <1>1, <1>2, <1>5, <1>6, <1>7 DEF Ledger!Admit

-----------------------------------------------------------------------------
(* Charges: a step admits one upload or charges nobody new.                *)

\* A request that is not being admitted charges nobody new.
LEMMA RequestCharges ==
    ASSUME TypeOK, RowsAgree, NEW u \in Upload, Request(u), ~Reserve(u)
    PROVE  Ledger!Charged' \subseteq Ledger!Charged
<1> USE DEF TypeOK, RowsAgree, Ledger!Charged, phaseOf, ResvRows, ChargedDocRows,
            RowLocked, Owned, requestVars, accountVars, storeVars
<1>1. CASE WriteTemp(u)
  BY <1>1 DEF WriteTemp
<1>2. CASE RenameTemp(u)
  BY <1>2 DEF RenameTemp
<1>3. CASE RequestFails(u)
  BY <1>3 DEF RequestFails
<1>4. CASE Finalize(u)
  BY <1>4 DEF Finalize, CommitFinalize, LiveDocs
<1>5. CASE FinalizeRejected(u)
  BY <1>5 DEF FinalizeRejected
<1>6. CASE FinalizeAckLost(u)
  BY <1>6 DEF FinalizeAckLost, CommitFinalize, LiveDocs
<1>7. CASE Abandon(u)
  BY <1>7 DEF Abandon, AbandonReservation, ReservationPath
<1>8. CASE Compensate(u)
  BY <1>8 DEF Compensate, FailDocument, Transfer, CleanupRow
<1>9. QED BY <1>1, <1>2, <1>3, <1>4, <1>5, <1>6, <1>7, <1>8 DEF Request

\* A worker charges nobody new.
LEMMA WorkerCharges ==
    ASSUME TypeOK, RowsAgree, NEW u \in Upload, Worker(u)
    PROVE  Ledger!Charged' \subseteq Ledger!Charged
<1> USE DEF TypeOK, RowsAgree, Ledger!Charged, phaseOf, ResvRows, ChargedDocRows,
            RowLocked, Owned, requestVars, accountVars, storeVars
<1>1. CASE AcquireLock(u)
  BY <1>1 DEF AcquireLock
<1>2. CASE KeepWaiting(u)
  BY <1>2 DEF KeepWaiting, RenewOrLeave
<1>3. CASE BeginWork(u)
  BY <1>3 DEF BeginWork, RenewOrLeave
<1>4. CASE Transcribed(u)
  BY <1>4 DEF Transcribed, RenewOrLeave
<1>5. CASE ExtractProgress(u)
  BY <1>5 DEF ExtractProgress
<1>6. CASE Extracted(u)
  BY <1>6 DEF Extracted, RenewOrLeave
<1>7. CASE WorkFails(u)
  BY <1>7 DEF WorkFails
<1>8. CASE IngestBegin(u)
  BY <1>8 DEF IngestBegin
<1>9. CASE IngestVectors(u)
  BY <1>9 DEF IngestVectors
<1>10. CASE IngestCommit(u)
  BY <1>10 DEF IngestCommit, CommitIngest
<1>11. CASE IngestAckLost(u)
  BY <1>11 DEF IngestAckLost, CommitIngest
<1>12. CASE IngestFails(u)
  BY <1>12 DEF IngestFails
<1>13. CASE WorkerFails(u)
  BY <1>13 DEF WorkerFails, FailDocument, Transfer, CleanupRow
<1>14. CASE ReplaceOld(u)
  BY <1>14 DEF ReplaceOld, DeleteDocument, Transfer, CleanupRow
<1>15. CASE Finish(u)
  BY <1>15 DEF Finish
<1>16. CASE StepRaises(u)
  BY <1>16 DEF StepRaises
<1>17. QED BY <1>1, <1>2, <1>3, <1>4, <1>5, <1>6, <1>7, <1>8, <1>9, <1>10, <1>11, <1>12, <1>13, <1>14, <1>15, <1>16 DEF Worker

\* The watchdog charges nobody new.
LEMMA HousekeepingCharges ==
    ASSUME TypeOK, RowsAgree, NEW u \in Upload, Housekeeping(u)
    PROVE  Ledger!Charged' \subseteq Ledger!Charged
<1> USE DEF TypeOK, RowsAgree, Ledger!Charged, phaseOf, ResvRows, ChargedDocRows,
            RowLocked, Owned, requestVars, accountVars, storeVars
<1>1. CASE ReservationExpires(u)
  BY <1>1 DEF ReservationExpires
<1>2. CASE LeaseExpires(u)
  BY <1>2 DEF LeaseExpires
<1>3. CASE RecoverReservation(u)
  BY <1>3 DEF RecoverReservation, AbandonReservation, ReservationPath
<1>4. CASE RecoverStale(u)
  BY <1>4 DEF RecoverStale, Transfer, CleanupRow
<1>5. CASE ReleaseReservationRow(u)
  BY <1>5 DEF ReleaseReservationRow
<1>6. CASE ReleaseDocumentRow(u)
  BY <1>6 DEF ReleaseDocumentRow
<1>7. CASE CleanupDeferred(u)
  BY <1>7 DEF CleanupDeferred
<1>8. QED BY <1>1, <1>2, <1>3, <1>4, <1>5, <1>6, <1>7 DEF Housekeeping

\* A set of uploads holds at least the bytes of its subsets.
LEMMA BytesMonotone ==
    ASSUME NEW T \in SUBSET Upload, NEW S \in SUBSET T
    PROVE  Bytes(S) <= Bytes(T)
<1>1. S \in SUBSET Upload /\ T \ S \in SUBSET Upload /\ S \cap (T \ S) = {}
  OBVIOUS
<1>2. Bytes(S \cup (T \ S)) = Bytes(S) + Bytes(T \ S)
  BY <1>1, BytesAssumption
<1>3. S \cup (T \ S) = T
  OBVIOUS
<1>4. QED BY <1>1, <1>2, <1>3, BytesAssumption

\* Admitting an upload adds its size to the bytes of a set it belongs to.
LEMMA BytesOfAdmitted ==
    ASSUME NEW T \in SUBSET Upload, NEW S \in SUBSET Upload, NEW u \in Upload,
           T \subseteq S \cup {u}
    PROVE  Bytes(T) <= Bytes(S) + Size[u]
<1>1. CASE u \in S
  <2>1. T \in SUBSET S
    BY <1>1
  <2>2. QED BY <2>1, BytesMonotone, BytesAssumption, UploadAssumption
<1>2. CASE u \notin S
  <2>1. Bytes(S \cup {u}) = Bytes(S) + Bytes({u})
    BY <1>2, BytesAssumption
  <2>2. S \cup {u} \in SUBSET Upload /\ T \in SUBSET (S \cup {u})
    OBVIOUS
  <2>3. Bytes(T) <= Bytes(S \cup {u})
    BY <2>2, BytesMonotone
  <2>4. QED BY <2>1, <2>3, BytesAssumption
<1>3. QED BY <1>1, <1>2

\* A set of uploads has at least as many members as its subsets.
LEMMA CountMonotone ==
    ASSUME NEW T \in SUBSET Upload, NEW S \in SUBSET T
    PROVE  /\ Cardinality(S) \in Nat /\ Cardinality(T) \in Nat
           /\ Cardinality(S) <= Cardinality(T)
<1>1. IsFiniteSet(T)
  BY UploadAssumption, FS_Subset
<1>2. IsFiniteSet(S) /\ Cardinality(S) <= Cardinality(T)
  BY <1>1, FS_Subset
<1>3. QED BY <1>1, <1>2, FS_CardinalityType

\* Admitting an upload adds at most one to the count of a set.
LEMMA CountOfAdmitted ==
    ASSUME NEW T \in SUBSET Upload, NEW S \in SUBSET Upload, NEW u \in Upload,
           T \subseteq S \cup {u}
    PROVE  Cardinality(T) <= Cardinality(S) + 1
<1>1. IsFiniteSet(S) /\ Cardinality(S) \in Nat
  BY UploadAssumption, FS_Subset, FS_CardinalityType
<1>2. Cardinality(S \cup {u}) = IF u \in S THEN Cardinality(S) ELSE Cardinality(S) + 1
  BY <1>1, FS_AddElement
<1>3. S \cup {u} \in SUBSET Upload /\ T \in SUBSET (S \cup {u})
  OBVIOUS
<1>4. /\ Cardinality(T) \in Nat /\ Cardinality(S \cup {u}) \in Nat
      /\ Cardinality(T) <= Cardinality(S \cup {u})
  BY <1>3, CountMonotone
<1>5. QED BY <1>1, <1>2, <1>4

\* The inductive form of the quota: bounds on one set per project and user.
ChargedWithinLimits ==
    /\ \A p \in Project :
          /\ Bytes(ProjectUploads(p) \cap Ledger!Charged) <= ProjectLimit
          /\ Cardinality(ProjectUploads(p) \cap Ledger!Charged) <= CountLimit
    /\ \A x \in User : Bytes(UserUploads(x) \cap Ledger!Charged) <= UserLimit

\* An admission that passed the check of reserve_document stays within limits.
LEMMA AdmissionFits ==
    ASSUME TypeOK, RowsAgree, ChargedWithinLimits, NEW u \in Upload, Reserve(u)
    PROVE  ChargedWithinLimits'
<1>1. Ledger!Charged' \subseteq Ledger!Charged \cup {u}
  BY DEF TypeOK, Reserve, Ledger!Charged, phaseOf, ResvRows, ChargedDocRows, storeVars
<1>2. Ledger!Admit(u)
  BY AdmitStep
<1>3. ASSUME NEW p \in Project
      PROVE  Bytes(ProjectUploads(p) \cap Ledger!Charged') <= ProjectLimit
  <2> DEFINE S == ProjectUploads(p) \cap Ledger!Charged
             T == ProjectUploads(p) \cap Ledger!Charged'
  <2>1. S \in SUBSET Upload /\ T \in SUBSET Upload
    BY DEF ProjectUploads
  <2>2. CASE p = ProjectOf[u]
    <3>1. Bytes(S) + Size[u] <= ProjectLimit
      BY <1>2, <2>2 DEF Ledger!Admit, Ledger!OfProject, ProjectUploads
    <3>2. T \subseteq S \cup {u}
      BY <1>1
    <3>3. Bytes(T) <= Bytes(S) + Size[u]
      BY <2>1, <3>2, BytesOfAdmitted
    <3>4. QED BY <2>1, <3>1, <3>3, BytesAssumption, UploadAssumption, LimitAssumption
  <2>3. CASE p # ProjectOf[u]
    <3>1. T \in SUBSET S
      BY <1>1, <2>3 DEF ProjectUploads
    <3>2. Bytes(T) <= Bytes(S)
      BY <2>1, <3>1, BytesMonotone
    <3>3. Bytes(S) <= ProjectLimit
      BY DEF ChargedWithinLimits
    <3>4. QED BY <2>1, <3>2, <3>3, BytesAssumption, LimitAssumption
  <2>4. QED BY <2>2, <2>3
<1>4. ASSUME NEW x \in User
      PROVE  Bytes(UserUploads(x) \cap Ledger!Charged') <= UserLimit
  <2> DEFINE S == UserUploads(x) \cap Ledger!Charged
             T == UserUploads(x) \cap Ledger!Charged'
  <2>1. S \in SUBSET Upload /\ T \in SUBSET Upload
    BY DEF UserUploads
  <2>2. CASE x = UserOf[u]
    <3>1. Bytes(S) + Size[u] <= UserLimit
      BY <1>2, <2>2 DEF Ledger!Admit, Ledger!OfUser, UserUploads
    <3>2. T \subseteq S \cup {u}
      BY <1>1
    <3>3. Bytes(T) <= Bytes(S) + Size[u]
      BY <2>1, <3>2, BytesOfAdmitted
    <3>4. QED BY <2>1, <3>1, <3>3, BytesAssumption, UploadAssumption, LimitAssumption
  <2>3. CASE x # UserOf[u]
    <3>1. T \in SUBSET S
      BY <1>1, <2>3 DEF UserUploads
    <3>2. Bytes(T) <= Bytes(S)
      BY <2>1, <3>1, BytesMonotone
    <3>3. Bytes(S) <= UserLimit
      BY DEF ChargedWithinLimits
    <3>4. QED BY <2>1, <3>2, <3>3, BytesAssumption, LimitAssumption
  <2>4. QED BY <2>2, <2>3
<1>5. ASSUME NEW p \in Project
      PROVE  Cardinality(ProjectUploads(p) \cap Ledger!Charged') <= CountLimit
  <2> DEFINE S == ProjectUploads(p) \cap Ledger!Charged
             T == ProjectUploads(p) \cap Ledger!Charged'
  <2>1. S \in SUBSET Upload /\ T \in SUBSET Upload
    BY DEF ProjectUploads
  <2>2. Cardinality(S) \in Nat /\ Cardinality(T) \in Nat
    BY <2>1, CountMonotone
  <2>3. CASE p = ProjectOf[u]
    <3>1. Cardinality(S) + 1 <= CountLimit
      BY <1>2, <2>3 DEF Ledger!Admit, Ledger!OfProject, ProjectUploads
    <3>2. T \subseteq S \cup {u}
      BY <1>1
    <3>3. Cardinality(T) <= Cardinality(S) + 1
      BY <2>1, <3>2, CountOfAdmitted
    <3>4. QED BY <2>2, <3>1, <3>3, LimitAssumption
  <2>4. CASE p # ProjectOf[u]
    <3>1. T \in SUBSET S
      BY <1>1, <2>4 DEF ProjectUploads
    <3>2. Cardinality(T) <= Cardinality(S)
      BY <2>1, <3>1, CountMonotone
    <3>3. Cardinality(S) <= CountLimit
      BY DEF ChargedWithinLimits
    <3>4. QED BY <2>2, <3>2, <3>3, LimitAssumption
  <2>5. QED BY <2>3, <2>4
<1>6. QED BY <1>3, <1>4, <1>5 DEF ChargedWithinLimits, ProjectUploads, UserUploads

\* A step that charges nobody new stays within limits.
LEMMA ShrinkingFits ==
    ASSUME ChargedWithinLimits, Ledger!Charged' \subseteq Ledger!Charged
    PROVE  ChargedWithinLimits'
<1>1. ASSUME NEW p \in Project
      PROVE  Bytes(ProjectUploads(p) \cap Ledger!Charged') <= ProjectLimit
  <2> DEFINE S == ProjectUploads(p) \cap Ledger!Charged
             T == ProjectUploads(p) \cap Ledger!Charged'
  <2>1. S \in SUBSET Upload /\ T \in SUBSET S /\ T \in SUBSET Upload
    BY DEF ProjectUploads
  <2>2. Bytes(T) <= Bytes(S)
    BY <2>1, BytesMonotone
  <2>3. QED BY <2>1, <2>2, BytesAssumption, LimitAssumption DEF ChargedWithinLimits
<1>2. ASSUME NEW x \in User
      PROVE  Bytes(UserUploads(x) \cap Ledger!Charged') <= UserLimit
  <2> DEFINE S == UserUploads(x) \cap Ledger!Charged
             T == UserUploads(x) \cap Ledger!Charged'
  <2>1. S \in SUBSET Upload /\ T \in SUBSET S /\ T \in SUBSET Upload
    BY DEF UserUploads
  <2>2. Bytes(T) <= Bytes(S)
    BY <2>1, BytesMonotone
  <2>3. QED BY <2>1, <2>2, BytesAssumption, LimitAssumption DEF ChargedWithinLimits
<1>3. ASSUME NEW p \in Project
      PROVE  Cardinality(ProjectUploads(p) \cap Ledger!Charged') <= CountLimit
  <2> DEFINE S == ProjectUploads(p) \cap Ledger!Charged
             T == ProjectUploads(p) \cap Ledger!Charged'
  <2>1. S \in SUBSET Upload /\ T \in SUBSET S
    BY DEF ProjectUploads
  <2>2. /\ Cardinality(T) \in Nat /\ Cardinality(S) \in Nat
        /\ Cardinality(T) <= Cardinality(S)
    BY <2>1, CountMonotone
  <2>3. QED BY <2>2, LimitAssumption DEF ChargedWithinLimits
<1>4. QED BY <1>1, <1>2, <1>3 DEF ChargedWithinLimits, ProjectUploads, UserUploads

\* The bounds on what the tables charge, in the form the two theorems below use.
THEOREM ChargesWithinLimits == Spec => []ChargedWithinLimits
<1>1. Init => ChargedWithinLimits
  <2> SUFFICES ASSUME Init PROVE ChargedWithinLimits
    OBVIOUS
  <2>1. Ledger!Charged = {}
    BY DEF Init, Ledger!Charged, phaseOf, ResvRows, ChargedDocRows
  <2>2. QED BY <2>1, BytesAssumption, LimitAssumption, FS_EmptySet DEF ChargedWithinLimits
<1>2. TypeOK /\ RowsAgree /\ ChargedWithinLimits /\ [Next]_vars => ChargedWithinLimits'
  <2> SUFFICES ASSUME TypeOK, RowsAgree, ChargedWithinLimits, [Next]_vars
               PROVE  ChargedWithinLimits'
    OBVIOUS
  <2>1. ASSUME NEW u \in Upload, Reserve(u) PROVE ChargedWithinLimits'
    BY <2>1, AdmissionFits
  <2>2. ASSUME NEW u \in Upload, (Request(u) /\ ~Reserve(u)) \/ Worker(u) \/ Housekeeping(u)
        PROVE  Ledger!Charged' \subseteq Ledger!Charged
    BY <2>2, RequestCharges, WorkerCharges, HousekeepingCharges
  <2>3. ASSUME NEW u \in Upload, UserDelete(u)
        PROVE  Ledger!Charged' \subseteq Ledger!Charged
    BY <2>3 DEF TypeOK, RowsAgree, Ledger!Charged, phaseOf, ResvRows, ChargedDocRows,
                UserDelete, DeleteDocument, Transfer, CleanupRow,
                requestVars, accountVars, storeVars
  <2>4. ASSUME Crash PROVE Ledger!Charged' \subseteq Ledger!Charged
    BY <2>4 DEF TypeOK, Crash, Ledger!Charged, phaseOf, ResvRows, ChargedDocRows,
                accountVars, storeVars
  <2>5. ASSUME UNCHANGED vars PROVE Ledger!Charged' \subseteq Ledger!Charged
    BY <2>5 DEF vars, Ledger!Charged, phaseOf, ResvRows, ChargedDocRows,
                requestVars, accountVars, storeVars
  <2>6. QED BY <2>1, <2>2, <2>3, <2>4, <2>5, ShrinkingFits DEF Next
<1>3. QED BY <1>1, <1>2, TypeCorrect, RowsAgreeAlways, PTL DEF Spec

\* The project and user byte limits hold at every moment, for any sizes and any
\* limits, also when reservations expire under requests that still run.
THEOREM QuotaAlwaysRespected == Spec => []QuotaRespected
<1>1. TypeOK /\ RowsAgree /\ ChargedWithinLimits => QuotaRespected
  <2> SUFFICES ASSUME TypeOK, RowsAgree, ChargedWithinLimits PROVE QuotaRespected
    OBVIOUS
  <2>1. \A p \in Project : ProjectUploads(p) \in SUBSET Upload
    BY DEF ProjectUploads
  <2>2. \A x \in User : UserUploads(x) \in SUBSET Upload
    BY DEF UserUploads
  <2>3. QED BY <2>1, <2>2, ChargedBytesIsOneSum DEF QuotaRespected, ChargedWithinLimits
<1>2. QED BY <1>1, TypeCorrect, RowsAgreeAlways, ChargesWithinLimits, PTL


-----------------------------------------------------------------------------
(* Steps of the upload code are steps of the abstract ledger or stutter.   *)

\* Only a request that never reserved is "new" to the ledger.
SameStart == \A w \in Upload : (pc'[w] = "new") <=> (pc[w] = "new")

\* The ledger's phases change at one upload only.
LEMMA OnePhase ==
    ASSUME NEW u \in Upload, NEW ph, phaseOf'[u] = ph,
           \A w \in Upload \ {u} : phaseOf'[w] = phaseOf[w]
    PROVE  phaseOf' = [phaseOf EXCEPT ![u] = ph]
<1>1. \A w \in Upload : phaseOf'[w] = [phaseOf EXCEPT ![u] = ph][w]
  BY DEF phaseOf
<1>2. QED BY <1>1 DEF phaseOf

\* Phases and content that do not change are a stutter of the ledger.
LEMMA NoPhase ==
    ASSUME \A w \in Upload : phaseOf'[w] = phaseOf[w],
           UNCHANGED (temps \cup targets \cup vectors)
    PROVE  UNCHANGED Ledger!ledgerVars
<1>1. phaseOf' = phaseOf
  BY DEF phaseOf
<1>2. QED BY <1>1 DEF Ledger!ledgerVars

\* Moving a document to the cleanup ledger discards it, once.
LEMMA TransferRefines ==
    ASSUME TypeOK, RowsAgree, ContentAgrees, SameStart,
           NEW u \in Upload, NEW status \in {"failed", "deleted"},
           doc[u] \in {"processing", "indexed", "failed"}, Transfer(u, status)
    PROVE  Ledger!Discard(u) \/ UNCHANGED Ledger!ledgerVars
<1> USE DEF TypeOK, RowsAgree, Transfer, phaseOf, ResvRows, ChargedDocRows, SameStart
<1>1. UNCHANGED (temps \cup targets \cup vectors)
  OBVIOUS
<1>2. \A w \in Upload \ {u} : phaseOf'[w] = phaseOf[w]
  OBVIOUS
<1>3. resv[u] = "none" /\ resvRow[u] = "none" /\ pc[u] # "new"
  OBVIOUS
<1>4. CASE doc[u] # "failed"
  <2>1. docRow[u] = "none" /\ docRow'[u] \in {"target", "null"}
    BY <1>4 DEF CleanupRow
  <2>2. phaseOf[u] \in {"held", "published"} /\ phaseOf'[u] = "releasing"
    BY <1>3, <1>4, <2>1
  <2>3. QED BY <1>1, <1>2, <2>2, OnePhase DEF Ledger!Discard
<1>5. CASE doc[u] = "failed"
  <2>1. u \in ChargedDocRows' <=> u \in ChargedDocRows
    BY <1>5 DEF CleanupRow
  <2>2. phaseOf'[u] = phaseOf[u]
    BY <1>3, <1>5, <2>1
  <2>3. QED BY <1>1, <1>2, <2>2, NoPhase
<1>6. QED BY <1>4, <1>5

\* Abandoning a reservation discards it.
LEMMA AbandonRefines ==
    ASSUME TypeOK, RowsAgree, SameStart, NEW u \in Upload, AbandonReservation(u)
    PROVE  Ledger!Discard(u)
<1> USE DEF TypeOK, RowsAgree, AbandonReservation, phaseOf, ResvRows, ChargedDocRows,
            SameStart, storeVars
<1>1. UNCHANGED (temps \cup targets \cup vectors)
  OBVIOUS
<1>2. \A w \in Upload \ {u} : phaseOf'[w] = phaseOf[w]
  OBVIOUS
<1>3. phaseOf[u] = "held" /\ phaseOf'[u] = "releasing"
  BY DEF ReservationPath
<1>4. QED BY <1>1, <1>2, <1>3, OnePhase DEF Ledger!Discard

\* Committing an ingest publishes.
LEMMA IngestRefines ==
    ASSUME TypeOK, RowsAgree, ContentAgrees, SameStart, NEW u \in Upload, CommitIngest(u)
    PROVE  Ledger!Publish(u)
<1> USE DEF TypeOK, RowsAgree, CommitIngest, phaseOf, ResvRows, ChargedDocRows, Owned,
            SameStart
<1>1. UNCHANGED (temps \cup targets \cup vectors) /\ u \in vectors
  BY DEF ContentAgrees
<1>2. \A w \in Upload \ {u} : phaseOf'[w] = phaseOf[w]
  OBVIOUS
<1>3. phaseOf[u] = "held" /\ phaseOf'[u] = "published"
  OBVIOUS
<1>4. QED BY <1>1, <1>2, <1>3, OnePhase DEF Ledger!Publish

\* Releasing a cleanup row frees the charge with the last of the content.
LEMMA ReleaseRefines ==
    ASSUME TypeOK, RowsAgree, ContentAgrees, NEW u \in Upload,
           ReleaseReservationRow(u) \/ ReleaseDocumentRow(u)
    PROVE  Ledger!Free(u) \/ UNCHANGED Ledger!ledgerVars
<1> USE DEF TypeOK, RowsAgree, phaseOf, ResvRows, ChargedDocRows,
            requestVars, storeVars
<1> DEFINE stored == temps \cup targets \cup vectors
<1>1. stored' = stored \ {u}
  BY DEF ReleaseReservationRow, ReleaseDocumentRow, ContentAgrees, LiveDocs
<1>2. \A w \in Upload \ {u} : phaseOf'[w] = phaseOf[w]
  BY DEF ReleaseReservationRow, ReleaseDocumentRow
<1>3. CASE ReleaseReservationRow(u)
  <2>1. phaseOf[u] = "releasing" /\ phaseOf'[u] = "free"
    BY <1>3 DEF ReleaseReservationRow
  <2>2. QED BY <1>1, <1>2, <2>1, OnePhase DEF Ledger!Free
<1>4. CASE ReleaseDocumentRow(u) /\ docRow[u] \in {"target", "null"}
  <2>1. phaseOf[u] = "releasing" /\ phaseOf'[u] = "free"
    BY <1>4 DEF ReleaseDocumentRow
  <2>2. QED BY <1>1, <1>2, <2>1, OnePhase DEF Ledger!Free
<1>5. CASE ReleaseDocumentRow(u) /\ docRow[u] = "empty"
  <2>1. phaseOf'[u] = phaseOf[u]
    BY <1>5 DEF ReleaseDocumentRow
  <2>2. u \notin stored
    BY <1>5 DEF ReleaseDocumentRow, ContentAgrees, LiveDocs
  <2>3. QED BY <1>1, <1>2, <2>1, <2>2, NoPhase
<1>6. QED BY <1>3, <1>4, <1>5 DEF ReleaseDocumentRow

\* A request step is an admission, a store, a discard or a stutter.
LEMMA RequestRefines ==
    ASSUME TypeOK, RowsAgree, ContentAgrees, ~SlowRequests,
           NEW u \in Upload, Request(u)
    PROVE  [Ledger!Next]_(Ledger!ledgerVars)
<1> USE DEF TypeOK, RowsAgree, ContentAgrees, phaseOf, LiveDocs, ResvRows,
            ChargedDocRows, Owned, RowLocked, Physical,
            requestVars, accountVars, storeVars, Ledger!ledgerVars
<1>1. CASE Reserve(u)
  BY <1>1, AdmitStep DEF Ledger!Next
<1>2. CASE WriteTemp(u)
  <2>1. Ledger!Store(u)
    BY <1>2 DEF WriteTemp, Ledger!Store
  <2>2. QED BY <2>1 DEF Ledger!Next
<1>3. CASE RenameTemp(u)
  <2>1. Ledger!Store(u)
    BY <1>3 DEF RenameTemp, Ledger!Store
  <2>2. QED BY <2>1 DEF Ledger!Next
<1>4. CASE RequestFails(u)
  BY <1>4 DEF RequestFails
<1>5. CASE Finalize(u)
  BY <1>5 DEF Finalize, CommitFinalize, LiveDocs
<1>6. CASE FinalizeRejected(u)
  BY <1>6 DEF FinalizeRejected
<1>7. CASE FinalizeAckLost(u)
  BY <1>7 DEF FinalizeAckLost, CommitFinalize, LiveDocs
<1>8. CASE Abandon(u)
  <2>1. SameStart
    BY <1>8 DEF Abandon, SameStart
  <2>2. CASE AbandonReservation(u)
    BY <2>1, <2>2, AbandonRefines DEF Ledger!Next
  <2>3. CASE resv[u] = "none"
    BY <1>8, <2>3 DEF Abandon, AbandonReservation
  <2>4. QED BY <1>8, <2>2, <2>3 DEF Abandon
<1>9. CASE Compensate(u)
  <2>1. SameStart
    BY <1>9 DEF Compensate, SameStart
  <2>2. CASE doc[u] \in {"processing", "indexed"}
    BY <1>9, <2>1, <2>2, TransferRefines DEF Compensate, FailDocument, Ledger!Next
  <2>3. CASE doc[u] \notin {"processing", "indexed"}
    BY <1>9, <2>3 DEF Compensate, FailDocument
  <2>4. QED BY <2>2, <2>3
<1>10. QED BY <1>1, <1>2, <1>3, <1>4, <1>5, <1>6, <1>7, <1>8, <1>9 DEF Request

\* A worker step is a store, a publication, a discard or a stutter.
LEMMA WorkerRefines ==
    ASSUME TypeOK, RowsAgree, ContentAgrees, ~SlowRequests,
           NEW u \in Upload, Worker(u)
    PROVE  [Ledger!Next]_(Ledger!ledgerVars)
<1> USE DEF TypeOK, RowsAgree, ContentAgrees, phaseOf, LiveDocs, ResvRows,
            ChargedDocRows, Owned, RowLocked, Physical,
            requestVars, accountVars, storeVars, Ledger!ledgerVars
<1>1. CASE AcquireLock(u)
  BY <1>1 DEF AcquireLock
<1>2. CASE KeepWaiting(u)
  BY <1>2 DEF KeepWaiting, RenewOrLeave
<1>3. CASE BeginWork(u)
  BY <1>3 DEF BeginWork, RenewOrLeave
<1>4. CASE Transcribed(u)
  BY <1>4 DEF Transcribed, RenewOrLeave
<1>5. CASE ExtractProgress(u)
  BY <1>5 DEF ExtractProgress
<1>6. CASE Extracted(u)
  BY <1>6 DEF Extracted, RenewOrLeave
<1>7. CASE WorkFails(u)
  BY <1>7 DEF WorkFails
<1>8. CASE IngestBegin(u)
  BY <1>8 DEF IngestBegin
<1>9. CASE IngestVectors(u)
  <2>1. Ledger!Store(u)
    BY <1>9 DEF IngestVectors, Ledger!Store
  <2>2. QED BY <2>1 DEF Ledger!Next
<1>10. CASE IngestCommit(u)
  <2>1. CommitIngest(u) /\ SameStart
    BY <1>10 DEF IngestCommit, CommitIngest, SameStart
  <2>2. QED BY <2>1, IngestRefines DEF Ledger!Next
<1>11. CASE IngestAckLost(u)
  <2>1. CommitIngest(u) /\ SameStart
    BY <1>11 DEF IngestAckLost, CommitIngest, SameStart
  <2>2. QED BY <2>1, IngestRefines DEF Ledger!Next
<1>12. CASE IngestFails(u)
  BY <1>12 DEF IngestFails
<1>13. CASE WorkerFails(u)
  <2>1. SameStart
    BY <1>13 DEF WorkerFails, SameStart
  <2>2. CASE doc[u] \in {"processing", "indexed"}
    BY <1>13, <2>1, <2>2, TransferRefines DEF WorkerFails, FailDocument, Ledger!Next
  <2>3. CASE doc[u] \notin {"processing", "indexed"}
    BY <1>13, <2>3 DEF WorkerFails, FailDocument
  <2>4. QED BY <2>2, <2>3
<1>14. CASE ReplaceOld(u)
  <2>1. PICK v \in old[u] : DeleteDocument(v)
    BY <1>14 DEF ReplaceOld
  <2>2. v \in Upload
    BY <2>1
  <2>3. SameStart
    BY <1>14 DEF ReplaceOld, SameStart
  <2>4. CASE doc[v] \in {"processing", "indexed", "failed"}
    BY <2>1, <2>2, <2>3, <2>4, TransferRefines DEF DeleteDocument, Ledger!Next
  <2>5. CASE doc[v] \in {"absent", "deleted"}
    BY <1>14, <2>1, <2>5 DEF ReplaceOld, DeleteDocument
  <2>6. QED BY <2>2, <2>4, <2>5
<1>15. CASE Finish(u)
  BY <1>15 DEF Finish
<1>16. CASE StepRaises(u)
  BY <1>16 DEF StepRaises
<1>17. QED BY <1>1, <1>2, <1>3, <1>4, <1>5, <1>6, <1>7, <1>8, <1>9, <1>10, <1>11, <1>12, <1>13, <1>14, <1>15, <1>16 DEF Worker

\* A watchdog step is a discard, an erase, a release or a stutter.
LEMMA HousekeepingRefines ==
    ASSUME TypeOK, RowsAgree, ContentAgrees, ~SlowRequests,
           NEW u \in Upload, Housekeeping(u)
    PROVE  [Ledger!Next]_(Ledger!ledgerVars)
<1> USE DEF TypeOK, RowsAgree, ContentAgrees, phaseOf, LiveDocs, ResvRows,
            ChargedDocRows, Owned, RowLocked, Physical,
            requestVars, accountVars, storeVars, Ledger!ledgerVars
<1>1. CASE ReservationExpires(u)
  BY <1>1 DEF ReservationExpires
<1>2. CASE LeaseExpires(u)
  BY <1>2 DEF LeaseExpires
<1>3. CASE RecoverReservation(u)
  BY <1>3, AbandonRefines DEF RecoverReservation, SameStart, Ledger!Next
<1>4. CASE RecoverStale(u)
  BY <1>4, TransferRefines DEF RecoverStale, SameStart, Ledger!Next
<1>5. CASE ReleaseReservationRow(u)
  BY <1>5, ReleaseRefines DEF Ledger!Next
<1>6. CASE ReleaseDocumentRow(u)
  BY <1>6, ReleaseRefines DEF Ledger!Next
<1>7. CASE CleanupDeferred(u)
  <2>1. Ledger!Erase(u) \/ UNCHANGED Ledger!ledgerVars
    BY <1>7 DEF CleanupDeferred, Ledger!Erase
  <2>2. QED BY <2>1 DEF Ledger!Next
<1>8. QED BY <1>1, <1>2, <1>3, <1>4, <1>5, <1>6, <1>7 DEF Housekeeping

\* The upload code implements the abstract ledger: an upload is admitted within
\* the limits, is charged as long as it has content anywhere, and is released
\* only when nothing of it is left.
THEOREM UploadImplementsLedger ==
    ASSUME ~SlowRequests
    PROVE  Spec => ImplementsLedger
<1>1. Init => Ledger!Init
  BY DEF Init, Ledger!Init, phaseOf, ResvRows, ChargedDocRows
<1>2. TypeOK /\ RowsAgree /\ ContentAgrees /\ [Next]_vars
        => [Ledger!Next]_(Ledger!ledgerVars)
  <2> SUFFICES ASSUME TypeOK, RowsAgree, ContentAgrees, [Next]_vars
               PROVE  [Ledger!Next]_(Ledger!ledgerVars)
    OBVIOUS
  <2>1. CASE \E u \in Upload : Request(u) \/ Worker(u) \/ Housekeeping(u)
    BY <2>1, RequestRefines, WorkerRefines, HousekeepingRefines
  <2>2. ASSUME NEW u \in Upload, UserDelete(u)
        PROVE  [Ledger!Next]_(Ledger!ledgerVars)
    BY <2>2, TransferRefines DEF UserDelete, DeleteDocument, SameStart, requestVars,
                                 Ledger!Next
  <2>3. CASE Crash
    BY <2>3 DEF TypeOK, RowsAgree, Crash, phaseOf, ResvRows, ChargedDocRows,
                accountVars, storeVars, Ledger!ledgerVars
  <2>4. CASE UNCHANGED vars
    BY <2>4 DEF vars, phaseOf, ResvRows, ChargedDocRows, requestVars, accountVars,
                storeVars, Ledger!ledgerVars
  <2>5. QED BY <2>1, <2>2, <2>3, <2>4 DEF Next
<1>3. QED BY <1>1, <1>2, TypeCorrect, RowsAgreeAlways, ContentAgreesAlways, PTL
          DEF Spec, ImplementsLedger, Ledger!Spec


-----------------------------------------------------------------------------
(* Consequences.                                                           *)

\* The limits bound the files that are on disk, not only the rows that say so.
THEOREM DiskAlwaysWithinQuota ==
    ASSUME ~SlowRequests
    PROVE  Spec => []DiskWithinQuota
<1>1. TypeOK /\ RowsAgree /\ ContentAgrees /\ ChargedWithinLimits => DiskWithinQuota
  <2> SUFFICES ASSUME TypeOK, RowsAgree, ContentAgrees, ChargedWithinLimits,
                      NEW p \in Project
               PROVE  /\ Bytes(ProjectUploads(p) \cap (temps \cup targets)) <= ProjectLimit
                      /\ Cardinality(ProjectUploads(p) \cap (temps \cup targets)) <= CountLimit
    BY DEF DiskWithinQuota
  <2> DEFINE S == ProjectUploads(p) \cap (temps \cup targets)
             T == ProjectUploads(p) \cap Ledger!Charged
  <2>1. temps \cup targets
           \subseteq LiveDocs \cup Reservations \cup ResvRows \cup ChargedDocRows
    BY DEF TypeOK, ContentAgrees, Reservations, ResvRows, ChargedDocRows
  <2>2. T \in SUBSET Upload /\ S \in SUBSET T /\ S \in SUBSET Upload
    BY <2>1, ChargedSets DEF ProjectUploads
  <2>3. Bytes(T) <= ProjectLimit /\ Cardinality(T) <= CountLimit
    BY DEF ChargedWithinLimits
  <2> HIDE DEF S, T
  <2>4. Bytes(S) <= ProjectLimit
    <3>1. Bytes(S) <= Bytes(T)
      BY <2>2, BytesMonotone
    <3>2. Bytes(S) \in Nat /\ Bytes(T) \in Nat /\ ProjectLimit \in Nat
      BY <2>2, BytesAssumption, LimitAssumption
    <3>3. QED BY ONLY <2>3, <3>1, <3>2
  <2>5. Cardinality(S) <= CountLimit
    BY <2>2, <2>3, CountMonotone, LimitAssumption
  <2>6. QED BY <2>4, <2>5 DEF S, T
<1>2. QED BY <1>1, TypeCorrect, RowsAgreeAlways, ContentAgreesAlways,
             ChargesWithinLimits, PTL

-----------------------------------------------------------------------------
(* Terminal documents.                                                     *)

\* No step of a request revives a failed or deleted document.
LEMMA RequestRevivesNothing ==
    ASSUME TypeOK, RowsAgree, NEW u \in Upload, Request(u)
    PROVE  NoRevival
<1> USE DEF TypeOK, RowsAgree, Owned, NoRevival, requestVars, accountVars, storeVars
<1>1. CASE Reserve(u)
  BY <1>1 DEF Reserve
<1>2. CASE WriteTemp(u)
  BY <1>2 DEF WriteTemp
<1>3. CASE RenameTemp(u)
  BY <1>3 DEF RenameTemp
<1>4. CASE RequestFails(u)
  BY <1>4 DEF RequestFails
<1>5. CASE Finalize(u)
  BY <1>5 DEF Finalize, CommitFinalize, LiveDocs
<1>6. CASE FinalizeRejected(u)
  BY <1>6 DEF FinalizeRejected
<1>7. CASE FinalizeAckLost(u)
  BY <1>7 DEF FinalizeAckLost, CommitFinalize, LiveDocs
<1>8. CASE Abandon(u)
  BY <1>8 DEF Abandon, AbandonReservation, ReservationPath
<1>9. CASE Compensate(u)
  BY <1>9 DEF Compensate, FailDocument, Transfer, CleanupRow
<1>10. QED BY <1>1, <1>2, <1>3, <1>4, <1>5, <1>6, <1>7, <1>8, <1>9 DEF Request

\* No step of a worker revives a failed or deleted document.
LEMMA WorkerRevivesNothing ==
    ASSUME TypeOK, RowsAgree, NEW u \in Upload, Worker(u)
    PROVE  NoRevival
<1> USE DEF TypeOK, RowsAgree, Owned, NoRevival, requestVars, accountVars, storeVars
<1>1. CASE AcquireLock(u)
  BY <1>1 DEF AcquireLock
<1>2. CASE KeepWaiting(u)
  BY <1>2 DEF KeepWaiting, RenewOrLeave
<1>3. CASE BeginWork(u)
  BY <1>3 DEF BeginWork, RenewOrLeave
<1>4. CASE Transcribed(u)
  BY <1>4 DEF Transcribed, RenewOrLeave
<1>5. CASE ExtractProgress(u)
  BY <1>5 DEF ExtractProgress
<1>6. CASE Extracted(u)
  BY <1>6 DEF Extracted, RenewOrLeave
<1>7. CASE WorkFails(u)
  BY <1>7 DEF WorkFails
<1>8. CASE IngestBegin(u)
  BY <1>8 DEF IngestBegin
<1>9. CASE IngestVectors(u)
  BY <1>9 DEF IngestVectors
<1>10. CASE IngestCommit(u)
  BY <1>10 DEF IngestCommit, CommitIngest
<1>11. CASE IngestAckLost(u)
  BY <1>11 DEF IngestAckLost, CommitIngest
<1>12. CASE IngestFails(u)
  BY <1>12 DEF IngestFails
<1>13. CASE WorkerFails(u)
  BY <1>13 DEF WorkerFails, FailDocument, Transfer, CleanupRow
<1>14. CASE ReplaceOld(u)
  BY <1>14 DEF ReplaceOld, DeleteDocument, Transfer, CleanupRow
<1>15. CASE Finish(u)
  BY <1>15 DEF Finish
<1>16. CASE StepRaises(u)
  BY <1>16 DEF StepRaises
<1>17. QED BY <1>1, <1>2, <1>3, <1>4, <1>5, <1>6, <1>7, <1>8, <1>9, <1>10, <1>11, <1>12, <1>13, <1>14, <1>15, <1>16 DEF Worker

\* No step of the watchdog revives a failed or deleted document.
LEMMA HousekeepingRevivesNothing ==
    ASSUME TypeOK, RowsAgree, NEW u \in Upload, Housekeeping(u)
    PROVE  NoRevival
<1> USE DEF TypeOK, RowsAgree, Owned, NoRevival, requestVars, accountVars, storeVars
<1>1. CASE ReservationExpires(u)
  BY <1>1 DEF ReservationExpires
<1>2. CASE LeaseExpires(u)
  BY <1>2 DEF LeaseExpires
<1>3. CASE RecoverReservation(u)
  BY <1>3 DEF RecoverReservation, AbandonReservation, ReservationPath
<1>4. CASE RecoverStale(u)
  BY <1>4 DEF RecoverStale, Transfer, CleanupRow
<1>5. CASE ReleaseReservationRow(u)
  BY <1>5 DEF ReleaseReservationRow
<1>6. CASE ReleaseDocumentRow(u)
  BY <1>6 DEF ReleaseDocumentRow
<1>7. CASE CleanupDeferred(u)
  BY <1>7 DEF CleanupDeferred
<1>8. QED BY <1>1, <1>2, <1>3, <1>4, <1>5, <1>6, <1>7 DEF Housekeeping

\* A document that failed or was deleted stays so, for any number of workers,
\* uploads, crashes and recoveries.
THEOREM TerminalAlwaysTerminal == Spec => TerminalStaysTerminal
<1>1. TypeOK /\ RowsAgree /\ [Next]_vars => [NoRevival]_vars
  <2> SUFFICES ASSUME TypeOK, RowsAgree, Next PROVE NoRevival
    OBVIOUS
  <2>1. CASE \E u \in Upload : Request(u) \/ Worker(u) \/ Housekeeping(u)
    BY <2>1, RequestRevivesNothing, WorkerRevivesNothing, HousekeepingRevivesNothing
  <2>2. ASSUME NEW u \in Upload, UserDelete(u) PROVE NoRevival
    BY <2>2 DEF TypeOK, NoRevival, UserDelete, DeleteDocument, Transfer, CleanupRow,
                requestVars, accountVars, storeVars
  <2>3. CASE Crash
    BY <2>3 DEF TypeOK, NoRevival, Crash, accountVars, storeVars
  <2>4. QED BY <2>1, <2>2, <2>3 DEF Next
<1>2. QED BY <1>1, TypeCorrect, RowsAgreeAlways, PTL DEF Spec, TerminalStaysTerminal

-----------------------------------------------------------------------------
(* Released rows of the cleanup ledger.                                    *)

\* Each row a step takes off the ledger has nothing left to remove.
ReleasesOnlyGone ==
    \A u \in Upload :
       /\ docRow[u] # "none" /\ docRow'[u] = "none" =>
              u \notin targets' \cup temps' \cup vectors' \cup memory'
       /\ resvRow[u] # "none" /\ resvRow'[u] = "none" => u \notin targets' \cup temps'

\* No step of a request releases a row.
LEMMA RequestReleasesNothing ==
    ASSUME TypeOK, RowsAgree, ContentAgrees, NEW u \in Upload, Request(u)
    PROVE  ReleasesOnlyGone
<1> USE DEF TypeOK, ReleasesOnlyGone, requestVars, accountVars, storeVars
<1>1. CASE Reserve(u)
  BY <1>1 DEF Reserve
<1>2. CASE WriteTemp(u)
  BY <1>2 DEF WriteTemp
<1>3. CASE RenameTemp(u)
  BY <1>3 DEF RenameTemp
<1>4. CASE RequestFails(u)
  BY <1>4 DEF RequestFails
<1>5. CASE Finalize(u)
  BY <1>5 DEF Finalize, CommitFinalize, LiveDocs
<1>6. CASE FinalizeRejected(u)
  BY <1>6 DEF FinalizeRejected
<1>7. CASE FinalizeAckLost(u)
  BY <1>7 DEF FinalizeAckLost, CommitFinalize, LiveDocs
<1>8. CASE Abandon(u)
  BY <1>8 DEF Abandon, AbandonReservation, ReservationPath
<1>9. CASE Compensate(u)
  BY <1>9 DEF Compensate, FailDocument, Transfer, CleanupRow
<1>10. QED BY <1>1, <1>2, <1>3, <1>4, <1>5, <1>6, <1>7, <1>8, <1>9 DEF Request

\* No step of a worker releases a row.
LEMMA WorkerReleasesNothing ==
    ASSUME TypeOK, RowsAgree, ContentAgrees, NEW u \in Upload, Worker(u)
    PROVE  ReleasesOnlyGone
<1> USE DEF TypeOK, ReleasesOnlyGone, requestVars, accountVars, storeVars
<1>1. CASE AcquireLock(u)
  BY <1>1 DEF AcquireLock
<1>2. CASE KeepWaiting(u)
  BY <1>2 DEF KeepWaiting, RenewOrLeave
<1>3. CASE BeginWork(u)
  BY <1>3 DEF BeginWork, RenewOrLeave
<1>4. CASE Transcribed(u)
  BY <1>4 DEF Transcribed, RenewOrLeave
<1>5. CASE ExtractProgress(u)
  BY <1>5 DEF ExtractProgress
<1>6. CASE Extracted(u)
  BY <1>6 DEF Extracted, RenewOrLeave
<1>7. CASE WorkFails(u)
  BY <1>7 DEF WorkFails
<1>8. CASE IngestBegin(u)
  BY <1>8 DEF IngestBegin
<1>9. CASE IngestVectors(u)
  BY <1>9 DEF IngestVectors
<1>10. CASE IngestCommit(u)
  BY <1>10 DEF IngestCommit, CommitIngest
<1>11. CASE IngestAckLost(u)
  BY <1>11 DEF IngestAckLost, CommitIngest
<1>12. CASE IngestFails(u)
  BY <1>12 DEF IngestFails
<1>13. CASE WorkerFails(u)
  BY <1>13 DEF WorkerFails, FailDocument, Transfer, CleanupRow
<1>14. CASE ReplaceOld(u)
  BY <1>14 DEF ReplaceOld, DeleteDocument, Transfer, CleanupRow
<1>15. CASE Finish(u)
  BY <1>15 DEF Finish
<1>16. CASE StepRaises(u)
  BY <1>16 DEF StepRaises
<1>17. QED BY <1>1, <1>2, <1>3, <1>4, <1>5, <1>6, <1>7, <1>8, <1>9, <1>10, <1>11, <1>12, <1>13, <1>14, <1>15, <1>16 DEF Worker

\* The cleanup pass releases rows whose content is gone.
LEMMA HousekeepingReleasesGone ==
    ASSUME TypeOK, RowsAgree, ContentAgrees, NEW u \in Upload, Housekeeping(u)
    PROVE  ReleasesOnlyGone
<1> USE DEF TypeOK, ReleasesOnlyGone, requestVars, accountVars, storeVars
<1>1. CASE ReservationExpires(u)
  BY <1>1 DEF ReservationExpires
<1>2. CASE LeaseExpires(u)
  BY <1>2 DEF LeaseExpires
<1>3. CASE RecoverReservation(u)
  BY <1>3 DEF RecoverReservation, AbandonReservation, ReservationPath
<1>4. CASE RecoverStale(u)
  BY <1>4 DEF RecoverStale, Transfer, CleanupRow
<1>5. CASE ReleaseReservationRow(u)
  BY <1>5, UploadAssumption DEF ReleaseReservationRow, RowsAgree, ContentAgrees, LiveDocs, Physical
<1>6. CASE ReleaseDocumentRow(u)
  BY <1>6, UploadAssumption DEF ReleaseDocumentRow, RowsAgree, ContentAgrees, LiveDocs, Physical
<1>7. CASE CleanupDeferred(u)
  BY <1>7 DEF CleanupDeferred
<1>8. QED BY <1>1, <1>2, <1>3, <1>4, <1>5, <1>6, <1>7 DEF Housekeeping

\* Quota is given back for what is really gone, whatever worker is still running, if no
\* request outlives its reservation.
THEOREM ReleasedIsAlwaysGone ==
    ASSUME ~SlowRequests
    PROVE  Spec => ReleasedMeansGone
<1>1. TypeOK /\ RowsAgree /\ ContentAgrees /\ [Next]_vars => [ReleasesOnlyGone]_vars
  <2> SUFFICES ASSUME TypeOK, RowsAgree, ContentAgrees, Next PROVE ReleasesOnlyGone
    OBVIOUS
  <2>1. CASE \E u \in Upload : Request(u) \/ Worker(u) \/ Housekeeping(u)
    BY <2>1, RequestReleasesNothing, WorkerReleasesNothing, HousekeepingReleasesGone
  <2>2. ASSUME NEW u \in Upload, UserDelete(u) PROVE ReleasesOnlyGone
    BY <2>2 DEF TypeOK, ReleasesOnlyGone, UserDelete, DeleteDocument, Transfer, CleanupRow,
                requestVars, accountVars, storeVars
  <2>3. CASE Crash
    BY <2>3 DEF TypeOK, ReleasesOnlyGone, Crash, accountVars, storeVars
  <2>4. QED BY <2>1, <2>2, <2>3 DEF Next
<1>2. [ReleasesOnlyGone]_vars =>
        [\A u \in Upload :
          /\ docRow[u] # "none" /\ docRow'[u] = "none" =>
                 u \notin targets' \cup temps' \cup vectors' \cup memory'
          /\ resvRow[u] # "none" /\ resvRow'[u] = "none" =>
                 u \notin targets' \cup temps']_vars
  BY DEF ReleasesOnlyGone
<1>3. QED BY <1>1, <1>2, TypeCorrect, RowsAgreeAlways, ContentAgreesAlways, PTL
          DEF Spec, ReleasedMeansGone

-----------------------------------------------------------------------------
\* What the abstract ledger guarantees by itself.

\* Content exists only while somebody is charged for it, of whatever is a ledger; with
\* the refinement above this holds of the upload code.
THEOREM LedgerStoresOnlyCharged == Ledger!Spec => []Ledger!StoredIsCharged
<1> DEFINE Inv == Ledger!StoredIsCharged /\ phaseOf \in [Upload -> Ledger!Phase]
<1> USE DEF Ledger!StoredIsCharged, Ledger!Charged
<1>1. Ledger!Init => Inv
  BY DEF Ledger!Init, Ledger!Phase
<1>2. Inv /\ [Ledger!Next]_(Ledger!ledgerVars) => Inv'
  <2> SUFFICES ASSUME Inv, [Ledger!Next]_(Ledger!ledgerVars) PROVE Inv'
    OBVIOUS
  <2>1. ASSUME NEW u \in Upload, Ledger!Admit(u) PROVE Inv'
    BY <2>1 DEF Ledger!Admit, Ledger!Phase
  <2>2. ASSUME NEW u \in Upload, Ledger!Store(u) \/ Ledger!Publish(u) PROVE Inv'
    BY <2>2 DEF Ledger!Store, Ledger!Publish, Ledger!Phase
  <2>3. ASSUME NEW u \in Upload, Ledger!Discard(u) \/ Ledger!Erase(u) \/ Ledger!Free(u)
        PROVE  Inv'
    BY <2>3 DEF Ledger!Discard, Ledger!Erase, Ledger!Free, Ledger!Phase
  <2>4. CASE UNCHANGED Ledger!ledgerVars
    BY <2>4 DEF Ledger!ledgerVars
  <2>5. QED BY <2>1, <2>2, <2>3, <2>4 DEF Ledger!Next
<1>3. QED BY <1>1, <1>2, PTL DEF Ledger!Spec
=============================================================================
