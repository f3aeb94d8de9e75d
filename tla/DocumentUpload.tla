--------------------------- MODULE DocumentUpload ---------------------------
(***************************************************************************)
(* The life of an uploaded document, from the quota reservation to the     *)
(* last byte released: backend/quota.py, backend/storage.py, the upload    *)
(* endpoints of backend/api/documents.py and backend/stt/router.py, their  *)
(* background workers, and the document path of pipeline/ingestor.ingest.  *)
(*                                                                         *)
(* One element of Upload is one upload request, the reservation it takes   *)
(* and the document row it may become (a reservation becomes at most one   *)
(* document, and a document has one processing token for life, so the      *)
(* token comparison of the code is "the row is still processing").         *)
(* Every action is one database transaction, one external call (a file, a  *)
(* Chroma write) or one failure; the row locks a transaction keeps over    *)
(* several of them (ingest) appear as guards of the others.                *)
(***************************************************************************)
EXTENDS Integers, FiniteSets

CONSTANTS
    Upload,         \* the upload requests
    Project, User, Name,
    ProjectOf,      \* [Upload -> Project]
    UserOf,         \* [Upload -> User]
    NameOf,         \* [Upload -> Name], the stored filename
    KindOf,         \* [Upload -> Kind]
    Size,           \* [Upload -> Nat], size_bytes
    Bytes(_),       \* SUM(size_bytes) over a set of uploads
    ProjectLimit, UserLimit, CountLimit,
    SlowRequests,   \* may a reservation expire while its request still runs?
    MaxFaults       \* bound on crashes, lost acknowledgements, failed cleanups

\* "document": POST /documents, "audio": POST /audio, "git": POST /git.
Kind == {"document", "audio", "git"}

ASSUME UploadAssumption ==
    /\ IsFiniteSet(Upload)
    /\ ProjectOf \in [Upload -> Project]
    /\ UserOf \in [Upload -> User]
    /\ NameOf \in [Upload -> Name]
    /\ KindOf \in [Upload -> Kind]
    /\ Size \in [Upload -> Nat]

\* SUM over no rows is 0 (COALESCE), a row counts its own size, and the sum
\* over two sets of rows is the sum of the sums.
ASSUME BytesAssumption ==
    /\ Bytes({}) = 0
    /\ \A u \in Upload : Bytes({u}) = Size[u]
    /\ \A S \in SUBSET Upload : Bytes(S) \in Nat
    /\ \A S, T \in SUBSET Upload :
          S \cap T = {} => Bytes(S \cup T) = Bytes(S) + Bytes(T)

ASSUME LimitAssumption ==
    /\ ProjectLimit \in Nat /\ UserLimit \in Nat /\ CountLimit \in Nat
    /\ SlowRequests \in BOOLEAN
    /\ MaxFaults \in Nat

VARIABLES
    pc,          \* where the request, then its worker, is
    resv,        \* upload_quota_reservations: none, active or expired row
    doc,         \* documents.status; "absent" before, "deleted" after the row
    leased,      \* documents whose lease_expires_at is still in the future
    resvRow,     \* storage_cleanup_pending, source 'reservation': its file_path
    docRow,      \* storage_cleanup_pending, source 'document': its file_path
    temps,       \* .pending/<reservation>.tmp on disk
    targets,     \* <project>/<reservation><suffix> on disk
    vectors,     \* Chroma entries carrying the doc_id
    memory,      \* committed memory rows carrying the doc_id
    old,         \* old_doc_ids the worker still has to replace
    userDeleted, \* documents a user's DELETE removed (history)
    faults

requestVars == <<pc, old>>
accountVars == <<resv, doc, leased, resvRow, docRow>>
storeVars   == <<temps, targets, vectors, memory>>
vars == <<requestVars, accountVars, storeVars, userDeleted, faults>>

PC == {"new", "reserved", "temp", "written", "abandoning", "compensating",
       "queued", "working", "transcribe", "extract", "ingest", "ingesting",
       "vectored", "failing", "replacing", "done", "dead"}

TypeOK ==
    /\ pc \in [Upload -> PC]
    /\ resv \in [Upload -> {"none", "active", "expired"}]
    /\ doc \in [Upload -> {"absent", "processing", "indexed", "failed", "deleted"}]
    /\ leased \subseteq Upload
    /\ resvRow \in [Upload -> {"none", "temp", "target", "null"}]
    /\ docRow \in [Upload -> {"none", "target", "null", "empty"}]
    /\ temps \subseteq Upload /\ targets \subseteq Upload
    /\ vectors \subseteq Upload /\ memory \subseteq Upload
    /\ old \in [Upload -> SUBSET Upload]
    /\ userDeleted \subseteq Upload
    /\ faults \in 0..MaxFaults

Init ==
    /\ pc = [u \in Upload |-> "new"]
    /\ resv = [u \in Upload |-> "none"]
    /\ doc = [u \in Upload |-> "absent"]
    /\ leased = {}
    /\ resvRow = [u \in Upload |-> "none"]
    /\ docRow = [u \in Upload |-> "none"]
    /\ temps = {} /\ targets = {} /\ vectors = {} /\ memory = {}
    /\ old = [u \in Upload |-> {}]
    /\ userDeleted = {}
    /\ faults = 0

-----------------------------------------------------------------------------
(* Accounting: what _usage adds up.                                        *)

Physical(u) == KindOf[u] \in {"document", "audio"}

LiveDocs     == {u \in Upload : doc[u] \in {"processing", "indexed"}}
Reservations == {u \in Upload : resv[u] # "none"}
ResvRows     == {u \in Upload : resvRow[u] # "none"}
DocRows      == {u \in Upload : docRow[u] # "none"}
\* The cleanup row of a document that had already failed carries size 0.
ChargedDocRows == {u \in Upload : docRow[u] \in {"target", "null"}}

ProjectUploads(p) == {u \in Upload : ProjectOf[u] = p}
UserUploads(x)    == {u \in Upload : UserOf[u] = x}

\* Bytes that documents, reservations and the cleanup ledger hold among S.
ChargedBytes(S) ==
    Bytes(S \cap LiveDocs) + Bytes(S \cap Reservations)
      + Bytes(S \cap ResvRows) + Bytes(S \cap ChargedDocRows)

ChargedUnits(S) ==
    Cardinality(S \cap LiveDocs) + Cardinality(S \cap Reservations)
      + Cardinality(S \cap ResvRows) + Cardinality(S \cap DocRows)

-----------------------------------------------------------------------------
(* The request.                                                            *)

\* Mutant: the user limit is not checked.
ReserveWithoutUserLimit(u) ==
    /\ pc[u] = "new"
    /\ ChargedBytes(ProjectUploads(ProjectOf[u])) + Size[u] <= ProjectLimit
    /\ ChargedUnits(ProjectUploads(ProjectOf[u])) + 1 <= CountLimit
    /\ resv' = [resv EXCEPT ![u] = "active"]
    /\ pc' = [pc EXCEPT ![u] = IF Physical(u) THEN "reserved" ELSE "written"]
    /\ UNCHANGED <<old, doc, leased, resvRow, docRow, storeVars, userDeleted, faults>>

\* reserve_document: usage is read under the user and project row locks.
Reserve(u) ==
    /\ pc[u] = "new"
    /\ ChargedBytes(ProjectUploads(ProjectOf[u])) + Size[u] <= ProjectLimit
    /\ ChargedBytes(UserUploads(UserOf[u])) + Size[u] <= UserLimit
    /\ ChargedUnits(ProjectUploads(ProjectOf[u])) + 1 <= CountLimit
    /\ resv' = [resv EXCEPT ![u] = "active"]
    /\ pc' = [pc EXCEPT ![u] = IF Physical(u) THEN "reserved" ELSE "written"]
    /\ UNCHANGED <<old, doc, leased, resvRow, docRow, storeVars, userDeleted, faults>>

\* write_reserved_file: exclusive create of the temp file and fsync ...
WriteTemp(u) ==
    /\ pc[u] = "reserved"
    /\ temps' = temps \cup {u}
    /\ pc' = [pc EXCEPT ![u] = "temp"]
    /\ UNCHANGED <<old, accountVars, targets, vectors, memory, userDeleted, faults>>

\* ... then os.replace onto the target.
RenameTemp(u) ==
    /\ pc[u] = "temp"
    /\ temps' = temps \ {u}
    /\ targets' = targets \cup {u}
    /\ pc' = [pc EXCEPT ![u] = "written"]
    /\ UNCHANGED <<old, accountVars, vectors, memory, userDeleted, faults>>

\* Any exception before finalize_document commits: a short read, a disk
\* error, a size mismatch, a cancelled request, a rolled back transaction.
RequestFails(u) ==
    /\ pc[u] \in {"reserved", "temp", "written"}
    /\ pc' = [pc EXCEPT ![u] = "abandoning"]
    /\ UNCHANGED <<old, accountVars, storeVars, userDeleted, faults>>

SameFile(u, v) == ProjectOf[u] = ProjectOf[v] /\ NameOf[u] = NameOf[v]

\* Mutant: only indexed documents are replaced, not those still processing.
CommitFinalizeSeesIndexedOnly(u) ==
    /\ pc[u] = "written"
    /\ resv[u] = "active"
    /\ resv' = [resv EXCEPT ![u] = "none"]
    /\ doc' = [doc EXCEPT ![u] = "processing"]
    /\ leased' = leased \cup {u}
    /\ old' = [old EXCEPT ![u] = {v \in Upload : doc[v] = "indexed" /\ SameFile(u, v)}]
    /\ UNCHANGED <<resvRow, docRow, storeVars, userDeleted>>

\* The committed effect of finalize_document.
CommitFinalize(u) ==
    /\ pc[u] = "written"
    /\ resv[u] = "active"
    /\ resv' = [resv EXCEPT ![u] = "none"]
    /\ doc' = [doc EXCEPT ![u] = "processing"]
    /\ leased' = leased \cup {u}
    /\ old' = [old EXCEPT ![u] = {v \in LiveDocs : SameFile(u, v)}]
    /\ UNCHANGED <<resvRow, docRow, storeVars, userDeleted>>

Finalize(u) ==
    /\ CommitFinalize(u)
    /\ pc' = [pc EXCEPT ![u] = IF Physical(u) THEN "queued" ELSE "extract"]
    /\ UNCHANGED faults

\* The reservation is gone or expired: RuntimeError, then the endpoint's
\* except clause.
FinalizeRejected(u) ==
    /\ pc[u] = "written"
    /\ resv[u] # "active"
    /\ pc' = [pc EXCEPT ![u] = "abandoning"]
    /\ UNCHANGED <<old, accountVars, storeVars, userDeleted, faults>>

\* COMMIT succeeded but the acknowledgement was lost. The token re-read finds
\* the row and the request goes on (that is Finalize), or the exception is a
\* cancellation and the document is compensated, or the re-read fails too and
\* the request is lost.
FinalizeAckLost(u) ==
    /\ faults < MaxFaults
    /\ CommitFinalize(u)
    /\ \E outcome \in {"compensating", "dead"} : pc' = [pc EXCEPT ![u] = outcome]
    /\ faults' = faults + 1

\* Mutant: the path is always the temp path.
ReservationPathTempOnly(u) == IF Physical(u) THEN "temp" ELSE "null"

\* _existing_reservation_path: the target if it exists, else the temp path;
\* a virtual reservation has neither.
ReservationPath(u) ==
    IF ~Physical(u) THEN "null" ELSE IF u \in targets THEN "target" ELSE "temp"

\* Mutant: the reservation is dropped without a cleanup row.
AbandonReservationDrops(u) ==
    /\ resv[u] # "none"
    /\ resv' = [resv EXCEPT ![u] = "none"]
    /\ UNCHANGED <<old, doc, leased, resvRow, docRow, storeVars, userDeleted, faults>>

\* abandon_reservation: the reservation becomes a row of the cleanup ledger.
AbandonReservation(u) ==
    /\ resv[u] # "none"
    /\ resvRow' = [resvRow EXCEPT ![u] = ReservationPath(u)]
    /\ resv' = [resv EXCEPT ![u] = "none"]
    /\ UNCHANGED <<old, doc, leased, docRow, storeVars, userDeleted, faults>>

\* cleanup_failed_reservation of the failing request.
Abandon(u) ==
    /\ pc[u] = "abandoning"
    /\ pc' = [pc EXCEPT ![u] = "done"]
    /\ \/ AbandonReservation(u)
       \/ /\ resv[u] = "none"
          /\ UNCHANGED <<old, accountVars, storeVars, userDeleted, faults>>

-----------------------------------------------------------------------------
(* transfer_document_to_cleanup: the document's accounting, file and        *)
(* vectors become a row of the ledger in one transaction.                  *)

\* ingest keeps the document row locked until it commits or rolls back.
RowLocked(u) == pc[u] \in {"ingesting", "vectored"}

\* Mutant: the row names the temp file.
CleanupRowTempPath(u) ==
    IF docRow[u] # "none" THEN docRow[u] ELSE IF Physical(u) THEN "temp" ELSE "null"

\* Mutant: deleting a failed document overwrites its pending row.
CleanupRowOverwrites(u) ==
    IF doc[u] = "failed" THEN "empty" ELSE IF Physical(u) THEN "target" ELSE "null"

\* INSERT IGNORE: a row an earlier failure left pending is kept as it is.
CleanupRow(u) ==
    IF docRow[u] # "none" THEN docRow[u]
    ELSE IF doc[u] = "failed" THEN "empty"
    ELSE IF Physical(u) THEN "target" ELSE "null"

Transfer(u, status) ==
    /\ ~RowLocked(u)
    /\ docRow' = [docRow EXCEPT ![u] = CleanupRow(u)]
    /\ memory' = memory \ {u}
    /\ doc' = [doc EXCEPT ![u] = status]
    /\ leased' = leased \ {u}
    /\ UNCHANGED <<resv, resvRow, temps, targets, vectors>>

\* fail_document: missing and already failed rows are left alone.
FailDocument(u) ==
    \/ doc[u] \in {"processing", "indexed"} /\ Transfer(u, "failed")
    \/ /\ doc[u] \notin {"processing", "indexed"}
       /\ UNCHANGED <<accountVars, storeVars>>

\* delete_document, which also takes a failed row.
DeleteDocument(u) ==
    \/ doc[u] \in {"processing", "indexed", "failed"} /\ Transfer(u, "deleted")
    \/ /\ doc[u] \in {"absent", "deleted"}
       /\ UNCHANGED <<accountVars, storeVars>>

\* compensate_cancelled_document after a cancelled finalize.
Compensate(u) ==
    /\ pc[u] = "compensating"
    /\ FailDocument(u)
    /\ pc' = [pc EXCEPT ![u] = "done"]
    /\ UNCHANGED <<old, userDeleted, faults>>

\* DELETE /projects/{id}/documents/{doc_id}
UserDelete(u) ==
    /\ doc[u] \in {"processing", "indexed", "failed"}
    /\ DeleteDocument(u)
    /\ userDeleted' = userDeleted \cup {u}
    /\ UNCHANGED <<requestVars, faults>>

-----------------------------------------------------------------------------
(* The background worker (a git upload runs the same body in its request,  *)
(* without the process lock and the ownership checks).                     *)

\* Mutant: a worker that ends with an exception keeps the process lock.
HoldsLockAfterError(u) ==
    Physical(u) /\ pc[u] \in {"working", "transcribe", "extract", "ingest", "ingesting",
                              "vectored", "failing", "replacing", "dead"}

HoldsLock(u) ==
    Physical(u) /\ pc[u] \in {"working", "transcribe", "extract", "ingest",
                              "ingesting", "vectored", "failing", "replacing"}

\* _UPLOAD_PROCESS_LOCK and _STT_PROCESS_LOCK: one worker per kind.
AcquireLock(u) ==
    /\ pc[u] = "queued"
    /\ ~\E v \in Upload : KindOf[v] = KindOf[u] /\ HoldsLock(v)
    /\ pc' = [pc EXCEPT ![u] = "working"]
    /\ UNCHANGED <<old, accountVars, storeVars, userDeleted, faults>>

\* Mutant: the row exists, whatever its status and token.
OwnedIfPresent(u) == doc[u] \in {"processing", "indexed", "failed"}

Owned(u) == doc[u] = "processing"

\* processing_owned(renew=True) and its caller: go on with a fresh lease, or
\* return because the row is gone or failed.
RenewOrLeave(u, next) ==
    /\ \/ /\ Owned(u)
          /\ leased' = leased \cup {u}
          /\ pc' = [pc EXCEPT ![u] = next]
       \/ /\ ~Owned(u)
          /\ UNCHANGED leased
          /\ pc' = [pc EXCEPT ![u] = "done"]
    /\ UNCHANGED <<old, resv, doc, resvRow, docRow, storeVars, userDeleted, faults>>

\* The wait for the lock times out after a second.
KeepWaiting(u) ==
    /\ pc[u] = "queued"
    /\ RenewOrLeave(u, "queued")

BeginWork(u) ==
    /\ pc[u] = "working"
    /\ RenewOrLeave(u, IF KindOf[u] = "audio" THEN "transcribe" ELSE "extract")

\* A recording is transcribed before it is extracted, with a check between.
Transcribed(u) ==
    /\ pc[u] = "transcribe"
    /\ RenewOrLeave(u, "extract")

\* _set_doc_progress renews the lease after every extracted chunk.
ExtractProgress(u) ==
    /\ pc[u] = "extract" /\ Physical(u)
    /\ Owned(u)
    /\ leased' = leased \cup {u}
    /\ UNCHANGED <<requestVars, resv, doc, resvRow, docRow, storeVars, userDeleted, faults>>

\* Only the document worker checks again between extraction and ingestion.
Extracted(u) ==
    /\ pc[u] = "extract"
    /\ \/ KindOf[u] = "document" /\ RenewOrLeave(u, "ingest")
       \/ /\ KindOf[u] # "document"
          /\ pc' = [pc EXCEPT ![u] = "ingest"]
          /\ UNCHANGED <<old, accountVars, storeVars, userDeleted, faults>>

WorkFails(u) ==
    /\ \/ pc[u] \in {"transcribe", "extract", "ingest"}
       \/ pc[u] = "working" /\ KindOf[u] = "document"
    /\ pc' = [pc EXCEPT ![u] = "failing"]
    /\ UNCHANGED <<old, accountVars, storeVars, userDeleted, faults>>

\* ingest: lock the row, check the fence, insert the memory rows (uncommitted).
IngestBegin(u) ==
    /\ pc[u] = "ingest"
    /\ pc' = [pc EXCEPT ![u] = IF Owned(u) THEN "ingesting" ELSE "failing"]
    /\ UNCHANGED <<old, accountVars, storeVars, userDeleted, faults>>

IngestVectors(u) ==
    /\ pc[u] = "ingesting"
    /\ vectors' = vectors \cup {u}
    /\ pc' = [pc EXCEPT ![u] = "vectored"]
    /\ UNCHANGED <<old, accountVars, temps, targets, memory, userDeleted, faults>>

\* Mutant: MySQL is committed before Chroma is written.
CommitIngestFirst(u) ==
    /\ pc[u] \in {"ingesting", "vectored"}
    /\ Owned(u)
    /\ doc' = [doc EXCEPT ![u] = "indexed"]
    /\ leased' = leased \ {u}
    /\ memory' = memory \cup {u}
    /\ UNCHANGED <<old, resv, resvRow, docRow, temps, targets, vectors, userDeleted>>

\* The fenced UPDATE to 'indexed' and COMMIT.
CommitIngest(u) ==
    /\ pc[u] = "vectored"
    /\ Owned(u)
    /\ doc' = [doc EXCEPT ![u] = "indexed"]
    /\ leased' = leased \ {u}
    /\ memory' = memory \cup {u}
    /\ UNCHANGED <<old, resv, resvRow, docRow, temps, targets, vectors, userDeleted>>

IngestCommit(u) ==
    /\ CommitIngest(u)
    /\ pc' = [pc EXCEPT ![u] = "replacing"]
    /\ UNCHANGED faults

\* COMMIT succeeded, the acknowledgement did not arrive: ingest raises.
IngestAckLost(u) ==
    /\ faults < MaxFaults
    /\ CommitIngest(u)
    /\ pc' = [pc EXCEPT ![u] = "failing"]
    /\ faults' = faults + 1

\* Rollback after any failure; vectors already written stay in Chroma.
IngestFails(u) ==
    /\ pc[u] \in {"ingesting", "vectored"}
    /\ pc' = [pc EXCEPT ![u] = "failing"]
    /\ UNCHANGED <<old, accountVars, storeVars, userDeleted, faults>>

WorkerFails(u) ==
    /\ pc[u] = "failing"
    /\ FailDocument(u)
    /\ pc' = [pc EXCEPT ![u] = "done"]
    /\ UNCHANGED <<old, userDeleted, faults>>

\* Mutant: the old versions are deleted as soon as the new one is extracted.
ReplaceOldEarly(u) ==
    /\ pc[u] \in {"extract", "replacing"}
    /\ \E v \in old[u] :
          /\ DeleteDocument(v)
          /\ old' = [old EXCEPT ![u] = @ \ {v}]
    /\ UNCHANGED <<pc, userDeleted, faults>>

\* Delete the documents the new one replaces, one transaction each.
ReplaceOld(u) ==
    /\ pc[u] = "replacing"
    /\ \E v \in old[u] :
          /\ DeleteDocument(v)
          /\ old' = [old EXCEPT ![u] = @ \ {v}]
    /\ UNCHANGED <<pc, userDeleted, faults>>

Finish(u) ==
    /\ pc[u] = "replacing" /\ old[u] = {}
    /\ pc' = [pc EXCEPT ![u] = "done"]
    /\ UNCHANGED <<old, accountVars, storeVars, userDeleted, faults>>

\* A compensation, a replacement or an ownership check outside the worker's
\* try block that raises: the request or the worker ends there and what it
\* left is for the watchdog.
StepRaises(u) ==
    /\ faults < MaxFaults
    /\ \/ pc[u] \in {"queued", "abandoning", "compensating", "failing", "replacing"}
       \/ pc[u] = "working" /\ KindOf[u] = "audio"
    /\ pc' = [pc EXCEPT ![u] = "dead"]
    /\ faults' = faults + 1
    /\ UNCHANGED <<old, accountVars, storeVars, userDeleted>>

\* The process dies: open transactions roll back, background tasks are lost.
Crash ==
    /\ faults < MaxFaults
    /\ \E u \in Upload : pc[u] \notin {"new", "done", "dead"}
    /\ pc' = [u \in Upload |-> IF pc[u] \in {"new", "done"} THEN pc[u] ELSE "dead"]
    /\ faults' = faults + 1
    /\ UNCHANGED <<old, accountVars, storeVars, userDeleted>>

-----------------------------------------------------------------------------
(* Time, startup recovery and the 60 second watchdog.                      *)

Running(u) == pc[u] \notin {"new", "done", "dead"}

ReservationExpires(u) ==
    /\ resv[u] = "active"
    /\ SlowRequests \/ ~Running(u)
    /\ resv' = [resv EXCEPT ![u] = "expired"]
    /\ UNCHANGED <<requestVars, doc, leased, resvRow, docRow, storeVars, userDeleted, faults>>

LeaseExpires(u) ==
    /\ u \in leased
    /\ leased' = leased \ {u}
    /\ UNCHANGED <<requestVars, resv, doc, resvRow, docRow, storeVars, userDeleted, faults>>

\* recover_quota_state
RecoverReservation(u) ==
    /\ resv[u] = "expired"
    /\ AbandonReservation(u)
    /\ UNCHANGED pc

\* recover_stale_tasks -> fail_stale_document: processing and lease expired.
RecoverStale(u) ==
    /\ Owned(u) /\ u \notin leased
    /\ Transfer(u, "failed")
    /\ UNCHANGED <<requestVars, userDeleted, faults>>

\* cleanup_pending releases a row only after its file and vectors are gone.
ReleaseReservationRow(u) ==
    /\ resvRow[u] # "none"
    /\ temps' = IF resvRow[u] = "temp" THEN temps \ {u} ELSE temps
    /\ targets' = IF resvRow[u] = "target" THEN targets \ {u} ELSE targets
    /\ resvRow' = [resvRow EXCEPT ![u] = "none"]
    /\ UNCHANGED <<requestVars, resv, doc, leased, docRow, vectors, memory, userDeleted, faults>>

ReleaseDocumentRow(u) ==
    /\ docRow[u] # "none"
    /\ targets' = IF docRow[u] = "target" THEN targets \ {u} ELSE targets
    /\ vectors' = vectors \ {u}
    /\ docRow' = [docRow EXCEPT ![u] = "none"]
    /\ UNCHANGED <<requestVars, resv, doc, leased, resvRow, temps, memory, userDeleted, faults>>

\* The file goes but Chroma fails, or both go and the COMMIT fails: the row
\* stays and the next pass repeats the work.
CleanupDeferred(u) ==
    /\ faults < MaxFaults
    /\ docRow[u] # "none"
    /\ targets' = IF docRow[u] = "target" THEN targets \ {u} ELSE targets
    /\ vectors' \in {vectors, vectors \ {u}}
    /\ faults' = faults + 1
    /\ UNCHANGED <<requestVars, accountVars, temps, memory, userDeleted>>

-----------------------------------------------------------------------------
Request(u) ==
    \/ Reserve(u) \/ WriteTemp(u) \/ RenameTemp(u) \/ RequestFails(u)
    \/ Finalize(u) \/ FinalizeRejected(u) \/ FinalizeAckLost(u)
    \/ Abandon(u) \/ Compensate(u)

Worker(u) ==
    \/ AcquireLock(u) \/ KeepWaiting(u) \/ BeginWork(u) \/ Transcribed(u)
    \/ ExtractProgress(u) \/ Extracted(u) \/ WorkFails(u)
    \/ IngestBegin(u) \/ IngestVectors(u) \/ IngestCommit(u)
    \/ IngestAckLost(u) \/ IngestFails(u) \/ WorkerFails(u)
    \/ ReplaceOld(u) \/ Finish(u) \/ StepRaises(u)

Housekeeping(u) ==
    \/ ReservationExpires(u) \/ LeaseExpires(u)
    \/ RecoverReservation(u) \/ RecoverStale(u)
    \/ ReleaseReservationRow(u) \/ ReleaseDocumentRow(u) \/ CleanupDeferred(u)

Next ==
    \/ \E u \in Upload : Request(u) \/ Worker(u) \/ UserDelete(u) \/ Housekeeping(u)
    \/ Crash

Spec == Init /\ [][Next]_vars

(* Fairness. Time passes; the watchdog thread runs both recoveries and the *)
(* cleanup pass every minute for as long as the process is up (and startup *)
(* runs them again after a crash); a running worker takes its next step.   *)
(* Nothing is assumed of users or of failures.                             *)
Fairness ==
    \A u \in Upload :
        /\ WF_vars(WriteTemp(u) \/ RenameTemp(u) \/ RequestFails(u))
        /\ WF_vars(Finalize(u) \/ FinalizeRejected(u))
        /\ WF_vars(Abandon(u)) /\ WF_vars(Compensate(u))
        /\ WF_vars(AcquireLock(u))
        /\ WF_vars(BeginWork(u)) /\ WF_vars(Transcribed(u)) /\ WF_vars(Extracted(u))
        /\ WF_vars(IngestBegin(u) \/ IngestVectors(u) \/ IngestCommit(u))
        /\ WF_vars(WorkerFails(u)) /\ WF_vars(ReplaceOld(u)) /\ WF_vars(Finish(u))
        /\ WF_vars(ReservationExpires(u)) /\ WF_vars(LeaseExpires(u))
        /\ WF_vars(RecoverReservation(u)) /\ WF_vars(RecoverStale(u))
        /\ WF_vars(ReleaseReservationRow(u)) /\ WF_vars(ReleaseDocumentRow(u))

FairSpec == Spec /\ Fairness

-----------------------------------------------------------------------------
(* Correctness.                                                            *)

\* Every file on disk has exactly the owner that will remove or keep it: a
\* reservation, a live document, or a cleanup row with its path. A crash, a
\* failed write, a lost acknowledgement or a failed cleanup never strands one
\* (quota.py: "durable cleanup ownership").
EveryFileOwned ==
    \A u \in Upload :
        /\ u \in temps => resv[u] # "none" \/ resvRow[u] = "temp"
        /\ u \in targets => \/ resv[u] # "none" \/ resvRow[u] = "target"
                            \/ u \in LiveDocs   \/ docRow[u] = "target"

\* Once a request is over, a file it wrote is known to some table: what the
\* module's docstring calls durable cleanup ownership. It fails when a request
\* is still writing while its reservation expires (run upload_slow_request).
NoLeakedFile ==
    \A u \in Upload :
        ~Running(u) /\ u \in temps \cup targets =>
            \/ u \in Reservations \cup ResvRows
            \/ u \in LiveDocs \cup ChargedDocRows

\* Chroma entries and memory rows of a document that failed or was deleted are
\* gone, or the ledger still owes their removal: a worker whose fence is lost
\* leaves nothing behind.
NoOrphanIndexData ==
    \A u \in Upload :
        /\ u \in vectors => u \in LiveDocs \/ docRow[u] # "none"
        /\ u \in memory => doc[u] = "indexed"

\* A document shown as indexed has its file, its vectors and its memory rows:
\* no cleanup pass of an earlier owner takes them away.
IndexedIsComplete ==
    \A u \in Upload : doc[u] = "indexed" =>
        /\ u \in vectors /\ u \in memory
        /\ Physical(u) => u \in targets
        /\ docRow[u] = "none"

\* Reservations, documents and the cleanup ledger together never hold more
\* than the limits: no transfer between them loses or doubles a charge.
QuotaRespected ==
    /\ \A p \in Project : ChargedBytes(ProjectUploads(p)) <= ProjectLimit
    /\ \A x \in User : ChargedBytes(UserUploads(x)) <= UserLimit

\* The limits bound what the disk really holds, also while cleanup is failing.
DiskWithinQuota ==
    \A p \in Project :
        /\ Bytes(ProjectUploads(p) \cap (temps \cup targets)) <= ProjectLimit
        /\ Cardinality(ProjectUploads(p) \cap (temps \cup targets)) <= CountLimit

\* Unless a user deleted something, a document that a newer upload of the same
\* file replaced left an indexed version behind: replacement happens after the
\* new version is indexed, never before and never for a failed one.
NoVersionLost ==
    \A v \in Upload : doc[v] = "deleted" /\ v \notin userDeleted =>
        \E u \in Upload : SameFile(u, v) /\ (doc[u] = "indexed" \/ u \in userDeleted)

\* When every upload has run to its end, a file has at most one live version,
\* in whatever order concurrent uploads of it finalized and were processed.
VersionsConverge ==
    (\A u \in Upload : pc[u] \in {"new", "done"}) =>
        \A u, v \in LiveDocs : SameFile(u, v) => u = v

NoRevival ==
    \A u \in Upload :
        /\ doc[u] = "failed" => doc'[u] \in {"failed", "deleted"}
        /\ doc[u] = "deleted" => doc'[u] = "deleted"

\* A failed or deleted document is never processed or published again, by a
\* worker that was slow, was declared stale or was overtaken by a DELETE.
TerminalStaysTerminal == [][NoRevival]_vars

\* A cleanup row gives its quota back only when its file, its vectors and the
\* document's memory rows are gone, whatever worker is still running.
ReleasedMeansGone ==
    [][\A u \in Upload :
          /\ docRow[u] # "none" /\ docRow'[u] = "none" =>
                 u \notin targets' \cup temps' \cup vectors' \cup memory'
          /\ resvRow[u] # "none" /\ resvRow'[u] = "none" =>
                 u \notin targets' \cup temps']_vars

\* Every upload settles: in the end no reservation, no processing document and
\* no cleanup row is left, and the disk holds the files of indexed documents.
Settled ==
    /\ Reservations = {} /\ ResvRows = {} /\ DocRows = {}
    /\ \A u \in Upload : doc[u] # "processing"
    /\ temps = {}
    /\ targets = {u \in Upload : doc[u] = "indexed" /\ Physical(u)}

EventuallySettled == <>[]Settled

-----------------------------------------------------------------------------
(* The inductive strengthening the proofs use.                             *)

\* An upload is in at most one of the tables, and where its request or worker
\* stands agrees with the table it is in.
RowsAgree ==
    \A u \in Upload :
        /\ resv[u] # "none" => doc[u] = "absent" /\ resvRow[u] = "none"
        /\ resvRow[u] # "none" => doc[u] = "absent"
        /\ docRow[u] # "none" => doc[u] \in {"failed", "deleted"}
        /\ pc[u] = "new" => resv[u] = "none" /\ doc[u] = "absent" /\ resvRow[u] = "none"
        /\ pc[u] \in {"reserved", "temp", "written", "abandoning"} => doc[u] = "absent"
        /\ doc[u] = "absent" => pc[u] \in {"new", "reserved", "temp", "written",
                                           "abandoning", "done", "dead"}
        /\ RowLocked(u) => doc[u] = "processing"

\* Where the bytes are at every point of the request and the worker.
ContentAgrees ==
    \A u \in Upload :
        /\ pc[u] \in {"reserved", "temp", "written"} => resv[u] = "active"
        /\ pc[u] \in {"new", "reserved"} => u \notin temps
        /\ pc[u] \in {"new", "reserved", "temp"} => u \notin targets
        /\ pc[u] \in {"reserved", "temp"} => Physical(u)
        /\ pc[u] = "written" => u \notin temps /\ (Physical(u) => u \in targets)
        /\ pc[u] = "vectored" => u \in vectors
        /\ u \in temps \cup targets => Physical(u)
        /\ u \in temps => u \notin targets
        /\ u \in temps => resv[u] # "none" \/ resvRow[u] = "temp"
        /\ u \in targets => \/ resv[u] # "none" \/ resvRow[u] = "target"
                            \/ u \in LiveDocs   \/ docRow[u] = "target"
        /\ u \in vectors => u \in LiveDocs \/ docRow[u] \in {"target", "null"}
        /\ u \in LiveDocs /\ Physical(u) => u \in targets
        /\ doc[u] = "indexed" <=> u \in memory
        /\ doc[u] = "indexed" => u \in vectors

-----------------------------------------------------------------------------
(* Refinement: the tables together implement the abstract ledger.          *)

phaseOf ==
    [u \in Upload |->
        IF resv[u] # "none" \/ doc[u] = "processing" THEN "held"
        ELSE IF doc[u] = "indexed" THEN "published"
        ELSE IF u \in ResvRows \cup ChargedDocRows THEN "releasing"
        ELSE IF pc[u] = "new" THEN "new" ELSE "free"]

Ledger == INSTANCE QuotaLedger WITH
    Count <- Cardinality, phase <- phaseOf,
    stored <- temps \cup targets \cup vectors

\* Every behaviour of the upload code is one of the abstract ledger: admission
\* within the limits, content only while charged, release only when erased.
ImplementsLedger == Ledger!Spec

=============================================================================
