-------------------------- MODULE ProjectLifecycle --------------------------
(* The deletion of a project against the uploads, ingests and removals of its    *)
(* documents and a repository sync: which row locks each takes in which order,   *)
(* and what is left of the project.  A thread's first lock is taken as it starts *)
(* (it holds nothing while it waits) and its last one as it commits.              *)
(*   src/backend/api/project.py  quota.py  pipeline/ingestor.py   *)
EXTENDS Naturals, FiniteSets, Sequences, SequencesExt

CONSTANTS Doc,       \* uploads into the project
          Users,     \* the uploading users, in the order of their ids
          OwnerOf,   \* [Doc -> user]: uploaded_by
          MaxTries,  \* the attempts of delete_project
          MaxFaults  \* failing file calls of a deletion

ASSUME LifecycleAssumption ==
    /\ Users \in Seq(ToSet(Users)) /\ OwnerOf \in [Doc -> ToSet(Users)]
    /\ IsFiniteSet(Doc) /\ MaxTries \in Nat /\ MaxFaults \in Nat

VARIABLES exists,   \* the projects row
          doc,      \* reservation or document row of each upload
          pending,  \* storage_cleanup_pending
          files, vectors, memory,
          sync,     \* a repository sync: idle, or past its rows, or past its chunks
          repoVectors,
          op, has,  \* each thread: its transaction, the number of its locks held
          known,    \* the users the deletion locks
          tries, faults
data == <<exists, doc, pending, files, vectors, memory, sync, repoVectors>>
vars == <<data, op, has, known, tries, faults>>

Project == <<"project">>
Up(d) == <<"up", d>>      \* the upload request, then its worker
Rm(d) == <<"rm", d>>      \* a user or the watchdog removing the document
Del == <<"delete">>
Thread == {Up(d) : d \in Doc} \cup {Rm(d) : d \in Doc} \cup {Del}

Init == /\ exists = TRUE
        /\ doc = [d \in Doc |-> "absent"]
        /\ pending = {} /\ files = {} /\ vectors = {} /\ memory = {}
        /\ sync = "idle" /\ repoVectors = FALSE
        /\ op = [t \in Thread |-> "idle"] /\ has = [t \in Thread |-> 0]
        /\ known = {} /\ tries = 0 /\ faults = 0

-----------------------------------------------------------------------------
(* The rows each transaction locks, in the order the code takes them.           *)
Rows(o, d) ==
    CASE o \in {"reserve", "finalize", "abandon"} -> <<{<<"user", OwnerOf[d]>>}, {Project}>>
      [] o = "transfer" -> <<{<<"user", OwnerOf[d]>>}, {Project}, {<<"doc", d>>}>>
      \* The document row, then the foreign key of the memory rows.
      [] o = "ingest" -> <<{<<"doc", d>>}, {Project}>>
UploadOps == {"reserve", "finalize", "abandon", "transfer", "ingest"}
Order == [o \in UploadOps |-> [d \in Doc |-> Rows(o, d)]]
DeleteOrder == [K \in SUBSET ToSet(Users) |->
    [k \in 1..Cardinality(K) |-> {<<"user", SelectSeq(Users, LAMBDA u : u \in K)[k]>>}]
      \o <<{Project}, {<<"doc", d>> : d \in Doc}>>]
OrderOf(t) == IF t = Del THEN DeleteOrder[known] ELSE Order[op[t]][t[2]]

\* Mutant: no probe; every document row is waited for.
NoneProcessingAssumed == TRUE
(* The probe reads without a lock: an ingest holds its document row and waits for *)
(* the project row, so waiting for the documents here could deadlock.              *)
NoneProcessing == \A d \in Doc : doc[d] # "processing"

Holds(t, row) == op[t] # "idle" /\ \E k \in 1..has[t] : row \in OrderOf(t)[k]
(* The deletion holds the users and k locks more. *)
Past(k) == op[Del] = "delete" /\ has[Del] = Cardinality(known) + k
(* An ingest shares the project row with other ingests. *)
Conflict(row, o, u) == ~(row = Project /\ o = "ingest" /\ op[u] = "ingest")
Holders(t, o, rows) == {u \in Thread \ {t} : \E r \in rows : Conflict(r, o, u) /\ Holds(u, r)}
Blockers(t) == IF \/ op[t] = "idle" \/ has[t] = Len(OrderOf(t))
                  \/ t = Del /\ Past(1) /\ ~(exists /\ NoneProcessing)
               THEN {}
               ELSE Holders(t, op[t], OrderOf(t)[has[t] + 1])

Begin(t, o) == /\ op[t] = "idle" /\ Holders(t, o, Order[o][t[2]][1]) = {}
               /\ op' = [op EXCEPT ![t] = o] /\ has' = [has EXCEPT ![t] = 1]
Acquire(t) ==
    /\ op[t] # "idle" /\ has[t] < Len(OrderOf(t)) - (IF op[t] \in {"delete", "ingest"} THEN 0 ELSE 1)
    /\ Blockers(t) = {}
    /\ has' = [has EXCEPT ![t] = @ + 1]
    /\ UNCHANGED <<data, op, known, tries, faults>>
AtLast(t, o) == op[t] = o /\ has[t] = Len(OrderOf(t)) - 1 /\ Blockers(t) = {}
(* COMMIT or ROLLBACK. *)
End(t) == /\ op' = [op EXCEPT ![t] = "idle"] /\ has' = [has EXCEPT ![t] = 0]

(* Threads of T that t waits for, directly or not: those in every set that holds *)
(* what t waits for and what its members wait for.                                *)
WaitsFor(t, T) ==
    LET waits == UNION {{u} \X (Blockers(u) \cap T) : u \in T \cup {t}}
        Closed(S) == \A edge \in waits : edge[1] \in S \cup {t} => edge[2] \in S
    IN  IF Blockers(t) = {} THEN {} ELSE {u \in T : \A S \in SUBSET T : Closed(S) => u \in S}
(* Error 1213: the transaction is rolled back and its caller answers 500, or, in *)
(* the worker, fails the document.                                                *)
Victim(t) == t \in WaitsFor(t, Thread) /\ End(t) /\ UNCHANGED <<data, known, tries, faults>>

-----------------------------------------------------------------------------
(* Uploads: quota.py under the locks of the user and the project. *)
Start(t, o) == Begin(t, o) /\ UNCHANGED <<known, tries, faults>>
StartUp(d) ==
    \/ /\ doc[d] = "absent" /\ exists /\ Start(Up(d), "reserve")
       /\ UNCHANGED data
    \* The file is written under no lock, or its writing fails.
    \/ /\ doc[d] = "reserved" /\ \E o \in {"finalize", "abandon"} : Start(Up(d), o)
       /\ files' = files \cup {d}
       /\ UNCHANGED <<exists, doc, pending, vectors, memory, sync, repoVectors>>
    \/ /\ doc[d] = "processing" /\ \E o \in {"ingest", "transfer"} : Start(Up(d), o)
       /\ UNCHANGED data
StartRm(d) == doc[d] \in {"processing", "indexed", "failed"} /\ Start(Rm(d), "transfer")
              /\ UNCHANGED data

Transaction(t, o, effect) == AtLast(t, o) /\ End(t) /\ effect /\ UNCHANGED <<known, tries, faults>>
Becomes(d, status) == doc' = [doc EXCEPT ![d] = status]
Reserve(d) == Transaction(Up(d), "reserve",
    /\ IF exists THEN Becomes(d, "reserved") ELSE UNCHANGED doc
    /\ UNCHANGED <<exists, pending, files, vectors, memory, sync, repoVectors>>)
Finalize(d) == Transaction(Up(d), "finalize",
    /\ Becomes(d, "processing")
    /\ UNCHANGED <<exists, pending, files, vectors, memory, sync, repoVectors>>)
Abandon(d) == Transaction(Up(d), "abandon",
    /\ Becomes(d, "deleted") /\ pending' = pending \cup {d}
    /\ UNCHANGED <<exists, files, vectors, memory, sync, repoVectors>>)

(* ingest: the memory rows if there are any (with the project's foreign key),     *)
(* then the vectors, then the commit, all under the lock of the document row.      *)
Ingesting(d) == op[Up(d)] = "ingest"
IngestVectors(d) ==
    /\ Ingesting(d) /\ doc[d] = "processing" /\ d \notin vectors
    /\ vectors' = vectors \cup {d}
    /\ UNCHANGED <<exists, doc, pending, files, memory, sync, repoVectors>>
    /\ UNCHANGED <<op, has, known, tries, faults>>
IngestEnds(d) ==
    /\ Ingesting(d) /\ doc[d] = "processing" /\ d \in vectors /\ End(Up(d))
    /\ \/ /\ Becomes(d, "indexed")
          /\ memory' = IF has[Up(d)] = 2 THEN memory \cup {d} ELSE memory
       \/ UNCHANGED <<doc, memory>>          \* rolled back; the worker then fails it
    /\ UNCHANGED <<exists, pending, files, vectors, sync, repoVectors>>
    /\ UNCHANGED <<known, tries, faults>>

(* transfer_document_to_cleanup: a failure of the worker, or a removal. *)
Transfer(t, d) == Transaction(t, "transfer",
    /\ IF /\ exists
          /\ doc[d] \in IF t = Rm(d) THEN {"processing", "indexed", "failed"} ELSE {"processing"}
       THEN /\ Becomes(d, IF t = Rm(d) THEN "deleted" ELSE "failed")
            /\ pending' = pending \cup {d} /\ memory' = memory \ {d}
       ELSE UNCHANGED <<doc, pending, memory>>
    /\ UNCHANGED <<exists, files, vectors, sync, repoVectors>>)
(* cleanup_pending releases a row once its file and vectors are gone. *)
Cleanup(d) ==
    /\ d \in pending /\ pending' = pending \ {d}
    /\ ~\E t \in Thread : Holds(t, Project)
    /\ files' = files \ {d} /\ vectors' = vectors \ {d}
    /\ UNCHANGED <<exists, doc, memory, sync, repoVectors>>
    /\ UNCHANGED <<op, has, known, tries, faults>>

-----------------------------------------------------------------------------
(* The last source of a repository sync: its rows are committed (with the         *)
(* project's foreign key), its chunks stored, and a run that still owns the       *)
(* repository publishes, one that lost it sweeps what it stored.                   *)
SyncRows == sync = "idle" /\ exists /\ ~Holds(Del, Project) /\ sync' = "rows" /\ UNCHANGED repoVectors
SyncChunks == sync = "rows" /\ sync' = "chunks" /\ repoVectors' = TRUE
SyncEnds == sync = "chunks" /\ sync' = "idle" /\ repoVectors' = exists
Sync == /\ SyncRows \/ SyncChunks \/ SyncEnds
        /\ UNCHANGED <<exists, doc, pending, files, vectors, memory>>
        /\ UNCHANGED <<op, has, known, tries, faults>>

-----------------------------------------------------------------------------
(* delete_project, by the owner.                                                  *)
Uploaders == {OwnerOf[d] : d \in {e \in Doc : doc[e] \notin {"absent", "deleted"}}}
Settled == UNCHANGED <<data, faults>>
(* _project_upload_users, without a lock. *)
StartDelete == /\ exists /\ op[Del] = "idle"
               /\ op' = [op EXCEPT ![Del] = "delete"] /\ UNCHANGED has
               /\ known' = Uploaders /\ tries' = 1 /\ Settled
DeleteEnds == End(Del) /\ tries' = 0 /\ known' = {}

(* 404 without the project, 409 while a document is processed. *)
Probe == Past(1) /\ (~exists \/ ~NoneProcessing) /\ DeleteEnds /\ Settled
LockDocuments == Past(1) /\ exists /\ NoneProcessing /\ Acquire(Del)
(* Users appeared since they were listed: start over with them locked too. *)
Retry ==
    /\ Past(2) /\ ~(Uploaders \subseteq known)
    /\ \/ /\ tries < MaxTries
          /\ has' = [has EXCEPT ![Del] = 0] /\ UNCHANGED op
          /\ known' = known \cup Uploaders /\ tries' = tries + 1
       \/ tries = MaxTries /\ DeleteEnds
    /\ Settled
\* Mutant: the cleanup ledger is not looked at.
BusyIgnoresLedger == \E d \in Doc : doc[d] \in {"reserved", "processing"}

(* 409: cleanup, an upload or a worker is under way. *)
Busy == pending # {} \/ \E d \in Doc : doc[d] \in {"reserved", "processing"}
Checked == Past(2) /\ Uploaders \subseteq known
RefuseBusy == Checked /\ Busy /\ DeleteEnds /\ Settled

(* Chroma, then the files, then the rows: the first two cannot be rolled back.   *)
DeleteChroma ==
    /\ Checked /\ ~Busy
    /\ op' = [op EXCEPT ![Del] = "files"] /\ vectors' = {} /\ repoVectors' = FALSE
    /\ UNCHANGED <<exists, doc, pending, files, memory, sync, has, known, tries, faults>>
HasRow(d) == doc[d] \in {"indexed", "failed"}
DeleteRows ==
    /\ op[Del] = "files"
    /\ \/ /\ files' = {d \in files : ~HasRow(d)}
          /\ exists' = FALSE
          /\ doc' = [d \in Doc |-> "deleted"] /\ memory' = {}
          /\ UNCHANGED faults
       \/ /\ faults < MaxFaults /\ faults' = faults + 1
          /\ files' \in SUBSET files /\ {d \in files : ~HasRow(d)} \subseteq files'
          /\ UNCHANGED <<exists, doc, memory>>
    /\ DeleteEnds
    /\ UNCHANGED <<pending, vectors, sync, repoVectors>>

Next == \/ \E t \in Thread : Victim(t)
        \/ \E t \in Thread \ {Del} : Acquire(t)
        \/ has[Del] < Cardinality(known) + 1 /\ Acquire(Del)
        \/ \E d \in Doc : \/ StartUp(d) \/ StartRm(d) \/ Reserve(d) \/ Finalize(d) \/ Abandon(d)
                          \/ IngestVectors(d) \/ IngestEnds(d)
                          \/ Transfer(Up(d), d) \/ Transfer(Rm(d), d) \/ Cleanup(d)
        \/ Sync
        \/ StartDelete \/ Probe \/ LockDocuments \/ Retry \/ RefuseBusy
        \/ DeleteChroma \/ DeleteRows
Spec == Init /\ [][Next]_vars

-----------------------------------------------------------------------------
(* A project is whole or gone: when it is gone, no file, vector, memory, ledger  *)
(* entry or unfinished upload of it is left; while it is there and no     *)
(* deletion is past its point of no return, an indexed document has its vectors   *)
(* and its file, however uploads, removals and a deletion interleave              *)
(* (api/project.py:183-287).                                                      *)
ProjectWhole ==
    /\ ~exists =>
          /\ files = {} /\ vectors = {} /\ memory = {} /\ pending = {}
          /\ \A d \in Doc : doc[d] \in {"absent", "deleted"}
    /\ exists /\ faults = 0 /\ op[Del] # "files" =>
          \A d \in Doc : doc[d] = "indexed" => d \in files \cap vectors

(* "Waiting for every document here would invert that order and can deadlock"      *)
(* (api/project.py:197): the deletion is in no deadlock with uploads, ingests and  *)
(* removals, though ingests and removals deadlock with each other.                 *)
DeletionNeverDeadlocks == Del \notin WaitsFor(Del, Thread)

(* "... Vector DB ... are deleted together" (docs/API_명세서.md:322): once the     *)
(* project is gone and no sync of it runs, no vector of it is left.                 *)
NoVectorsLeft == ~exists /\ sync = "idle" => ~repoVectors /\ vectors = {}
=============================================================================
