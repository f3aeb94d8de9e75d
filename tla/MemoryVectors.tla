--------------------------- MODULE MemoryVectors ---------------------------
(* The vectors of single memory rows.  Each request commits to MySQL, reads the row *)
(* again where it needs it, and then updates Chroma as best it can; a start of the   *)
(* server brings both together before it serves requests.                            *)
(*   backend/retriever/memory_vector.py  backend/api/memory.py  api/suggestion.py     *)
EXTENDS Naturals, FiniteSets

CONSTANTS Row, Thread, None,
          RepoRow,   \* decisions of a repository's published generation
          MaxText,   \* bound: versions of the text of a row
          MaxFaults  \* bound: failing vector calls, deaths of the process

VARIABLES row,     \* of each id: whether it exists, its text, what supersedes it: a row
                   \* like it or a decision of the repository
          vector,  \* the text a row's vector was made of, 0 without a vector
          op,      \* requests between their commit and the end of their vector call
          serving, \* FALSE while the server starts
          wrong,   \* history: rows whose vector may have been left behind since the start
          old,     \* history: rows whose vector may be of an older text
          faults
vars == <<row, vector, op, serving, wrong, old, faults>>

NoRow == [exists |-> FALSE, text |-> 0, by |-> None]
(* active_memory: a row without a successor that exists; a decision of the        *)
(* repository that supersedes a row is always of the published generation.          *)
Active(m) ==
    /\ row[m].exists /\ row[m].by \notin RepoRow
    /\ \A p \in Row : row[m].by = p => ~row[p].exists
Fault == faults < MaxFaults /\ faults' = faults + 1

Init == /\ row = [m \in Row |-> NoRow] /\ vector = [m \in Row |-> 0]
        /\ op = {} /\ serving = TRUE
        /\ wrong = {} /\ old = {} /\ faults = 0

-----------------------------------------------------------------------------
(* A request has committed; `text` is what it will upsert, 0 to delete, None before *)
(* it has read the row again.  Requests on one row that overlap may undo each other. *)
Busy(m) == \E o \in op : o.row = m
Commit(m, text) ==
    /\ serving
    /\ LET free == Thread \ {o.thread : o \in op}
       IN  free # {} /\ op' = op \cup {[thread |-> CHOOSE t \in free : TRUE,
                                        row |-> m, text |-> text]}
    /\ old' = IF Busy(m) THEN old \cup {m} ELSE old
Disturbed(m) == IF Busy(m) THEN {m} ELSE {}

CreateMemory(m) ==
    /\ ~row[m].exists /\ row[m].text = 0
    /\ row' = [row EXCEPT ![m] = [NoRow EXCEPT !.exists = TRUE, !.text = 1]]
    /\ Commit(m, 1)
    /\ wrong' = wrong \cup Disturbed(m)
    /\ UNCHANGED <<vector, serving, faults>>

(* The row is read from active_memory after the commit; also AcceptDueDate. *)
UpdateMemory(m) ==
    /\ row[m].exists /\ row[m].text < MaxText
    /\ row' = [row EXCEPT ![m].text = @ + 1]
    /\ Commit(m, None)
    /\ wrong' = wrong \cup Disturbed(m)
    /\ UNCHANGED <<vector, serving, faults>>

(* A suggestion to supersede m by p is accepted. *)
AcceptSupersede(m, p) ==
    /\ m # p /\ Active(m) /\ (p \in Row => Active(p))
    /\ row' = [row EXCEPT ![m].by = p]
    /\ Commit(m, 0)
    /\ wrong' = wrong \cup Disturbed(m)
    /\ UNCHANGED <<vector, serving, faults>>

(* What the row superseded is active again (ON DELETE SET NULL), without a vector.   *)
DeleteMemory(m) ==
    /\ row[m].exists
    /\ row' = [p \in Row |-> IF p = m THEN [row[m] EXCEPT !.exists = FALSE, !.by = None]
                             ELSE IF row[p].by = m THEN [row[p] EXCEPT !.by = None]
                             ELSE row[p]]
    /\ Commit(m, 0)
    /\ wrong' = wrong \cup Disturbed(m) \cup {p \in Row : row[p].by = m}
    /\ UNCHANGED <<vector, serving, faults>>

(* A new generation of the repository is published, or one of its decisions or the *)
(* whole repository is deleted: what the decisions superseded is active again, and   *)
(* no vector is made (repository.py:590-597).                                         *)
RetireDecisions(decisions) ==
    /\ serving
    /\ LET freed == {m \in Row : row[m].by \in decisions}
       IN  /\ row' = [m \in Row |-> IF m \in freed THEN [row[m] EXCEPT !.by = None] ELSE row[m]]
           /\ wrong' = wrong \cup freed
    /\ UNCHANGED <<vector, op, serving, old, faults>>

(* A row that is not active any more: 500 after the commit (memory.py:18-24,243).   *)
ReadRow(o) ==
    /\ o \in op /\ o.text = None
    /\ op' = (op \ {o}) \cup (IF Active(o.row) THEN {[o EXCEPT !.text = row[o.row].text]} ELSE {})
    /\ UNCHANGED <<row, vector, serving, wrong, old, faults>>
(* It cannot be read: 500, or a warning, and the vector is not touched.              *)
ReadRowFails(o) ==
    /\ o \in op /\ o.text = None /\ Fault
    /\ op' = op \ {o}
    /\ old' = old \cup {o.row}
    /\ UNCHANGED <<row, vector, serving, wrong>>

(* upsert_memory_vector, delete_memory_vector. *)
VectorCall(o) ==
    /\ o \in op /\ o.text # None
    /\ vector' = [vector EXCEPT ![o.row] = o.text]
    /\ op' = op \ {o}
    /\ UNCHANGED <<row, serving, wrong, old, faults>>
VectorCallFails(o) ==
    /\ o \in op /\ o.text # None /\ Fault
    /\ op' = op \ {o}
    /\ wrong' = wrong \cup {o.row} /\ old' = old \cup {o.row}
    /\ UNCHANGED <<row, vector, serving>>

Crash ==
    /\ serving /\ Fault
    /\ serving' = FALSE /\ op' = {}
    /\ LET lost == {o.row : o \in op}
       IN  wrong' = wrong \cup lost /\ old' = old \cup lost
    /\ UNCHANGED <<row, vector>>

-----------------------------------------------------------------------------
\* Mutant: vectors of inactive rows go, missing ones stay missing.
ReconciledOnlyCleanup == [m \in Row |-> IF Active(m) THEN vector[m] ELSE 0]

(* _reconcile_memory_vector_snapshot: it compares ids, not texts. *)
Reconciled == [m \in Row |-> IF ~Active(m) THEN 0
                             ELSE IF vector[m] # 0 THEN vector[m] ELSE row[m].text]
(* backfill_memory_vectors; that it fails is logged, the server starts all the same. *)
Backfill ==
    /\ ~serving /\ serving' = TRUE
    /\ vector' = Reconciled
    /\ wrong' = {} /\ old' = old \cup wrong
    /\ UNCHANGED <<row, op, faults>>
BackfillFails ==
    /\ ~serving /\ serving' = TRUE /\ Fault
    /\ vector' \in {vector, [m \in Row |-> IF Active(m) THEN vector[m] ELSE 0]}
    /\ UNCHANGED <<row, op, wrong, old>>

Next == \/ \E m \in Row : \/ CreateMemory(m) \/ UpdateMemory(m) \/ DeleteMemory(m)
                          \/ \E p \in Row \cup RepoRow : AcceptSupersede(m, p)
        \/ \E decisions \in SUBSET RepoRow : RetireDecisions(decisions)
        \/ \E o \in op : ReadRow(o) \/ ReadRowFails(o) \/ VectorCall(o) \/ VectorCallFails(o)
        \/ Crash \/ Backfill \/ BackfillFails
Spec == Init /\ [][Next]_vars

-----------------------------------------------------------------------------
(* The candidates that a new decision is compared with are found by their vectors.   *)
(* When no request is under way on a row, it has a vector exactly if it is active,    *)
(* and of its present text: what a start put right stays right, unless since then a   *)
(* vector call failed or the row could not be read for it, two requests on the row    *)
(* overlapped, or what superseded the row was deleted or retired by a publication       *)
(* (suggestion.py:307-309, memory_vector.py:218-229, repository.py:590-597).           *)
VectorsFollowRows ==
    \A m \in Row : serving /\ ~Busy(m) /\ m \notin wrong =>
        /\ vector[m] # 0 <=> Active(m)
        /\ Active(m) /\ m \notin old => vector[m] = row[m].text
=============================================================================
