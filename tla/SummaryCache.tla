---------------------------- MODULE SummaryCache ----------------------------
(* The project summary: one text per project, derived from the memory rows.   *)
(* An upload merges its new items into the previous text; a deletion, and a row *)
(* that is accepted to be superseded, rebuild the text from the rows that are    *)
(* left; a repository publication deletes it.  Merging and rebuilding ask a        *)
(* language model between reading and writing, under a lock of the project that     *)
(* publication takes too, and the deletion of a repository does not.                 *)
(*   src/backend/project_memory.py and its callers                                   *)
(* A text is the set of what it mentions: uploads and repository generations.         *)
EXTENDS Naturals, FiniteSets

CONSTANTS Upload,     \* uploads, each contributing items
          Old,          \* Old[u]: the earlier versions that upload u replaces
          Git,          \* the uploads that are git logs
          Refresher,    \* deletions whose rebuild is under way
          MaxGen,       \* repository generations
          MaxFaults     \* model calls and deletions that fail, and restarts

ASSUME SummaryAssumption ==
    /\ Upload \cap Refresher = {} /\ {"free", "nobody", "repo"} \cap (Upload \cup Refresher) = {}
    /\ MaxGen \in Nat /\ MaxFaults \in Nat

VARIABLES stored,   \* uploads whose rows are in the table
          by,       \* superseded_by of those rows: an upload, or a row of the repository
          gen,      \* the published repository generation, 0 for none
          last,     \* the last generation that was published
          summary,  \* project_memory.summary
          lock,     \* project_memory_write_lock
          pc, seen, \* of workers and refreshers: where they are, the text they read
          merged,   \* history: merged since the text was deleted, live at each rebuild since
          quiet,    \* history: rows that came or went with no rebuild started for them,
                    \*   since a rebuild last read the rows
          removed,  \* history: generations deleted with their repository, perhaps in a text
          faults
rowVars == <<stored, by>>
vars == <<stored, by, gen, last, summary, lock, pc, seen, merged, quiet, removed, faults>>

Proc == Upload \cup Refresher
Text == [uploads: SUBSET Upload, gens: SUBSET (1..MaxGen)]
NoText == [uploads |-> {}, gens |-> {}]
(* active_memory: the view hides superseded rows. *)
live == {u \in stored : by[u] = "nobody"}
Rows == [uploads |-> live, gens |-> {gen} \ {0}]
WorkerPc == {"new", "merge", "calling", "replace", "empty", "done"}
RefreshPc == {"idle", "waiting", "calling"}

Init == /\ stored = {} /\ by = [u \in Upload |-> "nobody"]
        /\ gen = 0 /\ last = 0
        /\ summary = NoText
        /\ lock = "free"
        /\ pc = [p \in Proc |-> IF p \in Upload THEN "new" ELSE "idle"]
        /\ seen = [p \in Proc |-> NoText]
        /\ merged = {} /\ quiet = {} /\ removed = {} /\ faults = 0

Goto(p, l) == pc' = [pc EXCEPT ![p] = l]
(* RLock: the holder may enter again, as the writers inside regenerate do. *)
CanEnter(p) == lock \in {"free", p}
Enter(p, text) == lock = "free" /\ lock' = p /\ seen' = [seen EXCEPT ![p] = text]
Leave(p) == lock' = "free" /\ seen' = [seen EXCEPT ![p] = NoText]
Fault == faults < MaxFaults /\ faults' = faults + 1
(* refresh_project_memory_after_delete is called by a request of its own. *)
Spawn(r) == pc[r] = "idle" /\ Goto(r, "waiting")

(* Rows go, and what they superseded is live again (ON DELETE SET NULL). *)
Freed(S) == {u \in stored : by[u] \in S}
DeleteRows(S) ==
    /\ stored' = stored \ S
    /\ by' = [u \in Upload |-> IF u \in S \/ by[u] \in S THEN "nobody" ELSE by[u]]

-----------------------------------------------------------------------------
(* Documents merge first and then replace their old versions; git logs the     *)
(* other way round.                                                            *)
First(u) == IF u \in Git THEN "replace" ELSE "merge"
After(u, step) == IF (u \in Git) = (step = "merge") THEN "done"
                  ELSE IF step = "merge" THEN "replace" ELSE "merge"
Replaced(u) == IF pc[u] = "empty" THEN "done" ELSE After(u, "replace")

Ingest(u) ==
    /\ pc[u] = "new"
    /\ \A o \in Old[u] : pc[o] = "done"
    /\ \/ stored' = stored \cup {u} /\ quiet' = quiet \cup {u} /\ Goto(u, First(u))
       \/ Goto(u, "empty") /\ UNCHANGED <<stored, quiet>>   \* nothing was extracted
    /\ UNCHANGED <<by, gen, last, summary, lock, seen, merged, removed, faults>>

\* Mutant: the lock covers the reading and the writing, not the call between them.
BeginMergeUnlocked(u) ==
    /\ pc[u] = "merge" /\ lock = "free"
    /\ seen' = [seen EXCEPT ![u] = summary]
    /\ Goto(u, "calling")
    /\ UNCHANGED <<rowVars, gen, last, summary, lock, merged, quiet, removed, faults>>

BeginMerge(u) ==
    /\ pc[u] = "merge" /\ Enter(u, summary)
    /\ Goto(u, "calling")
    /\ UNCHANGED <<rowVars, gen, last, summary, merged, quiet, removed, faults>>

(* Its rows may have gone, or been superseded, meanwhile. *)
EndMerge(u) ==
    /\ pc[u] = "calling" /\ CanEnter(u)
    /\ summary' = [seen[u] EXCEPT !.uploads = @ \cup {u}]
    /\ merged' = merged \cup {u}
    /\ quiet' = IF u \in live THEN quiet \ {u} ELSE quiet \cup {u}
    /\ Leave(u) /\ Goto(u, After(u, "merge"))
    /\ UNCHANGED <<rowVars, gen, last, removed, faults>>

MergeFails(u) ==
    /\ pc[u] = "calling" /\ Fault
    /\ Leave(u) /\ Goto(u, After(u, "merge"))
    /\ UNCHANGED <<rowVars, gen, last, summary, merged, quiet, removed>>

(* The old versions go; only the document path rebuilds the text.  A document with   *)
(* nothing to merge still passes through the lock before.                             *)
Replace(u) ==
    /\ pc[u] \in {"replace", "empty"}
    /\ pc[u] = "empty" /\ u \notin Git => CanEnter(u)
    /\ DeleteRows(Old[u])
    /\ \/ /\ Old[u] = {} \/ u \in Git
          /\ quiet' = quiet \cup (Old[u] \cap stored) \cup Freed(Old[u])
          /\ Goto(u, Replaced(u))
       \/ /\ Old[u] # {} /\ u \notin Git
          /\ \E r \in Refresher :
                /\ pc[r] = "idle"
                /\ pc' = [pc EXCEPT ![u] = Replaced(u), ![r] = "waiting"]
          /\ UNCHANGED quiet
    /\ UNCHANGED <<gen, last, summary, lock, seen, merged, removed, faults>>

-----------------------------------------------------------------------------
\* Mutant: the last upload is deleted without a rebuild.
DeleteLast(u) ==
    /\ u \in stored
    /\ DeleteRows({u})
    /\ IF stored = {u} THEN UNCHANGED pc ELSE \E r \in Refresher : Spawn(r)
    /\ UNCHANGED <<gen, last, summary, lock, seen, merged, quiet, removed, faults>>

(* A person deletes an upload or its row. *)
Delete(u) ==
    /\ u \in stored
    /\ DeleteRows({u})
    /\ \E r \in Refresher : Spawn(r)
    /\ UNCHANGED <<gen, last, summary, lock, seen, merged, quiet, removed, faults>>

(* A person accepts that another live row, of an upload or of the repository,   *)
(* supersedes this one.                                                          *)
Supersede(u) ==
    /\ u \in live
    /\ \E v \in (live \ {u}) \cup (IF gen > 0 THEN {"repo"} ELSE {}) : by' = [by EXCEPT ![u] = v]
    /\ \E r \in Refresher : Spawn(r)
    /\ UNCHANGED <<stored, gen, last, summary, lock, seen, merged, quiet, removed, faults>>

(* A repository generation replaces the previous one, under the summary lock;    *)
(* what a row of the previous one superseded is live again.                       *)
Publish ==
    /\ last < MaxGen /\ lock = "free"
    /\ gen' = last + 1 /\ last' = last + 1
    /\ DeleteRows({"repo"})
    /\ summary' = NoText
    /\ merged' = {} /\ removed' = {}
    /\ \E r \in Refresher : Spawn(r)
    /\ UNCHANGED <<lock, seen, quiet, faults>>

(* The repository goes with its rows, whoever holds the lock. *)
DeleteRepo ==
    /\ gen > 0
    /\ gen' = 0 /\ removed' = removed \cup {gen}
    /\ DeleteRows({"repo"})
    /\ \E r \in Refresher : Spawn(r)
    /\ UNCHANGED <<last, summary, lock, seen, merged, quiet, faults>>

(* A deletion that fails is logged; the text is rebuilt all the same, unless the   *)
(* project could not even be looked up.                                             *)
DeleteRepoFails ==
    /\ gen > 0 /\ Fault
    /\ UNCHANGED pc \/ \E r \in Refresher : Spawn(r)
    /\ UNCHANGED <<rowVars, gen, last, summary, lock, seen, merged, quiet, removed>>

BeginRefresh(r) ==
    /\ pc[r] = "waiting" /\ Enter(r, Rows)
    /\ merged' = merged \cap live /\ quiet' = {}
    /\ Goto(r, "calling")
    /\ UNCHANGED <<rowVars, gen, last, summary, removed, faults>>

(* No row left: the text is deleted; otherwise the model rewrites it. *)
EndRefresh(r) ==
    /\ pc[r] = "calling" /\ CanEnter(r)
    /\ summary' = seen[r]
    /\ removed' = removed \cap seen[r].gens
    /\ Leave(r) /\ Goto(r, "idle")
    /\ UNCHANGED <<rowVars, gen, last, merged, quiet, faults>>

RefreshFails(r) ==
    /\ pc[r] = "calling" /\ Fault
    /\ Leave(r) /\ Goto(r, "idle")
    /\ UNCHANGED <<rowVars, gen, last, summary, merged, quiet, removed>>

(* Locks and callers live in the process; nothing of them is resumed. *)
Restart ==
    /\ Fault
    /\ lock' = "free"
    /\ seen' = [p \in Proc |-> NoText]
    /\ pc' = [p \in Proc |-> IF p \in Refresher THEN "idle"
                             ELSE IF pc[p] = "new" THEN "new" ELSE "done"]
    /\ UNCHANGED <<rowVars, gen, last, summary, merged, quiet, removed>>

Worker(u) == BeginMerge(u) \/ EndMerge(u) \/ Replace(u)
Refresh(r) == BeginRefresh(r) \/ EndRefresh(r)
Next == \/ \E u \in Upload : Ingest(u) \/ Worker(u) \/ MergeFails(u) \/ Delete(u) \/ Supersede(u)
        \/ \E r \in Refresher : Refresh(r) \/ RefreshFails(r)
        \/ Publish \/ DeleteRepo \/ DeleteRepoFails \/ Restart

(* The threads of the process run; every call to the model returns or fails.     *)
Fairness == /\ \A u \in Upload : WF_vars(Worker(u))
            /\ \A r \in Refresher : WF_vars(Refresh(r))
Spec == Init /\ [][Next]_vars /\ Fairness

-----------------------------------------------------------------------------
TypeOK == /\ stored \subseteq Upload /\ by \in [Upload -> Upload \cup {"nobody", "repo"}]
          /\ gen \in {0, last} /\ last \in 0..MaxGen
          /\ summary \in Text
          /\ lock \in Proc \cup {"free"}
          /\ pc \in [Proc -> WorkerPc \cup RefreshPc]
          /\ seen \in [Proc -> Text]
          /\ merged \subseteq Upload /\ quiet \subseteq Upload /\ removed \subseteq 1..MaxGen
          /\ faults \in 0..MaxFaults

(* The lock serialises read, model call and write: no writer overwrites what another  *)
(* one merged meanwhile (project_memory.py:17), and "a writer based on the previous     *)
(* generation" does not restore "a stale summary after the active repository pointer     *)
(* changes" (project_memory.py:20): the text mentions the published generation alone,      *)
(* or one whose repository was deleted, which is done without the lock, until the next       *)
(* rebuild or publication.                                                                    *)
SummaryIsCurrent == merged \subseteq summary.uploads /\ summary.gens \subseteq {gen} \cup removed

(* Where the text and the rows come apart, they come together again: what was deleted, *)
(* superseded or brought back by a deletion, and a generation that was published or      *)
(* deleted, starts a rebuild; the rebuild gets the lock, enters it again to write and     *)
(* gives it back.  Not so when a fault stopped the rebuild (it is only logged); and no      *)
(* rebuild is started for an upload that is not merged yet or whose merge came after its     *)
(* deletion, nor by a git log that replaces another (documents.py:445-449).                   *)
Apart(u) == u \notin quiet /\ (u \in live) # (u \in summary.uploads)
GenApart == Rows.gens # summary.gens
StaleRepaired == /\ \A u \in Upload : Apart(u) ~> ~Apart(u) \/ faults > 0
                 /\ GenApart ~> ~GenApart \/ faults > 0
=============================================================================
