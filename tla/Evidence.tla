------------------------------ MODULE Evidence ------------------------------
(* The evidence of one question, collected in several queries of MySQL and      *)
(* Chroma while documents are deleted, decisions superseded and repository       *)
(* generations stored and published.  The published pointer is read once.        *)
(*   src/backend/retriever/qa_engine.py _build_context, index_scope.py,           *)
(*   mysql_search.py                                                              *)
EXTENDS Naturals, FiniteSets

CONSTANTS Item,     \* each a memory row and a text chunk of one source
          Home,     \* [Item -> Docs or a generation]; 0: before generations existed
          Docs,     \* the home of uploaded documents
          MaxGen,   \* generations of the one repository
          RowLimit, \* MYSQL_TOP_N
          ChunkLimit, \* CHROMA_TOP_N
          None

VARIABLES rows, chunks, \* items in MySQL and in Chroma
          by,        \* memory.superseded_by
          active,    \* active_sync_run_id
          removed,   \* history: items deleted
          pc, scope, \* the question: where it is, its ProjectIndexScope
          topic,     \* items that share a token with the trusted words
          found, corpus, kept, \* rows selected, chunks fetched, chunks selected
          byThen, publishedSince \* history: since the scope was loaded
index == <<rows, chunks, by, active, removed>>
question == <<pc, scope, topic, found, corpus, kept>>
vars == <<index, question, byThen, publishedSince>>

Of(h) == {i \in Item : Home[i] = h}
Visible(i, g) == Home[i] \in {Docs, g}
Init == /\ rows \in {Of(0), Of(0) \cup Of(Docs)} /\ chunks = rows
        /\ by = [i \in Item |-> None]
        /\ active = 0 /\ removed = {}
        /\ pc = "load" /\ scope = 0
        /\ topic \in {Item, Of(MaxGen) \cup Of(Docs)}
        /\ found = {} /\ corpus = {} /\ kept = {}
        /\ byThen = by /\ publishedSince = FALSE

-----------------------------------------------------------------------------
(* The rest of the system, under its own contracts.                              *)
(* Rows first, then chunks; a generation while the one before it is published.   *)
Writable(i) == i \notin removed /\ Home[i] \in {Docs, active + 1}
StoreRow(i) == /\ Writable(i) /\ i \notin rows
               /\ rows' = rows \cup {i} /\ UNCHANGED <<chunks, by, active, removed>>
StoreChunk(i) == /\ Writable(i) /\ i \in rows \ chunks
                 /\ chunks' = chunks \cup {i} /\ UNCHANGED <<rows, by, active, removed>>
(* A failed generation is swept. *)
Sweep == /\ rows' = rows \ Of(active + 1) /\ chunks' = chunks \ Of(active + 1)
         /\ UNCHANGED <<by, active, removed>>
(* The pointer moves; edges into any other generation are undone with it. *)
Publish ==
    /\ active < MaxGen /\ Of(active + 1) \subseteq rows \cap chunks
    /\ active' = active + 1
    /\ by' = [i \in Item |-> IF by[i] # None /\ Home[by[i]] \notin {Docs, active + 1}
                             THEN None ELSE by[i]]
    /\ UNCHANGED <<rows, chunks, removed>>
Accept(i, j) ==
    /\ i # j /\ {i, j} \subseteq rows /\ Visible(i, active) /\ Visible(j, active)
    /\ by[i] = None /\ by[j] = None
    /\ by' = [by EXCEPT ![i] = j]
    /\ UNCHANGED <<rows, chunks, active, removed>>
(* A deletion loses the rows, and the edges into them, before the chunks. *)
Remove(S) == /\ rows' = rows \ S /\ removed' = removed \cup S
             /\ by' = [i \in Item |-> IF i \in S \/ by[i] \in S THEN None ELSE by[i]]
DeleteDocument(i) == /\ Home[i] = Docs /\ i \in rows \cap chunks /\ Remove({i})
                     /\ UNCHANGED <<chunks, active>>
DeleteRepository == /\ Of(active) \cap removed = {}
                    /\ Remove(Item \ Of(Docs)) /\ UNCHANGED <<chunks, active>>
DropChunk(i) == /\ i \in chunks \ rows /\ chunks' = chunks \ {i}
                /\ UNCHANGED <<rows, by, active, removed>>

-----------------------------------------------------------------------------
(* load_project_index_scope *)
LoadScope == /\ pc = "load" /\ pc' = "search" /\ scope' = active
             /\ byThen' = by /\ publishedSince' = FALSE
             /\ UNCHANGED <<topic, found, corpus, kept>>

(* mysql_search.search: one statement, so one state of the tables. *)
Current(i) == i \in rows /\ Visible(i, scope) /\ ~(by[i] # None /\ Visible(by[i], scope))
(* Above the limit the rows are ranked, and any of them may be among the best.   *)
Search == /\ pc = "search" /\ pc' = "chunks"
          /\ LET admitted == {i \in topic : Current(i)}
             IN  found' \in IF Cardinality(admitted) <= RowLimit THEN {admitted}
                            ELSE {S \in SUBSET admitted : Cardinality(S) = RowLimit}
          /\ UNCHANGED <<scope, topic, corpus, kept>>

\* Mutant: the pointer is read again for the second store.
GetChunksAnew == /\ pc = "chunks" /\ pc' = "rank"
                 /\ corpus' = {i \in topic \cap chunks : Visible(i, active)}
                 /\ UNCHANGED <<scope, topic, found, kept>>

(* get_collection().get(where=chroma_visibility_filter(scope)) *)
GetChunks == /\ pc = "chunks" /\ pc' = "rank"
             /\ corpus' = {i \in topic \cap chunks : Visible(i, scope)}
             /\ UNCHANGED <<scope, topic, found, kept>>
(* The vector queries come later, and what they hit outside the corpus is          *)
(* dropped; the fused ranks select at most ChunkLimit.                              *)
Rank == /\ pc = "rank" /\ pc' = "done"
        /\ kept' \in {S \in SUBSET corpus : Cardinality(S) <= ChunkLimit}
        /\ UNCHANGED <<scope, topic, found, corpus>>

World == \/ \E i \in Item : StoreRow(i) \/ StoreChunk(i) \/ DropChunk(i) \/ DeleteDocument(i)
         \/ \E i, j \in Item : Accept(i, j)
         \/ Sweep \/ DeleteRepository
Next == \/ World /\ UNCHANGED <<question, byThen, publishedSince>>
        \/ Publish /\ publishedSince' = TRUE /\ UNCHANGED <<question, byThen>>
        \/ LoadScope /\ UNCHANGED index
        \/ (Search \/ GetChunks \/ Rank) /\ UNCHANGED <<index, byThen, publishedSince>>
Spec == Init /\ [][Next]_vars

-----------------------------------------------------------------------------
(* "One immutable pointer snapshot drives every MySQL and Chroma read ... even if *)
(* a repository publishes concurrently" (qa_engine.py:671).  All evidence is of    *)
(* documents and of the generation published when the question came; none of that  *)
(* generation is missing because another was published; and no decision is given  *)
(* as current next to the one that had already superseded it - unless a            *)
(* publication has undone the edge since.                                           *)
EvidenceFromOneGeneration ==
    /\ \A i \in found \cup corpus \cup kept : Visible(i, scope)
    /\ pc \in {"rank", "done"} => (Of(scope) \cap topic) \ removed \subseteq corpus
    /\ ~publishedSince => \A i \in found : byThen[i] \notin found
=============================================================================
