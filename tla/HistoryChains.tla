---------------------------- MODULE HistoryChains ----------------------------
(* How a question about the past is given the decisions behind the current     *)
(* ones: the supersede graph is cut into components, the components are ranked, *)
(* and as many of their rows as the budget allows are added, newest first, to   *)
(* the rows the search itself selected.                                          *)
(*   src/backend/retriever/qa_engine.py   mysql_search.fetch_supersede_graph     *)
EXTENDS Naturals, FiniteSets, Sequences, SequencesExt

CONSTANTS MaxId,   \* decisions
          Soft,    \* HISTORY_CHAIN_LIMIT
          Hard,    \* HISTORY_CHAIN_HARD_LIMIT, not below Soft
          Dates,   \* assignments of dates to decisions, 0 for none or invalid
          Topics   \* topics: sets of tokens, a token the decisions that mention it

VARIABLES by,      \* the visible successor of each decision: 0 none, Other not a decision
          date,
          slots,   \* the rows the search selected: never superseded ones
          about,   \* the topic of the question
          scope,   \* "topical" or "global"
          chain,   \* the rows added, in the order they are shown
          truncated
vars == <<by, date, slots, about, scope, chain, truncated>>

Id == 1..MaxId
Other == MaxId + 1
Init == /\ by \in {f \in [Id -> 0..Other] : \A i \in Id : f[i] # i}
        /\ slots \in SUBSET {i \in Id : by[i] = 0}
        /\ date \in Dates
        /\ scope \in {"topical", "global"}
        /\ about \in IF scope = "global" THEN {{}} ELSE Topics
        /\ chain = <<>> /\ truncated = FALSE

(* fetch_supersede_graph: the decisions that have a successor or are one. *)
Graph == {i \in Id : by[i] # 0 \/ \E p \in Id : by[p] = i}
Preds(S) == {p \in Graph : by[p] \in S}
Grown(S) == S \cup Preds(S) \cup ({by[j] : j \in S} \cap Id)
Component(i) ==
    LET grow[k \in 0..MaxId] == IF k = 0 THEN {i} ELSE Grown(grow[k - 1])
    IN  grow[MaxId]
Components == {Component(i) : i \in Graph}
Terminals(c) == {i \in c : by[i] = 0}
MaxOf(S) == CHOOSE m \in S : \A x \in S : x <= m
(* A cycle has no terminal: its greatest id stands for it. *)
Anchor(c) == MaxOf(IF Terminals(c) # {} THEN Terminals(c) ELSE c)
Latest(c) == MaxOf({date[i] : i \in c})

(* The distance from the anchor against the edges; what the edges do not reach *)
(* comes last.                                                                  *)
Wider(S, c) == S \cup (Preds(S) \cap c)
Within(c) ==
    LET within[k \in 0..MaxId] == IF k = 0 THEN {Anchor(c)} ELSE Wider(within[k - 1], c)
    IN  within
Level(c) ==
    LET within == Within(c)
        Hops(i) == {k \in 0..MaxId : i \in within[k]}
    IN  [i \in c |-> IF Hops(i) = {} THEN MaxId + 1
                    ELSE CHOOSE k \in Hops(i) : \A h \in Hops(i) : k <= h]
Before(level, i, j) ==
    \/ level[i] < level[j]
    \/ level[i] = level[j] /\ \/ date[i] > date[j]
                              \/ date[i] = date[j] /\ i > j

(* The elements of S, each before those it has to precede. *)
First(S, order) == CHOOSE x \in S : \A y \in S \ {x} : <<x, y>> \in order
Later(S, order) == S \ {First(S, order)}
InOrder(S, order) ==
    LET rest[k \in 0..Cardinality(S)] == IF k = 0 THEN S ELSE Later(rest[k - 1], order)
    IN  [k \in 1..Cardinality(S) |-> First(rest[k - 1], order)]
Newest(c) == LET level == Level(c)
             IN  InOrder(c \ slots, {p \in c \X c : Before(level, p[1], p[2])})
Take(s, n) == SubSeq(s, 1, IF n < Len(s) THEN n ELSE Len(s))

Relevance(c) == Cardinality({token \in about : token \cap c # {}})
Relevant(c) == scope = "global" \/ Relevance(c) > 0
Higher(c, d) ==
    \/ scope = "topical" /\ Relevance(c) > Relevance(d)
    \/ /\ scope = "global" \/ Relevance(c) = Relevance(d)
       /\ \/ Latest(c) > Latest(d)
          \/ Latest(c) = Latest(d) /\ Anchor(c) > Anchor(d)
Ranked == LET relevant == {c \in Components : Relevant(c)}
          IN  InOrder(relevant, {p \in relevant \X relevant : Higher(p[1], p[2])})

\* Mutant: the omission of a later component is not reported.
AddComponentQuiet(acc, k) ==
    LET rows == Newest(Ranked[k])
        taken == IF k = 1 THEN Take(rows, Hard)
                 ELSE IF Len(acc.chain) + Len(rows) > Soft THEN <<>> ELSE rows
    IN  [chain |-> acc.chain \o Reverse(taken),
         truncated |-> acc.truncated \/ (k = 1 /\ Len(taken) < Len(rows))]

(* The first component is cut at the hard limit; a later one is taken whole as  *)
(* long as the soft limit is kept, and skipped otherwise.                        *)
AddComponent(acc, k) ==
    LET rows == Newest(Ranked[k])
        taken == IF k = 1 THEN Take(rows, Hard)
                 ELSE IF Len(acc.chain) + Len(rows) > Soft THEN <<>> ELSE rows
    IN  [chain |-> acc.chain \o Reverse(taken),
         truncated |-> acc.truncated \/ Len(taken) < Len(rows)]
Section ==
    LET section[k \in 0..Len(Ranked)] == IF k = 0 THEN [chain |-> <<>>, truncated |-> FALSE]
                                         ELSE AddComponent(section[k - 1], k)
    IN  section
Sections == Section[Len(Ranked)]

BuildHistorySections ==
    /\ chain = <<>> /\ Components # {}
    /\ chain' = Sections.chain
    /\ truncated' = Sections.truncated
    /\ UNCHANGED <<by, date, slots, about, scope>>
Next == BuildHistorySections
Spec == Init /\ [][Next]_vars

-----------------------------------------------------------------------------
Shown == Range(chain) \cup slots
At(i) == CHOOSE k \in DOMAIN chain : chain[k] = i

(* The added rows tell whole stories within the budget: none is repeated or      *)
(* already selected; a row is never added without what replaced it, which is     *)
(* shown after it; and the reader is told of an omission exactly when a relevant  *)
(* decision is left out.                                                          *)
ChainsTellTheStory ==
    chain # <<>> =>
        /\ Len(chain) <= Hard
        /\ Cardinality(Range(chain)) = Len(chain) /\ Range(chain) \cap slots = {}
        /\ \A i \in Range(chain) :
              /\ Relevant(Component(i))
              /\ Terminals(Component(i)) # {} /\ by[i] # 0 =>
                    by[i] \in slots \/ (by[i] \in Range(chain) /\ At(i) < At(by[i]))
        /\ truncated <=> \E c \in Components : Relevant(c) /\ ~(c \subseteq Shown)
=============================================================================
