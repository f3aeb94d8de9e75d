---------------------------- MODULE MCPipelines ----------------------------
(* Small instances of the long calls and of what is brought together again.  `turn` *)
(* names the instance that moves in a behaviour.                                      *)
EXTENDS Pipelines, TLC

(* Every text of up to two paragraphs, short, close to a chunk, and longer, those of *)
(* three with fewer than two long ones, some with an empty last one, as each kind;      *)
(* every recording of up to two segments, blank ones among them.                          *)
Units == UNION {[1..n -> {1, 4, 9}] : n \in 1..2}
         \cup {u \in [1..3 -> {1, 4, 9}] : Cardinality({i \in 1..3 : u[i] = 9}) < 2}
         \cup {<<9, 0>>, <<4, 9, 0>>, <<4, 1, 0>>}
Text(kind, units) == [kind |-> kind, units |-> units]
Segments == UNION {[1..n -> [length : {0, 3, 4}, speaker : BOOLEAN]] : n \in 0..2}
Recording(segments, tooLarge) ==
    [kind |-> "transcript", segments |-> segments, supported |-> TRUE, tooLarge |-> tooLarge]
Texts == {Text(k, u) : k \in {"document", "repo_readme", "repo_commits"}, u \in Units}
         \cup {Recording(s, l) : s \in Segments, l \in BOOLEAN}
(* A date of the form that is kept, one that is brought into it, one that is not;    *)
(* the source, or another where the text is no transcript.                             *)
Tellings == {<<"2026-06-02", "null">>, <<"2026.6.2", "null">>, <<"2026-6-2", "other">>}

(* Two questions, one of them with an attachment; a second version of the question *)
(* file allows other tools, one of the golden file expects less.                    *)
Search == [tool |-> "search_hybrid_vector_rag", operation |-> "none", args |-> {"text"},
           valid |-> TRUE]
Count == [tool |-> "query_sql_state", operation |-> "count", args |-> {"status"}, valid |-> TRUE]
Minutes == <<"project", "minutes">>
Attached == <<"attachment", "spec", 1>>
Metrics == {"context_precision", "context_recall", "faithfulness", "answer_correctness",
            "response_relevancy"}
Why == [id |-> "why", family |-> "semantic", input |-> "why", required |-> {"hybrid_search"},
        allowed |-> {"hybrid_search"}, maxRounds |-> 1, flat |-> {}, arguments |-> <<>>,
        argumentsCapability |-> "none", history |-> "any", attachments |-> <<>>,
        evidence |-> {"project"}, mustAbstain |-> FALSE, metrics |-> Metrics]
Compared == [Why EXCEPT !.id = "spec", !.input = "spec", !.flat = {"text"},
                        !.family = "attachment_and_search", !.history = "off",
                        !.attachments = <<"spec">>, !.metrics = {}]
Questions == 1 :> <<Why, Compared>>
          @@ 2 :> <<[Why EXCEPT !.allowed = {"hybrid_search", "structured_state"}], Compared>>
Golden(expected, facts) == [sources |-> expected, facts |-> facts, forbidden |-> 0,
                           unsupported |-> 0, items |-> 0]
GoldenFiles == [v \in 1..2 |-> "why" :> Golden(<<Minutes>>, 2 - v)
                            @@ "spec" :> Golden(<<Attached>>, 0)]
(* The service searches, or counts too; it extracts the attachment, or claims a    *)
(* project source of that name.                                                     *)
Found == [status |-> 200, calls |-> <<Search>>, rounds |-> 1, lookupCompleted |-> TRUE,
          history |-> "off", queries |-> <<"why">>, sources |-> <<Minutes>>,
          projectSources |-> <<Minutes>>, substantive |-> TRUE, contextCount |-> 1,
          contexts |-> 1, extracted |-> {}, latency |-> 10]
FoundFor == [Found EXCEPT !.queries = <<"spec">>, !.sources = <<Attached>>]
Given == "why" :> {Found, [Found EXCEPT !.calls = <<Search, Count>>, !.latency = 12]}
      @@ "spec" :> {[FoundFor EXCEPT !.extracted = {Attached}],
                    [FoundFor EXCEPT !.projectSources = <<Attached>>]}
Judged == {[m \in Metrics |-> 80], [m \in Metrics |-> 83]}

Unset == -1

(* Three versions of one git log, which no process lock orders; a request may be    *)
(* slower than its reservation.  They differ in nothing, so that one order of the    *)
(* requests stands for all.                                                            *)
OneProject == [u \in 1..3 |-> "p"]
OneUser == [u \in 1..3 |-> "x"]
OneName == [u \in 1..3 |-> "n"]
GitLogs == [u \in 1..3 |-> "git"]
OneByte == [u \in 1..3 |-> 1]
InTurn == \A u \in 2..3 : pc'[u] # "new" => pc'[u - 1] # "new"

(* The baseline is run before the change. *)
BaselineFirst ==
    command' # Eval!Idle /\ command'.label = "candidate" => raw["baseline"] # {}

VARIABLE turn
all == <<turn, vars, repoVars, evalVars, runVars, vectorVars, deleteVars, uploadVars>>

(* The others stay at one of their initial states. *)
Turns == {"extract", "collect", "evaluate", "resume", "vectors", "deletes", "versions"}
MCInit == /\ turn \in Turns
          /\ Init /\ Repo!Init /\ Eval!Init /\ Script!Init /\ Vectors!Init /\ Deletes!Init
          /\ Versions!Init
          /\ turn # "extract" => input = Text("document", <<1>>)
          /\ turn # "collect" => open = {} /\ \A c \in DOMAIN readme : readme[c] = "absent"
MCNext == /\ UNCHANGED turn
          /\ \/ turn = "extract" /\ Next
                /\ UNCHANGED <<repoVars, evalVars, runVars, vectorVars, deleteVars, uploadVars>>
             \/ turn = "collect" /\ Repo!Next
                /\ UNCHANGED <<vars, evalVars, runVars, vectorVars, deleteVars, uploadVars>>
             \/ turn = "evaluate" /\ Eval!Next /\ BaselineFirst
                /\ UNCHANGED <<vars, repoVars, runVars, vectorVars, deleteVars, uploadVars>>
             \/ turn = "resume" /\ Script!Next
                /\ UNCHANGED <<vars, repoVars, evalVars, vectorVars, deleteVars, uploadVars>>
             \/ turn = "vectors" /\ Vectors!Next
                /\ UNCHANGED <<vars, repoVars, evalVars, runVars, deleteVars, uploadVars>>
             \/ turn = "deletes" /\ Deletes!Next
                /\ UNCHANGED <<vars, repoVars, evalVars, runVars, vectorVars, uploadVars>>
             \/ turn = "versions" /\ Versions!Next /\ InTurn
                /\ UNCHANGED <<vars, repoVars, evalVars, runVars, vectorVars, deleteVars>>
MCSpec == MCInit /\ [][MCNext]_all
=============================================================================
