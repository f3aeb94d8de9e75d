----------------------------- MODULE AgenticLoop -----------------------------
(* One question answered by the tool-calling loop: the orchestrator model asks *)
(* for tools, the tools answer, and after a bounded number of rounds a final   *)
(* text is accepted or refused for want of evidence.                           *)
(*   src/backend/agentic_graph.py, the tools of src/backend/retriever/qa_tools.py *)
(* A call stands for its canonical form: tool name and normalised arguments.   *)
EXTENDS Naturals, FiniteSets, Sequences, SequencesExt

CONSTANTS Search,     \* calls of search_hybrid_vector_rag
          Sql,        \* calls of query_sql_state
          Unknown,    \* calls of a tool that does not exist
          MaxRounds,  \* min(configured rounds, MAX_TOOL_ROUNDS)
          MaxBatch    \* calls in one reply of the model

VARIABLES node,      \* the graph node that runs next
          messages,  \* state["messages"], from the conversation on
          attached,  \* has_attachment_evidence
          rounds,    \* state["tool_rounds"]
          result,    \* what run_agentic_qa returned or raised
          invoked    \* history: calls of the model
vars == <<node, messages, attached, rounds, result, invoked>>

Call == Search \cup Sql \cup Unknown
Batches == UNION {[1..n -> Call] : n \in 0..MaxBatch}
AI(calls, text) == [from |-> "model", calls |-> calls, text |-> text]
ToolMessage(call, status) == [from |-> "tool", call |-> call, status |-> status]
(* An assistant turn of the client's conversation is an ordinary AI message. *)
Past == [from |-> "history", calls |-> <<>>, text |-> TRUE]
IsAI(m) == m.from # "tool"

Unexecuted == {"duplicate_call", "tool_limit"}
Status == Unexecuted \cup {"ok", "empty", "invalid_query", "error_message"}
Pending == [kind |-> "pending"]
Failed == [kind |-> "failed"]

Init == /\ node = "orchestrator"
        /\ messages \in {<<>>, <<Past>>}
        /\ attached \in BOOLEAN
        /\ rounds = 0 /\ invoked = 0
        /\ result = Pending

-----------------------------------------------------------------------------
Asked(ms) == UNION {Range(ms[i].calls) : i \in {j \in DOMAIN ms : IsAI(ms[j])}}
\* Mutant: only earlier replies are looked at, not the batch itself.
FreshEarlier(ms) ==
    {k \in DOMAIN Last(ms).calls : Last(ms).calls[k] \notin Asked(Front(ms))}

(* The positions of the last batch that are executed: the first occurrence of  *)
(* a call that no earlier reply asked for.                                      *)
Fresh(ms) ==
    LET calls == Last(ms).calls
    IN  {k \in DOMAIN calls : /\ calls[k] \notin Asked(Front(ms))
                              /\ \A j \in 1..k - 1 : calls[j] # calls[k]}

Route(ms) ==
    LET calls == Last(ms).calls
    IN  CASE calls = <<>>         -> "collect"
          [] calls # <<>> /\ rounds >= MaxRounds -> "limit_tools"
          [] calls # <<>> /\ rounds < MaxRounds /\ Fresh(ms) = {} -> "duplicate_tools"
          [] OTHER                -> "tools"

(* The model answers with calls, with text, or with both.  The first turn is     *)
(* bound to call some tool; a provider that does not comply is not refused here. *)
Orchestrate(calls, text) ==
    /\ node = "orchestrator"
    /\ messages' = Append(messages, AI(calls, text))
    /\ invoked' = invoked + 1
    /\ node' = Route(messages')
    /\ UNCHANGED <<attached, rounds, result>>

(* What a tool can return: a search finds something or not, a count and an     *)
(* overview too; a refused query or an unknown tool returns no evidence.       *)
Outcomes(call) == IF call \in Unknown THEN {"error_message"}
                  ELSE {"ok", "empty", "invalid_query"}

(* Close the batch: every call gets its message, in the order of the calls. *)
Close(status) ==
    messages' = messages \o [k \in DOMAIN Last(messages).calls |->
                                ToolMessage(Last(messages).calls[k], status[k])]

RunTools ==
    /\ node = "tools"
    /\ LET calls == Last(messages).calls
       IN  \E got \in [DOMAIN calls -> Status] :
             /\ \A k \in DOMAIN calls :
                   got[k] \in IF k \in Fresh(messages) THEN Outcomes(calls[k])
                             ELSE {"duplicate_call"}
             /\ IF \E k \in DOMAIN calls : got[k] = "invalid_query"
                THEN /\ result' = Failed /\ node' = "end"
                     /\ UNCHANGED <<messages, rounds>>
                ELSE /\ Close(got)
                     /\ rounds' = rounds + 1
                     /\ node' = "orchestrator"
                     /\ UNCHANGED result
    /\ UNCHANGED <<attached, invoked>>

LimitTools ==
    /\ node = "limit_tools"
    /\ Close([k \in DOMAIN Last(messages).calls |-> "tool_limit"])
    /\ node' = "force_final"
    /\ UNCHANGED <<attached, rounds, result, invoked>>

DuplicateTools ==
    /\ node = "duplicate_tools"
    /\ Close([k \in DOMAIN Last(messages).calls |-> "duplicate_call"])
    /\ node' = "force_final"
    /\ UNCHANGED <<attached, rounds, result, invoked>>

(* The model without tools. *)
ForceFinal(text) ==
    /\ node = "force_final"
    /\ messages' = Append(messages, AI(<<>>, text))
    /\ invoked' = invoked + 1
    /\ node' = "collect"
    /\ UNCHANGED <<attached, rounds, result>>

(* A model or a tool raises: the caller answers 503. *)
Raise ==
    /\ node \in {"orchestrator", "tools", "force_final"}
    /\ result' = Failed /\ node' = "end"
    /\ UNCHANGED <<messages, attached, rounds, invoked>>

-----------------------------------------------------------------------------
(* _collect_result *)
ToolAt == {i \in DOMAIN messages : messages[i].from = "tool"}
With(S) == {i \in ToolAt : messages[i].status \in S}
\* Mutant: a text that no tool message precedes is accepted.
FinalsAnywhere == {i \in DOMAIN messages : /\ IsAI(messages[i])
                                           /\ messages[i].calls = <<>> /\ messages[i].text}

(* The final text: the last AI message with text and no call after a tool message. *)
Finals == {i \in DOMAIN messages : /\ IsAI(messages[i])
                                   /\ messages[i].calls = <<>> /\ messages[i].text
                                   /\ \E j \in ToolAt : j < i}
LastOf(S) == CHOOSE i \in S : \A j \in S : j <= i
UnresolvedSearch == \E i \in With({"empty"}) : messages[i].call \in Search
(* Replies none of whose calls was executed: each cost one more call of the model. *)
ForcedFinals == {i \in DOMAIN messages :
                    /\ IsAI(messages[i]) /\ messages[i].calls # <<>>
                    /\ \A k \in DOMAIN messages[i].calls :
                          messages[i + k].status \in Unexecuted}

Answer(text) == [kind |-> "answer", text |-> text, limited |-> With({"tool_limit"}) # {},
                 llm_calls |-> rounds + 1 + Cardinality(ForcedFinals)]
Collected ==
    IF \/ With({"error_message"}) # {}
       \/ UnresolvedSearch /\ With({"ok"}) # {}
       \/ With({"ok", "empty"}) = {}
       \/ (With({"ok"}) # {} \/ attached) /\ Finals = {}
    THEN Failed
    ELSE Answer(IF With({"ok"}) # {} \/ attached THEN LastOf(Finals) ELSE 0)

Collect ==
    /\ node = "collect"
    /\ result' = Collected
    /\ node' = "end"
    /\ UNCHANGED <<messages, attached, rounds, invoked>>

Next == \/ \E calls \in Batches, text \in BOOLEAN : Orchestrate(calls, text)
        \/ RunTools \/ LimitTools \/ DuplicateTools
        \/ \E text \in BOOLEAN : ForceFinal(text)
        \/ Raise \/ Collect
Spec == Init /\ [][Next]_vars

-----------------------------------------------------------------------------
Executed == {i \in ToolAt : messages[i].status \notin Unexecuted}

(* The provider's protocol and the cost bound.  When the model is called, every *)
(* call of every earlier reply has its message, at its place; no call is         *)
(* executed twice, not even within one batch; and the model is called at most    *)
(* MaxRounds + 2 times (agentic_graph.py:231-249, 278-292).                       *)
CallsResolvedOnce ==
    /\ node \in {"orchestrator", "force_final"} =>
          \A i \in DOMAIN messages : IsAI(messages[i]) =>
             \A k \in DOMAIN messages[i].calls :
                /\ i + k \in ToolAt
                /\ messages[i + k].call = messages[i].calls[k]
    /\ \A i, j \in Executed : messages[i].call = messages[j].call => i = j
    /\ invoked <= MaxRounds + 2

(* An answer in the model's words is this run's, rests on evidence a tool found   *)
(* or the attachment, and on no lookup that failed or found nothing; the server's *)
(* own words are used otherwise; and the cost reported is the real one.           *)
AnswerIsGrounded ==
    result.kind = "answer" =>
        /\ result.text # 0 =>
              /\ messages[result.text].from = "model"
              /\ attached \/ With({"ok"}) # {}
              /\ With({"ok"}) # {} => ~UnresolvedSearch
        /\ result.text = 0 => With({"ok"}) = {} /\ ~attached
        /\ \A i \in Executed : messages[i].status \in {"ok", "empty"}
        /\ Executed # {}
        /\ result.llm_calls = invoked
=============================================================================
