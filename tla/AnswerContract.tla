--------------------------- MODULE AnswerContract ---------------------------
(* The deterministic contract of one evaluated answer: which tools were used and *)
(* how, what the answer rests on, and how a judge read it.                        *)
(*   src/evals/agentic_v2/pipeline.py, score_contract and what it calls.          *)
(* A string is its normal form; a source is <<"project", name>> or                *)
(* <<"attachment", name, occurrence>>, as its canonical id tells them apart.       *)
EXTENDS Naturals, FiniteSets, Sequences, SequencesExt

Capability == {"hybrid_search", "structured_state", "overview"}
CallMatches(call, capability) ==
    CASE capability = "hybrid_search"    -> call.tool = "search_hybrid_vector_rag"
      [] capability = "structured_state" -> /\ call.tool = "query_sql_state"
                                            /\ call.operation \in {"list", "count"}
      [] capability = "overview"         -> /\ call.tool = "query_sql_state"
                                            /\ call.operation = "overview"
Used(record, capability) ==
    \E i \in DOMAIN record.calls : CallMatches(record.calls[i], capability)

(* A call that fits its tool's schema is compared with the defaults filled in,    *)
(* any other as it was written; `args` is that set of bound arguments.             *)
CanonicalCall(call) == <<call.tool, call.operation, call.args>>

(* Arguments expected flat belong to the capability the question names, or to the *)
(* only one it requires; with neither the contract cannot be bound and fails.      *)
FlatCapability(question) ==
    IF question.argumentsCapability # "none" THEN {question.argumentsCapability} \cap Capability
    ELSE IF Cardinality(question.required) = 1 THEN question.required ELSE {}
ArgumentsBound(question) == question.flat # {} => FlatCapability(question) # {}
ArgumentContracts(question) ==
    IF question.flat # {} THEN {<<c, question.flat>> : c \in FlatCapability(question)}
    ELSE {<<c, question.arguments[c]>> : c \in DOMAIN question.arguments}

ToolChecks(question, record) ==
    LET calls == record.calls
    IN  /\ record.status = 200
        /\ \A c \in question.required : Used(record, c)
        /\ \A i \in DOMAIN calls : \E c \in question.allowed : CallMatches(calls[i], c)
        /\ record.rounds <= question.maxRounds /\ record.rounds <= 5
        /\ \A i \in DOMAIN calls : calls[i].valid
        /\ \A i, j \in DOMAIN calls :
              CanonicalCall(calls[i]) = CanonicalCall(calls[j]) => i = j
        /\ question.attachments # <<>> => /\ \E c \in Capability : Used(record, c)
                                          /\ record.lookupCompleted
        /\ ArgumentsBound(question)
        /\ \A contract \in ArgumentContracts(question) :
              \E i \in DOMAIN calls : /\ CallMatches(calls[i], contract[1])
                                      /\ contract[2] \subseteq calls[i].args
        /\ question.history \in {"any", record.history}

(* What was searched for: the question itself and at most three variations. *)
QueryChecks(question, record) ==
    LET queries == record.queries
    IN  Used(record, "hybrid_search") =>
            /\ Len(queries) \in 1..4
            /\ \A i \in DOMAIN queries : queries[i] # ""
            /\ \A i, j \in DOMAIN queries : queries[i] = queries[j] => i = j
            /\ \E i \in DOMAIN queries : queries[i] = question.input

-----------------------------------------------------------------------------
IsAttachment(source) == source[1] = "attachment"
Distinct(sources) == \A i, j \in DOMAIN sources : sources[i] = sources[j] => i = j
\* Mutant: a project source may be named like an attachment.
SourcesValidUnreserved(golden, record) ==
    Distinct(golden.sources) /\ Distinct(record.sources) /\ Distinct(record.projectSources)

(* No list names a source twice, and none the server found in the project is      *)
(* named like an attachment.                                                       *)
SourcesValid(golden, record) ==
    /\ Distinct(golden.sources) /\ Distinct(record.sources) /\ Distinct(record.projectSources)
    /\ \A i \in DOMAIN record.projectSources : ~IsAttachment(record.projectSources[i])

(* The second attachment of one name is a source of its own. *)
RequestedAttachments(question) ==
    LET name == question.attachments
    IN  {<<"attachment", name[i], Cardinality({j \in 1..i : name[j] = name[i]})>> :
            i \in DOMAIN name}
AttachmentSources(question, record) == RequestedAttachments(question) \cap record.extracted
ProjectEvidence(record) ==
    /\ record.substantive /\ record.contextCount > 0
    /\ record.contexts >= record.contextCount
ProjectSources(golden, record) ==
    IF SourcesValid(golden, record) /\ ProjectEvidence(record)
    THEN Range(record.projectSources) ELSE {}

(* The answer cites exactly what the golden answer rests on, and all of that was   *)
(* retrieved or extracted for this request.                                        *)
SourceChecks(question, golden, record) ==
    LET project == ProjectSources(golden, record)
        attached == AttachmentSources(question, record)
        kinds == (IF project # {} THEN {"project"} ELSE {})
                 \cup (IF attached # {} THEN {"attachment"} ELSE {})
    IN  /\ SourcesValid(golden, record)
        /\ Range(record.sources) = Range(golden.sources)
        /\ Range(golden.sources) \subseteq project \cup attached
        /\ question.evidence # {} => record.sources # <<>>
        /\ question.evidence \subseteq kinds

-----------------------------------------------------------------------------
(* What the judge is asked about, in order. *)
Targets(question, golden) ==
    LET Several(kind, n) == [i \in 1..n |-> <<kind, i>>]
        Only(kind, asked) == Several(kind, IF asked THEN 1 ELSE 0)
    IN  Several("required_fact", golden.facts)
        \o Several("forbidden_claim", golden.forbidden)
        \o Several("unsupported_claim", golden.unsupported)
        \o Only("exact_count", question.family = "structured_count")
        \o Several("required_item",
                   IF question.family = "structured_list" THEN golden.items ELSE 0)
        \o Only("abstention", question.family = "abstention" \/ question.mustAbstain)
AcceptedVerdicts(kind) ==
    IF kind \in {"forbidden_claim", "unsupported_claim"} THEN {"denied", "absent"}
    ELSE {"affirmed"}
Verdict == {"affirmed", "denied", "absent", "uncertain"}

(* One known verdict for each target, in the order of the targets. *)
VerdictsValid(verdicts, targets) ==
    /\ [i \in DOMAIN verdicts |-> verdicts[i].target] = targets
    /\ \A i \in DOMAIN verdicts : verdicts[i].verdict \in Verdict
VerdictChecks(question, golden, verdicts) ==
    LET targets == Targets(question, golden)
    IN  /\ VerdictsValid(verdicts, targets)
        /\ \A i \in DOMAIN targets : verdicts[i].verdict \in AcceptedVerdicts(targets[i][1])

ScoreContract(question, golden, record, verdicts) ==
    /\ ToolChecks(question, record)
    /\ QueryChecks(question, record)
    /\ SourceChecks(question, golden, record)
    /\ VerdictChecks(question, golden, verdicts)

(* performance_metrics *)
ToolCalls(record) == Len(record.calls)
=============================================================================
