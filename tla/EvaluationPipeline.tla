------------------------- MODULE EvaluationPipeline -------------------------
(* The evaluation of a change: the questions are run against the service, the     *)
(* sealed raw run is scored, two scored runs are compared.  Each command is a      *)
(* process that reads files others may replace, and writes one file at its end.    *)
(*   src/evals/agentic_v2/pipeline.py                                              *)
(* A version of a file stands for its content, and a hash for what it was          *)
(* computed from.  Every item is of the corpus and split that is evaluated; the    *)
(* rule that a locked split comes from files outside the repository is left out.   *)
EXTENDS AnswerContract, Integers, FiniteSetsExt

CONSTANTS Dataset,     \* version |-> the questions, in order
          Gold,        \* version |-> question id |-> golden answer
          Answers,     \* question id |-> answers the service may give
          Grades,      \* metric |-> score in hundredths, as a judge may give them
          Split,       \* "dev" or "final"
          MaxAttempts, \* --max-attempts, till a person chooses another
          MaxEdits     \* bound: changes of files and settings, repeated runs

Label == {"baseline", "candidate"}
Metric == {"context_precision", "context_recall", "faithfulness",
           "answer_correctness", "response_relevancy"}
NeedsContexts == {"context_precision", "context_recall", "faithfulness"}

VARIABLES questions, golden, \* versions of the two files
          manifest,          \* version of the prepared state, its database and vectors
          settings,          \* what the operator chooses: [model, attempts, judge]
          raw, scored,       \* the output files of each label; {} before the first
          job,               \* the command that runs, for one label
          produced,          \* history: the runs the service really answered, the state it
                             \* answered each question in, whether that was replaced meanwhile
          edits
inputs == <<questions, golden, manifest, settings>>
vars == <<inputs, raw, scored, job, produced, edits>>

Idle == [kind |-> "idle"]
Init == /\ questions = 1 /\ golden = 1 /\ manifest = 1
        /\ settings = [model |-> 1, attempts |-> MaxAttempts, judge |-> 1]
        /\ raw = [l \in Label |-> {}] /\ scored = [l \in Label |-> {}]
        /\ produced = {}
        /\ job = Idle
        /\ edits = 0

Start(new) == job = Idle /\ job' = new
Edit == edits < MaxEdits /\ edits' = edits + 1

-----------------------------------------------------------------------------
(* run: the questions and the manifest are read once, at the beginning.            *)
BeginRun(l) ==
    /\ Start([kind |-> "run", label |-> l, questions |-> questions, manifest |-> manifest,
              config |-> [model |-> settings.model, attempts |-> settings.attempts],
              records |-> <<>>, tries |-> 0, states |-> <<>>, moved |-> FALSE])
    /\ Dataset[questions] # <<>>
    /\ IF raw[l] = {} THEN UNCHANGED edits ELSE Edit
    /\ UNCHANGED <<inputs, raw, scored, produced>>

(* What is recorded of a question that no attempt answered. *)
Unanswered == [status |-> 500, calls |-> <<>>, rounds |-> 0, lookupCompleted |-> FALSE,
               history |-> "none", queries |-> <<>>, sources |-> <<>>,
               projectSources |-> <<>>, substantive |-> FALSE, contextCount |-> 0,
               contexts |-> 0, extracted |-> {}, latency |-> 0]
Current == Dataset[job.questions][Len(job.records) + 1]
Record(item, answer) ==
    [id |-> item.id, question |-> item, model |-> job.config.model,
     answer |-> answer, output |-> answer]
HasNext == Len(job.records) < Len(Dataset[job.questions])

(* The answer is of the database and the vectors that are there now, whatever the   *)
(* manifest says.                                                                     *)
Keep(answer) ==
    job' = [job EXCEPT !.records = Append(@, Record(Current, answer)),
                       !.states = Append(@, manifest), !.tries = 0]
(* One call of the service: it answers, or fails and is called again. *)
Attempt ==
    /\ job.kind = "run" /\ HasNext
    /\ \/ \E answer \in Answers[Current.id] : Keep(answer)
       \/ job.tries + 1 < job.config.attempts /\ job' = [job EXCEPT !.tries = @ + 1]
       \/ job.tries + 1 >= job.config.attempts /\ Keep(Unanswered)
    /\ UNCHANGED <<inputs, raw, scored, produced, edits>>

Fingerprint(run) == <<run.questions, run.manifest, run.config, run.records>>
EndRun ==
    /\ job.kind = "run" /\ ~HasNext
    /\ LET run == [questions |-> job.questions, manifest |-> job.manifest,
                   config |-> job.config, records |-> job.records, seal |-> Fingerprint(job)]
       IN  /\ raw' = [raw EXCEPT ![job.label] = {run}]
           /\ produced' = produced \cup
                 {[run |-> run, states |-> job.states, moved |-> job.moved]}
    /\ job' = Idle
    /\ UNCHANGED <<inputs, scored, edits>>

-----------------------------------------------------------------------------
(* score *)
SameQuestions(run, items) ==
    /\ [i \in DOMAIN run.records |-> run.records[i].id] = [i \in DOMAIN items |-> items[i].id]
    /\ \A i \in DOMAIN items : run.records[i].question = items[i]
OutputsIntact(run) == \A i \in DOMAIN run.records : run.records[i].output = run.records[i].answer
\* Mutant: only the questions are compared, not what was answered.
VerifyQuestionsOnly(run, version) ==
    /\ run.questions = version /\ SameQuestions(run, Dataset[version])

VerifyRawRun(run, version) ==
    /\ run.questions = version
    /\ run.seal = Fingerprint(run)
    /\ SameQuestions(run, Dataset[version])
    /\ OutputsIntact(run)

BeginScore(l) ==
    \E run \in raw[l] :
        /\ VerifyRawRun(run, questions)
        /\ \A i \in DOMAIN run.records : run.records[i].id \in DOMAIN Gold[golden]
        /\ Start([kind |-> "judge", label |-> l, run |-> run, golden |-> golden,
                  judge |-> settings.judge])
        /\ UNCHANGED <<inputs, raw, scored, produced, edits>>

(* Every answer is judged; the contracts follow.  A record then gets its verdicts, *)
(* its contract and an empty set of scores.                                         *)
Judged(item, gold, record, verdicts) ==
    [id |-> record.id, question |-> record.question, model |-> record.model,
     answer |-> record.answer, output |-> record.output,
     contract |-> ScoreContract(item, gold, record.answer, verdicts), ragas |-> <<>>]
JudgeVerdicts(item, gold) ==
    LET targets == Targets(item, gold)
    IN  {[i \in DOMAIN targets |-> [target |-> targets[i], verdict |-> v[i]]] :
            v \in [DOMAIN targets -> {"affirmed", "denied"}]}
JudgeAnswers ==
    /\ job.kind = "judge"
    /\ LET run == job.run
           gold(i) == Gold[job.golden][run.records[i].id]
           given(i) == JudgeVerdicts(run.records[i].question, gold(i))
       IN  \E v \in [DOMAIN run.records -> UNION {given(i) : i \in DOMAIN run.records}] :
             /\ \A i \in DOMAIN run.records : v[i] \in given(i)
             /\ job' = [job EXCEPT
                    !.kind = "grade",
                    !.run.records = [i \in DOMAIN @ |->
                        Judged(@[i].question, gold(i), @[i], v[i])]]
    /\ UNCHANGED <<inputs, raw, scored, produced, edits>>

Ungraded == {i \in DOMAIN job.run.records :
                DOMAIN job.run.records[i].ragas # job.run.records[i].question.metrics}
(* The records are graded in order, each by the metrics its question names. *)
Grade ==
    /\ job.kind = "grade" /\ Ungraded # {}
    /\ LET i == Min(Ungraded)
           record == job.run.records[i]
           metrics == record.question.metrics
       IN  /\ metrics \subseteq Metric
           /\ metrics \cap NeedsContexts # {} => record.answer.contexts > 0
           /\ \E g \in Grades :
                 job' = [job EXCEPT !.run.records[i].ragas = [m \in metrics |-> g[m]]]
    /\ UNCHANGED <<inputs, raw, scored, produced, edits>>

(* The pairs of question and metric that were scored. *)
Coverage(records) == {<<records[i].id, m>> : i \in DOMAIN records, m \in Metric}
                     \cap UNION {{records[i].id} \X DOMAIN records[i].ragas : i \in DOMAIN records}
CoverageComplete(records) ==
    /\ \A i \in DOMAIN records : DOMAIN records[i].ragas = records[i].question.metrics
    /\ {p[2] : p \in Coverage(records)} = Metric
EndScore ==
    /\ job.kind = "grade" /\ Ungraded = {}
    /\ CoverageComplete(job.run.records)
    /\ scored' = [scored EXCEPT ![job.label] = {job}]
    /\ job' = Idle
    /\ UNCHANGED <<inputs, raw, produced, edits>>

(* A command that fails, or is interrupted, publishes nothing. *)
Fails == /\ job # Idle
         /\ job' = Idle
         /\ UNCHANGED <<inputs, raw, scored, produced, edits>>

-----------------------------------------------------------------------------
(* compare *)
\* Mutant: the prepared states and the settings of the runs are not compared.
ComparableAnyState(b, c) ==
    /\ b.run.questions = c.run.questions /\ b.golden = c.golden /\ b.judge = c.judge
    /\ Coverage(b.run.records) = Coverage(c.run.records)

Comparable(b, c) ==
    /\ b.run.questions = c.run.questions /\ b.golden = c.golden /\ b.judge = c.judge
    /\ b.run.manifest = c.run.manifest /\ b.run.config = c.run.config
    /\ SameQuestions(b.run, [i \in DOMAIN c.run.records |-> c.run.records[i].question])
    /\ \A i \in DOMAIN b.run.records : b.run.records[i].model = c.run.records[i].model
    /\ CoverageComplete(b.run.records) /\ CoverageComplete(c.run.records)
    /\ Coverage(b.run.records) = Coverage(c.run.records)

Delta(b, c, m) == MapThenSumSet(LAMBDA i : c[i].ragas[m] - b[i].ragas[m],
                                {i \in DOMAIN b : m \in DOMAIN b[i].ragas})
(* The mean of a metric must not fall, on the development split by more than 0.02; *)
(* there the precision of the contexts must rise by 0.03.                           *)
Allowed(m) == IF Split # "dev" THEN 0 ELSE IF m = "context_precision" THEN 3 ELSE -2
RagasPassed(b, c) ==
    \A m \in Metric :
        Delta(b, c, m) >= Allowed(m) * Cardinality({i \in DOMAIN b : m \in DOMAIN b[i].ragas})

Semantic(records) == SelectSeq(records, LAMBDA r : r.question.family = "semantic")
Latencies(records) == LET s == Semantic(records) IN [i \in DOMAIN s |-> s[i].answer.latency]
(* The nearest-rank 95th percentile. *)
P95(values) ==
    LET rank == (Len(values) * 95 + 99) \div 100
        Upto(v) == Cardinality({i \in DOMAIN values : values[i] <= v})
    IN  Min({v \in Range(values) : Upto(v) >= rank})
Calls(records) == MapThenSumSet(LAMBDA i : ToolCalls(records[i].answer), DOMAIN records)

Passed(b, c) ==
    /\ \A i \in DOMAIN c : c[i].contract
    /\ RagasPassed(b, c)
    /\ P95(Latencies(c)) * 10 <= P95(Latencies(b)) * 11
    /\ Calls(c) * 4 <= Calls(b) * 4 + Len(b)

(* compare reads two scored runs and writes a report, or refuses. *)
CompareRuns(b, c) ==
    IF Comparable(b, c) /\ Semantic(b.run.records) # <<>>
    THEN {[passed |-> Passed(b.run.records, c.run.records), before |-> b, after |-> c]}
    ELSE {}
Reports == UNION {CompareRuns(b, c) : b \in scored["baseline"], c \in scored["candidate"]}

-----------------------------------------------------------------------------
(* People replace the question file or the golden file, prepare the state anew, even *)
(* under a run, choose other settings, and touch a raw run by hand.                    *)
EditQuestions == /\ Edit /\ \E v \in DOMAIN Dataset \ {questions} : questions' = v
                 /\ UNCHANGED <<golden, manifest, settings, raw, scored, job, produced>>
EditGolden == /\ Edit /\ \E v \in DOMAIN Gold \ {golden} : golden' = v
              /\ UNCHANGED <<questions, manifest, settings, raw, scored, job, produced>>
Prepare == /\ Edit /\ manifest' = manifest + 1
           /\ job' = IF job.kind = "run" THEN [job EXCEPT !.moved = TRUE] ELSE job
           /\ UNCHANGED <<questions, golden, settings, raw, scored, produced>>
EditSettings == /\ Edit
                /\ \E f \in DOMAIN settings : settings' = [settings EXCEPT ![f] = @ + 1]
                /\ UNCHANGED <<questions, golden, manifest, raw, scored, job, produced>>
EditRaw(l) ==
    \E run \in raw[l] : \E i \in DOMAIN run.records :
        /\ Edit
        /\ \/ \E answer \in Answers[run.records[i].id] :
                 raw' = [raw EXCEPT ![l] = {[run EXCEPT !.records[i].answer = answer]}]
           \/ \E f \in {"model", "attempts"} :
                 raw' = [raw EXCEPT ![l] = {[run EXCEPT !.config[f] = @ + 1]}]
        /\ UNCHANGED <<inputs, scored, job, produced>>

Next == \/ \E l \in Label : BeginRun(l) \/ BeginScore(l) \/ EditRaw(l)
        \/ Attempt \/ EndRun \/ JudgeAnswers \/ Grade \/ EndScore \/ Fails
        \/ EditQuestions \/ EditGolden \/ Prepare \/ EditSettings
Spec == Init /\ [][Next]_vars

-----------------------------------------------------------------------------
TypeOK == /\ questions \in DOMAIN Dataset /\ golden \in DOMAIN Gold
          /\ manifest \in Nat /\ edits \in 0..MaxEdits
          /\ job.kind \in {"idle", "run", "judge", "grade"}
          /\ \A l \in Label : Cardinality(raw[l]) <= 1 /\ Cardinality(scored[l]) <= 1

Given(run) == [i \in DOMAIN run.records |-> run.records[i].answer]
(* The service gave these answers in a run of this description, each in the state *)
(* that the run names, unless that state was replaced under the run.               *)
AsAnswered(run) == \E p \in produced :
    /\ p.run.questions = run.questions /\ p.run.manifest = run.manifest
    /\ p.run.config = run.config /\ Given(p.run) = Given(run)
    /\ p.moved \/ \A i \in DOMAIN run.records : p.states[i] = run.manifest

(* A report that lets a change pass compares two runs that the service really gave, *)
(* with the same model and limit of attempts, to the same questions, in the state     *)
(* that both name; what is excepted is a state replaced during a run, which reads its  *)
(* manifest once (pipeline.py:836,909).  Both are graded against one golden file by     *)
(* one judge and have a score of every metric that each question names; the change       *)
(* was answered with success on every question.  Of the baseline, a question whose         *)
(* metrics need no context may have stayed without an answer (1304-1355).                   *)
ReportsPair ==
    \A r \in Reports : r.passed =>
        LET before == r.before.run
            after == r.after.run
        IN  /\ AsAnswered(before) /\ AsAnswered(after)
            /\ before.questions = after.questions /\ before.manifest = after.manifest
            /\ before.config = after.config
            /\ r.before.golden = r.after.golden /\ r.before.judge = r.after.judge
            /\ \A run \in {before, after} :
                  /\ DOMAIN run.records = DOMAIN Dataset[after.questions]
                  /\ \A i \in DOMAIN run.records :
                        /\ run.records[i].question = Dataset[after.questions][i]
                        /\ run.records[i].model = run.config.model
                        /\ DOMAIN run.records[i].ragas = Dataset[after.questions][i].metrics
            /\ \A i \in DOMAIN after.records : after.records[i].answer.status = 200

(* An answer passes its contract only with evidence of its own kind for every      *)
(* expected source: an attachment extracted from this request, a project source    *)
(* the server retrieved and showed the model.                                       *)
PassIsDeserved ==
    \A l \in Label : \A s \in scored[l] : \A i \in DOMAIN s.run.records :
        LET record == s.run.records[i]
            answer == record.answer
        IN  record.contract =>
            \A source \in Range(Gold[s.golden][record.id].sources) :
                IF IsAttachment(source)
                THEN source \in RequestedAttachments(record.question) \cap answer.extracted
                ELSE /\ source \in Range(answer.projectSources)
                     /\ answer.substantive /\ answer.contexts > 0
=============================================================================
