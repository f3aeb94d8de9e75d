----------------------------- MODULE Pipelines -----------------------------
(* The long calls that read much and write once: extraction of a text (this        *)
(* module's own variables), collection of a repository, evaluation of the answers, a *)
(* script that is killed and resumed; and what is brought together again after a      *)
(* loss: the vectors of memory rows, the deletions the desktop client still owes, the   *)
(* versions of one git log.  Each is an instance over variables of its own.              *)
EXTENDS Extraction

CONSTANTS (* RepositoryCollection *) MaxPushes, MaxSyncs, MaxRequestFaults,
          (* EvaluationPipeline   *) Dataset, Gold, Answers, Grades, Split, MaxAttempts, MaxEdits,
          (* ResumableRun         *) Question, MaxTries, MaxAsks, MaxDeaths,
          (* MemoryVectors        *) Row, Thread, NoMemory, RepoRow, MaxText,
                                     MaxLosses,
          (* PendingDeletes       *) Queued, MaxFailures,
          (* DocumentUpload       *) Upload, Project, User, Name, ProjectOf, UserOf, NameOf,
                                     KindOf, Size, Bytes(_), ProjectLimit, UserLimit,
                                     CountLimit, SlowRequests, MaxMishaps

VARIABLES head, readme, open, gone, row, at, sha, sources, warnings, had, crowded, syncs, faults
repoVars == <<head, readme, open, gone, row, at, sha, sources, warnings, had, crowded, syncs,
              faults>>
Repo == INSTANCE RepositoryCollection WITH MaxFaults <- MaxRequestFaults

VARIABLES questions, golden, manifest, settings, raw, scored, command, produced, edits
evalVars == <<questions, golden, manifest, settings, raw, scored, command, produced, edits>>
Eval == INSTANCE EvaluationPipeline WITH job <- command

VARIABLES out, partial, place, tries, answers, asks, deaths, newest, leftOut
runVars == <<out, partial, place, tries, answers, asks, deaths, newest, leftOut>>
Script == INSTANCE ResumableRun WITH
              MaxAttempts <- MaxTries, MaxFaults <- MaxDeaths,
              at <- place, input <- answers, faults <- deaths

VARIABLES items, vector, op, serving, wrong, older, losses
vectorVars == <<items, vector, op, serving, wrong, older, losses>>
Vectors == INSTANCE MemoryVectors WITH
               None <- NoMemory, MaxFaults <- MaxLosses, row <- items, old <- older, faults <- losses

VARIABLES upload, cancelled, server, queue, saved, call, files, sync, listed,
          awaited, unsaved, failures
deleteVars == <<upload, cancelled, server, queue, saved, call, files, sync, listed,
                awaited, unsaved, failures>>
Deletes == INSTANCE PendingDeletes WITH
               Upload <- Queued, MaxFaults <- MaxFailures, faults <- failures

VARIABLES pc, resv, doc, leased, resvRow, docRow, temps, targets, vectors, memory, old,
          userDeleted, mishaps
uploadVars == <<pc, resv, doc, leased, resvRow, docRow, temps, targets, vectors, memory, old,
                userDeleted, mishaps>>
Versions == INSTANCE DocumentUpload WITH MaxFaults <- MaxMishaps, faults <- mishaps

-----------------------------------------------------------------------------
(* What the instances assume of their constants: pushes are counted; there is a first *)
(* version of the two files, a file is a list of questions the service can be asked,     *)
(* what it counts of its contexts and its attempts are numbers; the questions of a         *)
(* script have their place in its file; "no row" is no row, no decision of the repository   *)
(* and no text; and what DocumentUpload assumes of uploads, bytes and limits.                *)
ASSUME CollectionAssumption == MaxPushes \in Nat
ASSUME EvaluationAssumption ==
    /\ 1 \in DOMAIN Dataset /\ 1 \in DOMAIN Gold /\ MaxAttempts \in Nat
    /\ \A v \in DOMAIN Dataset :
          /\ Dataset[v] \in Seq({Dataset[v][i] : i \in DOMAIN Dataset[v]})
          /\ \A i \in DOMAIN Dataset[v] : Dataset[v][i].id \in DOMAIN Answers
    /\ \A q \in DOMAIN Answers : \A answer \in Answers[q] :
          answer.contextCount \in Nat /\ answer.contexts \in Nat
ASSUME QuestionAssumption == Question \subseteq Nat
ASSUME VectorsAssumption == /\ NoMemory \notin Row \cup RepoRow \cup Nat
                            /\ Row \cap RepoRow = {}
                            /\ MaxText \in Nat
ASSUME VersionsAssumption == /\ Versions!UploadAssumption
                             /\ Versions!BytesAssumption
                             /\ Versions!LimitAssumption

-----------------------------------------------------------------------------
(* RepositoryCollection!RowTellsTheTruth: what is shown is of the commit shown, and *)
(* without a warning only crowded out issues are missing.                             *)
RowTellsTheTruth == Repo!RowTellsTheTruth
(* EvaluationPipeline!ReportsPair: a comparison is of two runs of one question set,   *)
(* one state and the same settings.                                                    *)
ReportsPair == Eval!ReportsPair
(* EvaluationPipeline!PassIsDeserved: a contract is passed with evidence only. *)
PassIsDeserved == Eval!PassIsDeserved
(* ResumableRun!RecordsSurvive: what was recorded is what the next start loads. *)
RecordsSurvive == Script!RecordsSurvive
(* MemoryVectors!VectorsFollowRows: a vector for every active row, of its text. *)
VectorsFollowRows == Vectors!VectorsFollowRows
(* PendingDeletes!CancelRemembered: the deletion of a cancelled upload is not forgotten. *)
CancelRemembered == Deletes!CancelRemembered
(* DocumentUpload!VersionsConverge: of one git log one version survives. *)
VersionsConverge == Versions!VersionsConverge
=============================================================================
