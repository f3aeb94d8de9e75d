------------------------------- MODULE Upkeep -------------------------------
(* What is kept up to date from the stored items: the project summary (this       *)
(* module's own variables) and the watermark of reconciled pull requests; and the   *)
(* schema, before any of it is served.  Each is an instance over its own variables. *)
EXTENDS SummaryCache

CONSTANTS (* PrReconciler  *) MaxPr, Sync, PageSize, MaxTouches, MaxPrFaults,
          (* SchemaUpgrade *) Doc, MaxSchemaFaults

VARIABLES closed, mergedPrs, overtaken, mark, sPc, listed, since, page, slipped, touches,
          judged, pFaults
prsVars == <<closed, mergedPrs, overtaken, mark, sPc, listed, since, page, slipped, touches,
             judged, pFaults>>
Prs == INSTANCE PrReconciler WITH
           MaxFaults <- MaxPrFaults, merged <- mergedPrs, pc <- sPc, faults <- pFaults

VARIABLES installed, active, dangling, doc, work, file, stage, at, schemaFaults
schemaVars == <<installed, active, dangling, doc, work, file, stage, at, schemaFaults>>
Schema == INSTANCE SchemaUpgrade WITH MaxFaults <- MaxSchemaFaults, faults <- schemaFaults

-----------------------------------------------------------------------------
(* A page holds some pull requests; documents are numbered. *)
ASSUME PageAssumption == MaxPr \in Nat /\ PageSize \in Nat \ {0}
ASSUME DocAssumption == Doc \subseteq Nat

-----------------------------------------------------------------------------
(* PrReconciler!MarkIsHonest: the watermark passes only what was compared. *)
MarkIsHonest == Prs!MarkIsHonest
(* PrReconciler!OrderedPrJudged: what is merged in order is compared in the end. *)
OrderedPrJudged == Prs!OrderedPrJudged
(* SchemaUpgrade!ServedWhole: what serves requests is the whole schema. *)
ServedWhole == Schema!ServedWhole
=============================================================================
