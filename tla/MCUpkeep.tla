------------------------------ MODULE MCUpkeep ------------------------------
(* Small instances of what is kept up to date.  `turn` names the instance that moves *)
(* in a behaviour; fairness is that instance's.                                        *)
EXTENDS Upkeep, TLC

CONSTANTS a, b, c, r1, r2

(* A document replaces another, a git log replaces that one. *)
ThreeUploads == {a, b, c}
Replaces == a :> {} @@ b :> {a} @@ c :> {b}

(* Only the second pull request is ever closed without being merged; either one    *)
(* closed pull request is touched or reopened or there is a fault.                  *)
Bounded == Prs!Range(closed') \ mergedPrs' \subseteq {2} /\ touches' + pFaults' <= 1

VARIABLE turn
all == <<turn, vars, prsVars, schemaVars>>

(* The others stay at one of their initial states. *)
MCInit == /\ turn \in {"summary", "prs", "schema"} /\ Init /\ Prs!Init /\ Schema!Init
          /\ turn # "schema" => installed = {} /\ ~dangling /\ file = {}
                                /\ \A d \in Doc : doc[d].status = "other" /\ ~doc[d].path
MCNext == /\ UNCHANGED turn
          /\ \/ turn = "summary" /\ Next /\ UNCHANGED <<prsVars, schemaVars>>
             \/ turn = "prs" /\ Prs!Next /\ Bounded /\ UNCHANGED <<vars, schemaVars>>
             \/ turn = "schema" /\ Schema!Next /\ UNCHANGED <<vars, prsVars>>
(* SummaryCache!Fairness, PrReconciler!Fairness, SchemaUpgrade!Fairness, for the   *)
(* one that moves.                                                                  *)
MCFairness ==
    /\ \A u \in Upload :
          WF_all(turn = "summary" /\ Worker(u) /\ UNCHANGED <<turn, prsVars, schemaVars>>)
    /\ \A r \in Refresher :
          WF_all(turn = "summary" /\ Refresh(r) /\ UNCHANGED <<turn, prsVars, schemaVars>>)
    /\ \A s \in Sync :
          WF_all(turn = "prs" /\ Prs!Work(s) /\ UNCHANGED <<turn, vars, schemaVars>>)
    /\ WF_all(turn = "schema" /\ Schema!Run /\ UNCHANGED <<turn, vars, prsVars>>)
MCSpec == MCInit /\ [][MCNext]_all /\ MCFairness

-----------------------------------------------------------------------------
(* SchemaUpgrade!UpgradeConverges: an interrupted upgrade is taken up again. *)
UpgradeConverges == turn = "schema" => Schema!UpgradeConverges
=============================================================================
