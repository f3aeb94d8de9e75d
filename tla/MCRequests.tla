----------------------------- MODULE MCRequests -----------------------------
(* Small instances of what requests do to each other.  `turn` names the instance   *)
(* that moves in a behaviour; the others stay at one of their initial states.        *)
EXTENDS Requests, TLC

CONSTANT Machines \* the instances a run explores

(* Two uploads by two users. *)
TwoUsers == <<"ann", "bob">>
Uploader == "d1" :> "ann" @@ "d2" :> "bob"
(* Four decisions with every successor relation; equal dates and two dates;       *)
(* topics of one and of two tokens, with unequal relevance.                        *)
TwoDatings == {[i \in 1..4 |-> 0], [i \in 1..4 |-> i % 2]}
ThreeTopics == {{{1, 2}}, {{3}, {}}, {{1, 3}, {1}, {4}}}
(* A document, a row from before generations, and two generations of one item. *)
FourHomes == "doc" :> 9 @@ "old" :> 0 @@ "first" :> 1 @@ "second" :> 2
(* Of actions, two suggestions are enough: one of each kind, or two of one kind, on one  *)
(* row or on two.                                                                          *)
TwoSuggestions == Cardinality(aSug') <= 2
NoHistory == /\ hBy = [i \in 1..4 |-> 0] /\ hDate = [i \in 1..4 |-> 0]
             /\ hSlots = {} /\ hAbout = {} /\ hScope = "global"
             /\ hChain = <<>> /\ hTruncated = FALSE

VARIABLE turn

MCInit ==
    /\ turn \in Machines
    /\ Init /\ Chat!Init /\ Github!Init
    /\ Loop!Init /\ (turn # "loop" => conversation = <<>> /\ ~attached)
    /\ Question!Init /\ (turn # "question" => Cardinality(eRows) = 1 /\ "old" \in eTopic)
    /\ Health!Init /\ (turn # "health" => rUp = {})
    /\ Decisions!Init /\ Actions!Init
    /\ IF turn = "history" THEN History!Init ELSE NoHistory

MCNext ==
    /\ UNCHANGED turn
    /\ \/ turn = "deletion" /\ Next
          /\ UNCHANGED <<loopVars, historyVars, questionVars, chatVars, githubVars, healthVars,
                        decisionVars, actionVars>>
       \/ turn = "loop" /\ Loop!Next
          /\ UNCHANGED <<vars, historyVars, questionVars, chatVars, githubVars, healthVars,
                        decisionVars, actionVars>>
       \/ turn = "history" /\ History!Next
          /\ UNCHANGED <<vars, loopVars, questionVars, chatVars, githubVars, healthVars,
                        decisionVars, actionVars>>
       \/ turn = "question" /\ Question!Next
          /\ UNCHANGED <<vars, loopVars, historyVars, chatVars, githubVars, healthVars,
                        decisionVars, actionVars>>
       \/ turn = "chat" /\ Chat!Next
          /\ UNCHANGED <<vars, loopVars, historyVars, questionVars, githubVars, healthVars,
                        decisionVars, actionVars>>
       \/ turn = "github" /\ Github!Next
          /\ UNCHANGED <<vars, loopVars, historyVars, questionVars, chatVars, healthVars, decisionVars, actionVars>>
       \/ turn = "health" /\ Health!Next
          /\ UNCHANGED <<vars, loopVars, historyVars, questionVars, chatVars, githubVars,
                        decisionVars, actionVars>>
       \/ turn = "decisions" /\ Decisions!Next
          /\ UNCHANGED <<vars, loopVars, historyVars, questionVars, chatVars, githubVars,
                        healthVars, actionVars>>
       \/ turn = "actions" /\ Actions!Next /\ TwoSuggestions
          /\ UNCHANGED <<vars, loopVars, historyVars, questionVars, chatVars, githubVars,
                        healthVars, decisionVars>>
MCSpec == MCInit /\ [][MCNext]_<<turn, vars, loopVars, historyVars, questionVars, chatVars,
                                 githubVars, healthVars, decisionVars, actionVars>>
=============================================================================
