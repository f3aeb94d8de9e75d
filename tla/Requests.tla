------------------------------ MODULE Requests ------------------------------
(* What requests do to each other besides uploading: the deletion of a project    *)
(* (this module's own variables), the tool loop and the evidence of a question, the  *)
(* history it is shown, chat sessions, GitHub sessions, the readiness check, and the   *)
(* suggestions people accept, on decisions and on actions.  None reads a variable of     *)
(* another; each is an instance over variables of its own.                                *)
EXTENDS ProjectLifecycle

CONSTANTS (* AgenticLoop    *) Lookups, Sql, Unknown, MaxRounds, MaxBatch,
          (* HistoryChains  *) MaxDecision, Soft, Hard, Dates, Topics,
          (* Evidence       *) Item, Home, Docs, ItemGens, RowLimit, ChunkLimit, NoItem,
          (* ChatSession    *) Query, Keep,
          (* GithubSessions *) State, Asker, Ttl, Grace, MaxTime,
          (* Readiness      *) Checks, ReadyRequest, Workers,
          (* Suggestions on decisions *) Category, MaxSug, MaxTx, MaxRow, MaxGen, Kinds,
          (* Suggestions on actions   *) ActionRows, ActionGens, ActionKinds

(* What the instances assume of their constants: rounds and calls are counted; times are *)
(* numbers; the documents are no generation, and "no item" is no item; the checks are        *)
(* finitely many; a number of messages is kept; rows and generations are counted; a history *)
(* has limits, the hard one not below the other, dates and finite topics.                       *)
ASSUME LoopAssumption == MaxRounds \in Nat /\ MaxBatch \in Nat
ASSUME ClockAssumption == Ttl \in Nat /\ Grace \in Nat /\ MaxTime \in Nat
ASSUME EvidenceAssumption == ItemGens \in Nat /\ Docs \notin 0..ItemGens /\ NoItem \notin Item
ASSUME HistoryAssumption == /\ MaxDecision \in Nat /\ Soft \in Nat /\ Hard \in Nat /\ Soft <= Hard
                            /\ Dates \subseteq [1..MaxDecision -> Nat]
                            /\ \A topic \in Topics : IsFiniteSet(topic)
ASSUME ReadinessAssumption == IsFiniteSet(Checks)
ASSUME ChatAssumption == Keep \in Nat
ASSUME SuggestionsAssumption == /\ MaxRow \in Nat /\ MaxGen \in Nat
                                /\ ActionRows \in Nat /\ ActionGens \in Nat

VARIABLES (* AgenticLoop    *) node, conversation, attached, rounds, result, invoked,
          (* HistoryChains  *) hBy, hDate, hSlots, hAbout, hScope, hChain, hTruncated,
          (* Evidence       *) eRows, eChunks, eBy, eActive, eRemoved, ePc, eScope, eTopic,
                               eFound, eCorpus, eKept, eByThen, eSince,
          (* ChatSession    *) cExists, cMessages, cSummary, cNextId, cPc, cContext, cBlind,
          (* GithubSessions *) gNow, gCreated, gConnected, gExpired, gPc, gTarget, gStale,
                               gTold, gBorn,
          (* Readiness      *) rUp, rQueue, rRunning, rPending, rGot, rReply, rSampled,
                               rGood, rEarned,
          (* Suggestions    *) dRow, dNextRow, dActive, dSug, dJob, dTx,
                               aRow, aNextRow, aActive, aSug, aJob, aTx

Loop == INSTANCE AgenticLoop WITH Search <- Lookups, messages <- conversation
loopVars == <<node, conversation, attached, rounds, result, invoked>>

History == INSTANCE HistoryChains WITH
               MaxId <- MaxDecision,
               by <- hBy, date <- hDate, slots <- hSlots, about <- hAbout, scope <- hScope,
               chain <- hChain, truncated <- hTruncated
historyVars == <<hBy, hDate, hSlots, hAbout, hScope, hChain, hTruncated>>

Question == INSTANCE Evidence WITH
                MaxGen <- ItemGens, None <- NoItem,
                rows <- eRows, chunks <- eChunks, by <- eBy, active <- eActive,
                removed <- eRemoved, pc <- ePc, scope <- eScope, topic <- eTopic,
                found <- eFound, corpus <- eCorpus, kept <- eKept,
                byThen <- eByThen, publishedSince <- eSince
questionVars == <<eRows, eChunks, eBy, eActive, eRemoved, ePc, eScope, eTopic, eFound,
                  eCorpus, eKept, eByThen, eSince>>

Chat == INSTANCE ChatSession WITH
            exists <- cExists, messages <- cMessages, summary <- cSummary,
            nextId <- cNextId, pc <- cPc, context <- cContext, blind <- cBlind
chatVars == <<cExists, cMessages, cSummary, cNextId, cPc, cContext, cBlind>>

Github == INSTANCE GithubSessions WITH
              Thread <- Asker,
              now <- gNow, created <- gCreated, connected <- gConnected, expired <- gExpired,
              pc <- gPc, target <- gTarget, stale <- gStale, told <- gTold, born <- gBorn
githubVars == <<gNow, gCreated, gConnected, gExpired, gPc, gTarget, gStale, gTold, gBorn>>

Health == INSTANCE Readiness WITH
              Probe <- Checks, Request <- ReadyRequest,
              up <- rUp, queue <- rQueue, running <- rRunning, pending <- rPending,
              got <- rGot, reply <- rReply, sampled <- rSampled, good <- rGood,
              earned <- rEarned
healthVars == <<rUp, rQueue, rRunning, rPending, rGot, rReply, rSampled, rGood, rEarned>>

(* Suggestions on decisions relate two rows, those on actions change one: each     *)
(* group has an instance.                                                           *)
Decisions == INSTANCE Suggestions WITH
                 row <- dRow, nextRow <- dNextRow, active <- dActive, sug <- dSug,
                 job <- dJob, tx <- dTx
Actions == INSTANCE Suggestions WITH
               MaxRow <- ActionRows, MaxGen <- ActionGens, Kinds <- ActionKinds,
               row <- aRow, nextRow <- aNextRow, active <- aActive, sug <- aSug,
               job <- aJob, tx <- aTx
decisionVars == <<dRow, dNextRow, dActive, dSug, dJob, dTx>>
actionVars == <<aRow, aNextRow, aActive, aSug, aJob, aTx>>

-----------------------------------------------------------------------------
(* AgenticLoop!CallsResolvedOnce: every call of the model gets one message, none *)
(* runs twice, the model is called a bounded number of times.                     *)
CallsResolvedOnce == Loop!CallsResolvedOnce
(* AgenticLoop!AnswerIsGrounded: an answer rests on this run's evidence. *)
AnswerIsGrounded == Loop!AnswerIsGrounded
(* HistoryChains!ChainsTellTheStory: decisions are shown with what replaced them. *)
ChainsTellTheStory == History!ChainsTellTheStory
(* Evidence!EvidenceFromOneGeneration: a question reads one published state. *)
EvidenceFromOneGeneration == Question!EvidenceFromOneGeneration
(* ChatSession!SessionRemembers: summary and recent messages tell of everything. *)
SessionRemembers == Chat!SessionRemembers
(* GithubSessions!GoneStaysGone: "expired" comes before "unknown". *)
GoneStaysGone == Github!GoneStaysGone
(* Readiness!ReadyIsEarned: "ready" never rests on an old answer. *)
ReadyIsEarned == Health!ReadyIsEarned
(* Suggestions!HiddenHasVisibleSuccessor: a hidden decision has a visible successor. *)
HiddenHasVisibleSuccessor == Decisions!HiddenHasVisibleSuccessor
(* Suggestions!EdgesStand and CompletionOnActions: what was accepted stands, and only *)
(* where it can: edges lead to published rows, completions are of actions.             *)
AcceptedStands == Decisions!EdgesStand /\ Actions!CompletionOnActions
(* Suggestions!SuccessorIsDecision: what hides a decision stays a decision. *)
SuccessorIsDecision == Decisions!SuccessorIsDecision
(* Suggestions!PendingSupersedeActionable: what is pending can be accepted. *)
PendingSupersedeActionable == Decisions!PendingSupersedeActionable
=============================================================================
