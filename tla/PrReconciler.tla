---------------------------- MODULE PrReconciler ----------------------------
(* Merged pull requests of one repository, and the watermark that says which  *)
(* of them were already compared with the open actions.  A sync reads the     *)
(* watermark and lists the merged pull requests when it starts; it compares   *)
(* them long after, when its generation is published, by which time another        *)
(* sync may have started.  The list is of all closed pull requests, the one touched  *)
(* last first, and comes page by page: between two pages one may be merged, closed     *)
(* without being merged, touched or reopened.                                           *)
(*   src/backend/reconciler/pr_actions.py, repository.py _collect_merged_prs   *)
EXTENDS Naturals, FiniteSets, SequencesExt

CONSTANTS MaxPr,     \* pull request numbers
          Sync,      \* syncs of the repository
          PageSize,  \* pull requests on a page, 100
          MaxTouches,\* bound: comments on closed pull requests, and reopenings
          MaxFaults  \* GitHub, model and database calls that fail, and crashes

VARIABLES closed,     \* the closed pull requests on GitHub, the one touched last first
          merged,     \* those that are merged
          overtaken,  \* history: merged after a greater number that a sync had listed
          mark,       \* repositories.last_reconciled_pr
          pc, listed, \* of each sync: where it is, the pull requests it listed,
          since, page,\* the watermark it read, pages it read
          slipped,    \* history: merged, and moved between two pages of a list that was read
          touches,
          judged,     \* history: compared with the actions open at the time
          faults
vars == <<closed, merged, overtaken, mark, pc, listed, since, page, slipped, touches, judged, faults>>
github == <<closed, merged, overtaken, slipped, touches>>
syncs == <<mark, pc, listed, since, page, judged, faults>>

Pr == 1..MaxPr
Goto(s, l) == pc' = [pc EXCEPT ![s] = l]
Fault == faults < MaxFaults /\ faults' = faults + 1

Init == /\ closed = <<>> /\ merged = {} /\ overtaken = {} /\ judged = {} /\ slipped = {} /\ touches = 0
        /\ mark = 0
        /\ pc = [s \in Sync |-> "idle"]
        /\ listed = [s \in Sync |-> {}]
        /\ since = [s \in Sync |-> 0] /\ page = [s \in Sync |-> 0]
        /\ faults = 0

-----------------------------------------------------------------------------
(* What a sync has read of the list, after the first page. *)
Read(s) == page[s] * PageSize
Reading(s) == pc[s] = "listing" /\ page[s] > 0

(* A greater number is behind the watermark, or in a list that p will not be in. *)
IsOvertaken(p) ==
    \E q \in merged :
        /\ q > p
        /\ \/ q <= mark
           \/ \E s \in Sync : Reading(s) \/ (pc[s] \in {"published", "advance"} /\ q \in listed[s])

MergeOnGithub(p) ==
    /\ p \notin Range(closed)
    /\ closed' = <<p>> \o closed /\ merged' = merged \cup {p}
    /\ overtaken' = IF IsOvertaken(p) THEN overtaken \cup {p} ELSE overtaken
    /\ UNCHANGED <<slipped, touches, syncs>>
CloseUnmerged(p) ==
    /\ p \notin Range(closed)
    /\ closed' = <<p>> \o closed
    /\ UNCHANGED <<merged, overtaken, slipped, touches, syncs>>

Changed == touches < MaxTouches /\ touches' = touches + 1
(* It moves to the front; whoever has read the first page will not meet it. *)
Touch(p) ==
    /\ Changed
    /\ \E i \in DOMAIN closed : closed[i] = p /\ closed' = <<p>> \o RemoveAt(closed, i)
    /\ slipped' = IF p \in merged /\ \E s \in Sync : Reading(s) /\ p \notin listed[s]
                  THEN slipped \cup {p} ELSE slipped
    /\ UNCHANGED <<merged, overtaken, syncs>>
(* One that was not merged is open again: what followed it moves up, and the first of    *)
(* the next page to the page that was read.                                                *)
Reopen(p) ==
    /\ Changed
    /\ p \notin merged
    /\ \E i \in DOMAIN closed :
          /\ closed[i] = p /\ closed' = RemoveAt(closed, i)
          /\ slipped' = slipped \cup
                {q \in merged : \E s \in Sync : /\ Reading(s) /\ q \notin listed[s] /\ i <= Read(s)
                                             /\ Read(s) < Len(closed) /\ q = closed[Read(s) + 1]}
    /\ UNCHANGED <<merged, overtaken, syncs>>

-----------------------------------------------------------------------------
\* Mutant: the watermark is taken for the first number already seen, off by one.
ReadMarkOff(s) ==
    /\ pc[s] = "idle"
    /\ \/ since' = [since EXCEPT ![s] = mark + 1] /\ UNCHANGED faults
       \/ Fault /\ since' = [since EXCEPT ![s] = 0]
    /\ Goto(s, "listing")
    /\ UNCHANGED <<github, mark, listed, page, judged>>

(* The watermark is read first, the list is fetched later; a watermark that    *)
(* cannot be read counts as 0, a list that cannot be fetched as empty.         *)
ReadMark(s) ==
    /\ pc[s] = "idle"
    /\ \/ since' = [since EXCEPT ![s] = mark] /\ UNCHANGED faults
       \/ Fault /\ since' = [since EXCEPT ![s] = 0]
    /\ Goto(s, "listing")
    /\ UNCHANGED <<github, mark, listed, page, judged>>
PageOf(s) == SubSeq(closed, Read(s) + 1, Min({Read(s) + PageSize, Len(closed)}))
Listed(s, prs) == /\ listed' = [listed EXCEPT ![s] = prs]
                  /\ page' = [page EXCEPT ![s] = 0] /\ since' = [since EXCEPT ![s] = 0]
                  /\ Goto(s, "published")
CollectMergedPrs(s) ==
    /\ pc[s] = "listing"
    /\ LET prs == listed[s] \cup {p \in Range(PageOf(s)) \cap merged : p > since[s]}
       IN  \/ Len(PageOf(s)) < PageSize /\ Listed(s, prs) /\ UNCHANGED faults
           \/ /\ Len(PageOf(s)) = PageSize
              /\ listed' = [listed EXCEPT ![s] = prs]
              /\ page' = [page EXCEPT ![s] = @ + 1]
              /\ UNCHANGED <<pc, since, faults>>
           \/ Fault /\ Listed(s, {})
    /\ UNCHANGED <<github, mark, judged>>

\* Mutant: a model call that fails is logged, and the watermark advances.
SyncFailsOnward(s) ==
    /\ pc[s] \in {"listing", "published", "advance"} /\ Fault
    /\ Goto(s, IF pc[s] = "published" /\ listed[s] # {} THEN "advance" ELSE "done")
    /\ UNCHANGED <<github, mark, listed, since, page, judged>>

(* The sync fails before it is published, and reconciles nothing. *)
SyncFails(s) ==
    /\ pc[s] \in {"listing", "published", "advance"} /\ Fault
    /\ Goto(s, "done")
    /\ UNCHANGED <<github, mark, listed, since, page, judged>>

(* Nothing to reconcile; or the model is asked about every listed pull request  *)
(* and its matches are committed as suggestions.                                *)
Reconcile(s) ==
    /\ pc[s] = "published"
    /\ judged' = judged \cup listed[s]
    /\ Goto(s, IF listed[s] = {} THEN "done" ELSE "advance")
    /\ UNCHANGED <<github, mark, listed, since, page, faults>>
AdvanceWatermark(s) ==
    /\ pc[s] = "advance"
    /\ mark' = Max({mark} \cup listed[s])
    /\ Goto(s, "done")
    /\ UNCHANGED <<github, listed, since, page, judged, faults>>
Again(s) ==
    /\ pc[s] = "done"
    /\ Goto(s, "idle") /\ listed' = [listed EXCEPT ![s] = {}]
    /\ page' = [page EXCEPT ![s] = 0] /\ since' = [since EXCEPT ![s] = 0]
    /\ UNCHANGED <<github, mark, judged, faults>>

(* The work of a sync that was started. *)
Work(s) == CollectMergedPrs(s) \/ Reconcile(s) \/ AdvanceWatermark(s)
Run(s) == ReadMark(s) \/ Work(s) \/ SyncFails(s) \/ Again(s)
Next == \/ \E p \in Pr : MergeOnGithub(p) \/ CloseUnmerged(p) \/ Touch(p) \/ Reopen(p)
        \/ \E s \in Sync : Run(s)
(* A sync that was started runs; nothing but a person starts one. *)
Fairness == \A s \in Sync : WF_vars(Work(s))
Spec == Init /\ [][Next]_vars /\ Fairness

-----------------------------------------------------------------------------
TypeOK == /\ merged \subseteq Range(closed) /\ Range(closed) \subseteq Pr /\ IsInjective(closed)
          /\ overtaken \cup slipped \cup judged \subseteq merged
          /\ mark \in 0..MaxPr /\ since \in [Sync -> 0..MaxPr]
          /\ pc \in [Sync -> {"idle", "listing", "published", "advance", "done"}]
          /\ listed \in [Sync -> SUBSET Pr] /\ page \in [Sync -> 0..(MaxPr + 1)]
          /\ faults \in 0..MaxFaults /\ touches \in 0..MaxTouches

(* The watermark never passes a pull request that was not compared, except one that   *)
(* was merged when a sync had already listed a greater number, or that moved between     *)
(* two pages of a list that was read, because it was touched or because one that was       *)
(* not merged was reopened: overlapping syncs, merges and other closings during a list,     *)
(* failed lists, failed model calls and crashes only make it lag.                            *)
MarkIsHonest == \A p \in merged \ (overtaken \cup slipped) : p <= mark => p \in judged

(* ... and it does not lag for ever: if people keep starting syncs, every pull request  *)
(* not so excepted is compared in the end.                                                 *)
OrderedPrJudged ==
    []<>(\E s \in Sync : pc[s] = "listing") =>
        \A p \in Pr : p \in merged \ (overtaken \cup slipped) ~> p \in judged \cup slipped
=============================================================================
