---------------------------- MODULE Suggestions ----------------------------
(* The shared memory table of one project and the suggestions people act on: *)
(* an extracted action gets a due-date suggestion, a merged pull request     *)
(* suggests that an action is complete, and a new decision may be suggested  *)
(* to supersede an old one.  A person accepts or rejects a suggestion, while *)
(* other requests edit and delete rows and repository generations replace    *)
(* one another underneath.                                                   *)
(*   src/backend/api/suggestion.py   src/backend/api/memory.py               *)
(*   src/backend/reconciler/supersede.py   views of db/schema.sql            *)
EXTENDS Naturals, FiniteSets

CONSTANTS MaxRow,      \* memory rows ever inserted (ids are never reused)
          MaxGen,      \* repository generations ever published
          MaxSug,      \* suggestions kept at once, resolved ones included
          MaxTx,       \* accept and reject requests running at once
          Category,    \* categories in play, decision and action among them
          Kinds        \* kinds of suggestion in play; a field that only the other
                       \* kinds depend on is not edited


VARIABLES row,     \* memory: one record per id, category "none" when there is no row
          nextRow, \* AUTO_INCREMENT
          active,  \* repositories.active_sync_run_id; generation 0 is document rows
          sug,     \* memory_suggestions
          job,     \* supersede detections under way
          tx       \* transactions of accept and reject requests, holding row locks
vars == <<row, nextRow, active, sug, job, tx>>

NULL == 0
Row == 1..MaxRow
Gen == 0..MaxGen + 1
Due == {NULL, 1}
Memory == [cat: Category \cup {"none"}, gen: Gen, by: Row \cup {NULL}, due: Due,
           done: BOOLEAN]
Absent == [cat |-> "none", gen |-> 0, by |-> NULL, due |-> NULL, done |-> FALSE]
Status == {"pending", "accepted", "rejected"}
(* arg: the superseding row, the candidate due date, or the pull request. *)
Suggestion == [kind: Kinds, target: Row, arg: Row, status: Status]
Job == [news: SUBSET Row, cands: SUBSET Row, at: {"fetch", "judge"}]
Tx == [sug: Suggestion, verdict: {"accepted", "rejected"}]

Exists(m) == row[m].cat # "none"
Published(m) == Exists(m) /\ row[m].gen \in {0, active}
Superseded(m) == row[m].by # NULL /\ Published(row[m].by)
Active(m) == Published(m) /\ ~Superseded(m)
LiveDecision(m) == Active(m) /\ row[m].cat = "decision" /\ row[m].by = NULL
TargetCategory(kind) == IF kind = "supersede" THEN "decision" ELSE "action"

Pending(s) == s.status = "pending"
\* Mutant: only suggestions to hide the row are withdrawn, not those to hide others.
MentionsTarget(s, m) == s.kind = "supersede" /\ Pending(s) /\ m = s.target

Mentions(s, m) == s.kind = "supersede" /\ Pending(s) /\ m \in {s.target, s.arg}
(* The suggestions after those of S are closed with the given status. *)
Closed(S, status) == (sug \ S) \cup {[s EXCEPT !.status = status] : s \in S}
(* What list_suggestions shows a person as waiting for a decision. *)
Listed(s) == /\ Pending(s) /\ Active(s.target)
             /\ s.kind = "supersede" => Active(s.arg)

(* The row locks of open requests: SELECT ... FOR UPDATE on suggestion and target. *)
Locked(m) == \E t \in tx : t.sug.target = m
LockedSug(S) == \E t \in tx : t.sug \in S

Init == /\ row = [m \in Row |-> Absent]
        /\ nextRow = 1
        /\ active = 0
        /\ sug = {}
        /\ job = {}
        /\ tx = {}

-----------------------------------------------------------------------------
(* Rows come and go. *)

Suggest(kind, m, x) ==
    /\ kind \in Kinds
    /\ Cardinality(sug) < MaxSug
    /\ sug' = sug \cup {[kind |-> kind, target |-> m, arg |-> x, status |-> "pending"]}
Insert(new) == row' = [row EXCEPT ![nextRow] = new] /\ nextRow' = nextRow + 1

(* A document is ingested; its relative deadlines become due-date suggestions, *)
(* and its decisions start a supersede detection.                              *)
IngestDocument(c, hint) ==
    /\ nextRow <= MaxRow
    /\ Insert([Absent EXCEPT !.cat = c])
    /\ IF c = "action" /\ hint THEN Suggest("set_due_date", nextRow, 1) ELSE UNCHANGED sug
    /\ job' = IF c = "decision"
              THEN job \cup {[news |-> {nextRow}, cands |-> {}, at |-> "fetch"]}
              ELSE job
    /\ UNCHANGED <<active, tx>>

(* A row written by hand: no suggestion, no detection. *)
CreateMemory(c) ==
    /\ nextRow <= MaxRow
    /\ Insert([Absent EXCEPT !.cat = c])
    /\ UNCHANGED <<active, sug, job, tx>>

(* A sync stages a row of the next generation, which nobody sees yet. *)
StageRow(c) ==
    /\ nextRow <= MaxRow /\ active < MaxGen
    /\ Insert([Absent EXCEPT !.cat = c, !.gen = active + 1])
    /\ UNCHANGED <<active, sug, job, tx>>

(* Publication: edges and suggestions into the generations it retires are undone. *)
Retired(m) == row[m].gen \notin {0, active + 1}
\* Mutant: the publication leaves the edges.
DetachedNever == row

Detached == [m \in Row |-> IF row[m].by # NULL /\ Retired(row[m].by)
                           THEN [row[m] EXCEPT !.by = NULL] ELSE row[m]]
Outdated == {s \in sug : Pending(s) /\ (Retired(s.target)
                                        \/ (s.kind = "supersede" /\ Retired(s.arg)))}
Publish ==
    /\ active < MaxGen
    /\ ~LockedSug(Outdated)
    /\ active' = active + 1
    /\ row' = Detached
    /\ sug' = Closed(Outdated, "rejected")
    /\ LET news == {m \in Row : row[m].cat = "decision" /\ row[m].gen = active + 1}
       IN  job' = IF news = {} THEN job
                  ELSE job \cup {[news |-> news, cands |-> {}, at |-> "fetch"]}
    /\ UNCHANGED <<nextRow, tx>>

(* Deleting rows: superseded_by is SET NULL, suggestions of the target cascade. *)
Drop(S) ==
    /\ row' = [m \in Row |-> IF m \in S THEN Absent
                             ELSE IF row[m].by \in S THEN [row[m] EXCEPT !.by = NULL]
                             ELSE row[m]]
    /\ sug' = {s \in sug : s.target \notin S}

SweepOld ==
    LET old == {m \in Row : Exists(m) /\ row[m].gen \notin {0, active, active + 1}}
    IN  /\ old # {}
        /\ \A m \in old : ~Locked(m)
        /\ Drop(old)
        /\ UNCHANGED <<nextRow, active, job, tx>>

DeleteMemory(m) ==
    /\ Published(m)
    /\ ~Locked(m) /\ \A p \in Row : row[p].by = m => ~Locked(p)
    /\ Drop({m})
    /\ UNCHANGED <<nextRow, active, job, tx>>

-----------------------------------------------------------------------------
\* Mutant: another category keeps the completion.
CompletionKept(m, c, done) == IF done # {} THEN CHOOSE b \in done : TRUE ELSE row[m].done

(* PATCH of one row.  c is the new category ("none": not in the request), text *)
(* says whether content, topic, reason or date is edited, due and done are     *)
(* sets: empty when the field is not in the request.  The two category guards  *)
(* read active_memory, which never shows a row with a published successor.     *)
Completion(m, c, done) ==
    IF done # {} THEN CHOOSE b \in done : TRUE
    ELSE IF c = "none" \/ (c = "action" /\ row[m].cat = "action") THEN row[m].done
    ELSE FALSE
UpdateMemory(m, c, text, due, done) ==
    LET edges == IF c # "none" \/ text THEN {s \in sug : Mentions(s, m)} ELSE {}
        dates == IF due = {} THEN {}
                 ELSE {s \in sug : Pending(s) /\ s.kind = "set_due_date" /\ s.target = m}
    IN  /\ c # "none" \/ text \/ due # {} \/ done # {}
        /\ Published(m)
        /\ ~Locked(m) /\ ~LockedSug(edges \cup dates)
        /\ done # {} => IF c = "none" THEN Active(m) /\ row[m].cat = "action" ELSE c = "action"
        /\ c \notin {"none", "decision"} =>
              /\ ~\E p \in Row : Active(p) /\ row[p].by = m
              /\ Active(m) => row[m].by = NULL
        /\ sug' = Closed(edges \cup dates, "rejected")
        /\ row' = [row EXCEPT
              ![m].cat = IF c = "none" THEN @ ELSE c,
              ![m].due = IF due = {} THEN @ ELSE CHOOSE x \in due : TRUE,
              ![m].done = Completion(m, c, done)]
        /\ UNCHANGED <<nextRow, active, job, tx>>

-----------------------------------------------------------------------------
(* Supersede detection: read the live decisions, ask the model (seconds), and  *)
(* insert what it answered if it still makes sense.                            *)
DetectFetch(j) ==
    /\ j.at = "fetch"
    /\ LET cands == {m \in Row \ j.news : LiveDecision(m)}
       IN  job' = (job \ {j}) \cup
                  (IF cands = {} THEN {} ELSE {[j EXCEPT !.cands = cands, !.at = "judge"]})
    /\ UNCHANGED <<row, nextRow, active, sug, tx>>

Insertable(j, old, new) ==
    /\ old \in j.cands /\ new \in j.news /\ old # new
    /\ Active(old) /\ row[old].cat = "decision"
    /\ Active(new) /\ row[new].cat = "decision"

(* The answer: any pairs, ids the model made up included.  A match that is not      *)
(* insertable, or whose dates are inverted, is skipped; the others are stored         *)
(* together, in one transaction.                                                        *)
Matches(j) == {p \in Row \X Row : Insertable(j, p[1], p[2])}
SuggestAll(matches) ==
    /\ matches = {} \/ "supersede" \in Kinds
    /\ sug' = sug \cup {[kind |-> "supersede", target |-> p[1], arg |-> p[2],
                        status |-> "pending"] : p \in matches}
    /\ Cardinality(sug') <= MaxSug
DetectInsert(j) ==
    /\ j.at = "judge"
    /\ job' = job \ {j}
    /\ \E matches \in SUBSET Matches(j) : SuggestAll(matches)
    /\ UNCHANGED <<row, nextRow, active, tx>>

(* The reconciler found a merged pull request that completes an open action. *)
SuggestCompletion(m) ==
    /\ Active(m) /\ row[m].cat = "action" /\ ~row[m].done
    /\ Suggest("complete_action", m, 1)
    /\ UNCHANGED <<row, nextRow, active, job, tx>>

-----------------------------------------------------------------------------
(* Accept and reject: one transaction that locks the suggestion and its target, *)
(* applies the effect, closes the suggestion and commits.                       *)
Open(s, verdict) ==
    /\ Cardinality(tx) < MaxTx
    /\ Pending(s) /\ Active(s.target)
    /\ row[s.target].cat = TargetCategory(s.kind)
    /\ ~Locked(s.target)
    /\ tx' = tx \cup {[sug |-> s, verdict |-> verdict]}
    /\ UNCHANGED <<row, nextRow, active, sug, job>>

Edges(t) == {s \in sug : s # t.sug /\ Mentions(s, t.sug.target)}
(* The other requests this one has to wait for: they hold the superseding row, *)
(* or a suggestion it is about to close.                                        *)
Blockers(t) ==
    IF t.verdict = "accepted" /\ t.sug.kind = "supersede"
    THEN {q \in tx \ {t} : q.sug.target = t.sug.arg \/ q.sug \in Edges(t)}
    ELSE {}

End(t) == tx' = tx \ {t} /\ UNCHANGED <<nextRow, active, job>>

Reject(t) ==
    /\ t.verdict = "rejected"
    /\ sug' = Closed({t.sug}, "rejected")
    /\ UNCHANGED row
    /\ End(t)

AcceptDueDate(t) ==
    /\ t.verdict = "accepted" /\ t.sug.kind = "set_due_date"
    /\ row[t.sug.target].due \in {NULL, t.sug.arg}
    /\ row' = [row EXCEPT ![t.sug.target].due = t.sug.arg]
    /\ sug' = Closed({t.sug}, "accepted")
    /\ End(t)

AcceptCompletion(t) ==
    /\ t.verdict = "accepted" /\ t.sug.kind = "complete_action"
    /\ row' = [row EXCEPT ![t.sug.target].done = TRUE]
    /\ sug' = Closed({t.sug}, "accepted")
    /\ End(t)

\* Mutant: the superseding row is neither locked nor read again, and opposite
\* suggestions stay open.
AcceptSupersedeBlindly(t) ==
    /\ t.verdict = "accepted" /\ t.sug.kind = "supersede"
    /\ row' = [row EXCEPT ![t.sug.target].by = t.sug.arg]
    /\ sug' = Closed({t.sug}, "accepted")
    /\ End(t)

AcceptSupersede(t) ==
    /\ t.verdict = "accepted" /\ t.sug.kind = "supersede"
    /\ Blockers(t) = {}
    /\ LiveDecision(t.sug.arg)
    /\ row[t.sug.target].by = NULL
    /\ row' = [row EXCEPT ![t.sug.target].by = t.sug.arg]
    /\ sug' = (Closed(Edges(t), "rejected") \ {t.sug})
              \cup {[t.sug EXCEPT !.status = "accepted"]}
    /\ End(t)

(* 409, a deadlock victim or a lock wait timeout: everything is rolled back. *)
Refused(t) ==
    /\ \/ Blockers(t) # {}
       \/ /\ t.verdict = "accepted" /\ t.sug.kind = "supersede"
          /\ ~(LiveDecision(t.sug.arg) /\ row[t.sug.target].by = NULL)
       \/ /\ t.verdict = "accepted" /\ t.sug.kind = "set_due_date"
          /\ row[t.sug.target].due \notin {NULL, t.sug.arg}
    /\ UNCHANGED <<row, sug>>
    /\ End(t)

Content == \/ \E c \in Category, h \in BOOLEAN : IngestDocument(c, h)
           \/ \E c \in Category : CreateMemory(c)
           \/ \E c \in Category : StageRow(c)
           \/ Publish \/ SweepOld
           \/ \E m \in Row : DeleteMemory(m)
Edit == \E m \in Row :
           \/ \E c \in Category, 
                 done \in {{}} \cup {{TRUE} : k \in Kinds \cap {"complete_action"}} :
              UpdateMemory(m, c, FALSE, {}, done)
           \/ UpdateMemory(m, "none", TRUE, {}, {})
           \/ /\ "set_due_date" \in Kinds
              /\ \E due \in Due : UpdateMemory(m, "none", FALSE, {due}, {})
           \/ /\ "complete_action" \in Kinds
              /\ \E done \in BOOLEAN : UpdateMemory(m, "none", FALSE, {}, {done})
Detect == \E j \in job : DetectFetch(j) \/ DetectInsert(j)
Reconcile == \E m \in Row : SuggestCompletion(m)
Resolve == \/ \E s \in sug, v \in {"accepted", "rejected"} : Open(s, v)
           \/ \E t \in tx : \/ Reject(t) \/ AcceptDueDate(t) \/ AcceptCompletion(t)
                            \/ AcceptSupersede(t) \/ Refused(t)
Next == Content \/ Edit \/ Detect \/ Reconcile \/ Resolve
Spec == Init /\ [][Next]_vars

-----------------------------------------------------------------------------
TypeOK == /\ row \in [Row -> Memory]
          /\ nextRow \in 1..MaxRow + 1
          /\ active \in 0..MaxGen
          /\ sug \subseteq Suggestion
          /\ job \subseteq Job
          /\ tx \subseteq Tx
          \* What a request under way has locked is still there, and pending.
          /\ \A t \in tx : t.sug \in sug /\ Pending(t.sug) /\ Exists(t.sug.target)

(* Following published successors from m for k steps. *)
Follow[k \in 0..MaxRow] ==
    IF k = 0 THEN [m \in Row |-> m]
    ELSE [m \in Row |-> LET p == Follow[k - 1][m]
                        IN  IF Superseded(p) THEN row[p].by ELSE p]

(* No topic is wiped out: from every decision the reader is not shown, the      *)
(* published successors lead to one that is shown.  Two suggestions in opposite *)
(* directions, accepted at once or one after the other, must not close a cycle  *)
(* (suggestion.py:185-190).                                                      *)
HiddenHasVisibleSuccessor == \A m \in Row : Published(m) => Active(Follow[MaxRow][m])

(* A row never points at a successor the reader cannot see, however generations *)
(* replace one another and rows are deleted: publication detaches the edges into *)
(* the generations it retires, and a deleted successor is set to NULL.  And the    *)
(* record agrees with the effect: while both decisions of an accepted suggestion   *)
(* are published, the old one points at the new one (suggestion.py:204-205).       *)
EdgesStand ==
    /\ \A m \in Row : row[m].by # NULL => Published(row[m].by)
    /\ \A s \in sug : s.kind = "supersede" /\ s.status = "accepted"
                      /\ Published(s.target) /\ Published(s.arg) => row[s.target].by = s.arg

(* "Cannot change category: this decision supersedes another decision": what     *)
(* hides a decision stays one (memory.py:187-194, and line 82 of                   *)
(* docs/handovers/frontend/HANDOVER_SUPERSEDE_FRONTEND.md).                        *)
SuccessorIsDecision ==
    \A m \in Row : Superseded(m) => row[row[m].by].cat = "decision"

(* A supersede suggestion shown as pending can be accepted: edits, publications *)
(* and other acceptances close the ones they invalidate (suggestion.py:257-259). *)
PendingSupersedeActionable ==
    \A s \in sug : s.kind = "supersede" /\ Listed(s) =>
        row[s.target].cat = "decision" /\ LiveDecision(s.arg)

(* Only an action is complete: a change of category clears the completion, and  *)
(* cannot slip between the check and the effect of an acceptance                *)
(* (memory.py:206-216, suggestion.py:142-147).                                   *)
CompletionOnActions == \A m \in Row : row[m].done => row[m].cat = "action"
=============================================================================
