------------------------- MODULE SuggestionsProofs -------------------------
(* Theorems about Suggestions, for every number of rows, generations, suggestions and *)
(* transactions.                                                                          *)
EXTENDS Suggestions, Numbers

-----------------------------------------------------------------------------
(* Requests that are open hold their own locks, on rows of the right category, and no two *)
(* of them the same.                                                                      *)
LocksHeld ==
    /\ \A t \in tx : row[t.sug.target].cat = TargetCategory(t.sug.kind)
    /\ \A t, u \in tx : t.sug.target = u.sug.target => t = u

(* Ids are never reused. *)
IdsBelow ==
    /\ \A m \in Row : m >= nextRow => row[m] = Absent
    /\ \A s \in sug : s.target < nextRow /\ (s.kind = "supersede" => s.arg < nextRow)

(* A due-date suggestion holds a date. *)
DatesKnown == \A s \in sug : s.kind = "set_due_date" => s.arg \in Due

(* The two ends of a supersede suggestion are different rows of generations that have     *)
(* been published; while it is pending both are decisions, unless the new one is gone.    *)
EndsKnown ==
    \A s \in sug : s.kind = "supersede" =>
        /\ s.target # s.arg
        /\ row[s.target].gen <= active /\ row[s.arg].gen <= active
        /\ Pending(s) => row[s.target].cat = "decision" /\ row[s.arg].cat \in {"decision", "none"}

NewRow(c, g) == [cat |-> c, gen |-> g, by |-> NULL, due |-> NULL, done |-> FALSE]

LEMMA Inserted ==
    ASSUME NEW c, NEW g
    PROVE  /\ [Absent EXCEPT !.cat = c] = NewRow(c, 0)
           /\ [Absent EXCEPT !.cat = c, !.gen = g] = NewRow(c, g)
<1> DEFINE Template(r) == r \in [cat : {"none"}, gen : {0}, by : {NULL}, due : {NULL}, done : {FALSE}]
<1>1. ASSUME NEW r, Template(r)
      PROVE  /\ [r EXCEPT !.cat = c] = NewRow(c, 0)
             /\ [r EXCEPT !.cat = c, !.gen = g] = NewRow(c, g)
  <2> DEFINE Like(k, h) == [cat : {k}, gen : {h}, by : {NULL}, due : {NULL}, done : {FALSE}]
  <2>1. [r EXCEPT !.cat = c] \in Like(c, 0)
    BY <1>1
  <2>2. [[r EXCEPT !.cat = c] EXCEPT !.gen = g] \in Like(c, g)
    BY <2>1
  <2>3. ASSUME NEW k, NEW h, NEW x \in Like(k, h) PROVE x = NewRow(k, h)
    BY DEF NewRow
  <2> HIDE DEF Like
  <2> QED BY <2>1, <2>2, <2>3
<1>2. Template(Absent)
  BY DEF Absent, NewRow, NULL
<1> HIDE DEF Template
<1> QED BY <1>1, <1>2

(* What the actions do to the rows, the suggestions and the requests. *)
LEMMA InsertStep ==
    ASSUME MaxRow \in Nat, MaxGen \in Nat, TypeOK, nextRow <= MaxRow,
           NEW c \in Category, NEW g \in Gen, Insert(NewRow(c, g))
    PROVE  /\ row' \in [Row -> Memory] /\ nextRow' \in 1..MaxRow + 1 /\ nextRow' = nextRow + 1
           /\ nextRow \in Row /\ row'[nextRow] = NewRow(c, g)
           /\ \A m \in Row : m # nextRow => row'[m] = row[m]
<1>1. nextRow \in Row /\ NewRow(c, g) \in Memory
  BY DEF TypeOK, Row, NewRow, Memory, NULL, Due
<1> QED BY <1>1 DEF TypeOK, Insert

LEMMA DropStep ==
    ASSUME MaxGen \in Nat, TypeOK, NEW S \in SUBSET Row, Drop(S)
    PROVE  /\ row' \in [Row -> Memory]
           /\ \A m \in S : row'[m] = Absent
           /\ \A m \in Row \ S : row[m].by \in S => row'[m] = [row[m] EXCEPT !.by = NULL]
           /\ \A m \in Row \ S : row[m].by \notin S => row'[m] = row[m]
           /\ sug' = {s \in sug : s.target \notin S}
<1>1. Absent \in Memory
  BY DEF Absent, Memory, NULL, Due, Gen
<1>2. \A m \in Row : [row[m] EXCEPT !.by = NULL] \in Memory
  <2> SUFFICES ASSUME NEW m \in Row PROVE [row[m] EXCEPT !.by = NULL] \in Memory
    OBVIOUS
  <2>1. row[m] \in Memory
    BY DEF TypeOK
  <2> QED BY <2>1 DEF Memory
<1>3. \A m \in Row : row[m] \in Memory
  BY DEF TypeOK
<1> HIDE DEF Memory
<1> QED BY <1>1, <1>2, <1>3 DEF Drop
(* Closing suggestions changes their status only. *)
LEMMA ClosedShape ==
    ASSUME sug \subseteq Suggestion, NEW S \in SUBSET sug, NEW v \in Status
    PROVE  /\ Closed(S, v) \subseteq Suggestion
           /\ \A s \in sug \ S : s \in Closed(S, v)
           /\ \A s \in Closed(S, v) :
                 \/ s \in sug \ S
                 \/ /\ s.status = v
                    /\ \E r \in S : s.kind = r.kind /\ s.target = r.target /\ s.arg = r.arg
<1>1. ASSUME NEW r \in S
      PROVE  /\ [r EXCEPT !.status = v] \in Suggestion
             /\ [r EXCEPT !.status = v].status = v
             /\ [r EXCEPT !.status = v].kind = r.kind
             /\ [r EXCEPT !.status = v].target = r.target
             /\ [r EXCEPT !.status = v].arg = r.arg
  <2>1. r \in Suggestion
    OBVIOUS
  <2> QED BY <2>1 DEF Suggestion
<1> HIDE DEF Suggestion
<1> QED BY <1>1 DEF Closed

(* A PATCH changes one row, in category, due date and completion only. *)
LEMMA UpdateStep ==
    ASSUME TypeOK, NEW m \in Row, NEW c \in Category \cup {"none"}, NEW text \in BOOLEAN,
           NEW due \in SUBSET Due, NEW done \in SUBSET BOOLEAN,
           UpdateMemory(m, c, text, due, done)
    PROVE  /\ row' \in [Row -> Memory]
           /\ \A p \in Row : p # m => row'[p] = row[p]
           /\ \A p \in Row : row'[p].by = row[p].by /\ row'[p].gen = row[p].gen
           /\ row'[m].cat = IF c = "none" THEN row[m].cat ELSE c
           /\ row'[m].done = Completion(m, c, done)
<1>1. row[m] \in Memory
  BY DEF TypeOK
<1>2. Completion(m, c, done) \in BOOLEAN
  BY <1>1 DEF Completion, Memory
<1>3. due # {} => (CHOOSE x \in due : TRUE) \in Due
  OBVIOUS
<1> DEFINE cat == IF c = "none" THEN row[m].cat ELSE c
           d == IF due = {} THEN row[m].due ELSE CHOOSE x \in due : TRUE
           new == [cat |-> cat, gen |-> row[m].gen, by |-> row[m].by, due |-> d,
                   done |-> Completion(m, c, done)]
<1>4. new \in Memory
  <2>1. cat \in Category \cup {"none"} /\ d \in Due
    BY <1>1, <1>3 DEF Memory
  <2> HIDE DEF cat, d
  <2> QED BY <1>1, <1>2, <2>1 DEF Memory
<1>5. row'[m] = new /\ \A p \in Row : p # m => row'[p] = row[p]
  <2>1. row' = [row EXCEPT ![m] = [row[m] EXCEPT !.cat = cat, !.due = d,
                                                 !.done = Completion(m, c, done)]]
    BY DEF UpdateMemory, TypeOK
  <2>2. [row[m] EXCEPT !.cat = cat, !.due = d, !.done = Completion(m, c, done)] = new
    <3> HIDE DEF cat, d
    <3> DEFINE Like == [cat : {cat}, gen : {row[m].gen}, by : {row[m].by}, due : {d},
                        done : {Completion(m, c, done)}]
    <3>1. [row[m] EXCEPT !.cat = cat, !.due = d, !.done = Completion(m, c, done)] \in Like
      BY <1>1 DEF Memory
    <3>2. \A x \in Like : x = new
      OBVIOUS
    <3> HIDE DEF Like
    <3> QED BY <3>1, <3>2
  <2> HIDE DEF new, cat, d
  <2> QED BY <2>1, <2>2 DEF TypeOK
<1>6. row' \in [Row -> Memory]
  <2> HIDE DEF new
  <2>1. DOMAIN row' = Row /\ row' = [p \in Row |-> row'[p]]
    BY DEF UpdateMemory, TypeOK
  <2>2. \A p \in Row : row'[p] \in Memory
    BY <1>4, <1>5 DEF TypeOK
  <2> QED BY <2>1, <2>2
<1> QED BY <1>5, <1>6

(* The three ways a row appears. *)
LEMMA Insertions ==
    ASSUME MaxGen \in Nat, TypeOK, NEW c \in Category, NEW h \in BOOLEAN,
           IngestDocument(c, h) \/ CreateMemory(c) \/ StageRow(c)
    PROVE  /\ nextRow <= MaxRow /\ UNCHANGED <<active, tx>>
           /\ \E g \in Gen : Insert(NewRow(c, g))
           /\ sug' = sug \/ Suggest("set_due_date", nextRow, 1)
           /\ job' = job \/ job' = job \cup {[news |-> {nextRow}, cands |-> {}, at |-> "fetch"]}
<1>1. 0 \in Gen /\ (active < MaxGen => active + 1 \in Gen)
  BY DEF Gen, TypeOK
<1>2. [Absent EXCEPT !.cat = c] = NewRow(c, 0)
  BY Inserted
<1>3. [Absent EXCEPT !.cat = c, !.gen = active + 1] = NewRow(c, active + 1)
  BY Inserted
<1> QED BY <1>1, <1>2, <1>3, Zenon DEF IngestDocument, CreateMemory, StageRow

(* Every edit is a PATCH of some fields. *)
LEMMA Edits ==
    ASSUME Edit
    PROVE  \E m \in Row, c \in Category \cup {"none"}, text \in BOOLEAN, due \in SUBSET Due,
              done \in SUBSET BOOLEAN : UpdateMemory(m, c, text, due, done)
<1>1. PICK m \in Row :
         \/ \E c \in Category,
               done \in {{}} \cup {{TRUE} : k \in Kinds \cap {"complete_action"}} :
               UpdateMemory(m, c, FALSE, {}, done)
         \/ UpdateMemory(m, "none", TRUE, {}, {})
         \/ \E due \in Due : UpdateMemory(m, "none", FALSE, {due}, {})
         \/ \E done \in BOOLEAN : UpdateMemory(m, "none", FALSE, {}, {done})
  BY DEF Edit
<1>2. CASE \E c \in Category,
             done \in {{}} \cup {{TRUE} : k \in Kinds \cap {"complete_action"}} :
             UpdateMemory(m, c, FALSE, {}, done)
  <2>1. PICK c \in Category,
             done \in {{}} \cup {{TRUE} : k \in Kinds \cap {"complete_action"}} :
             UpdateMemory(m, c, FALSE, {}, done)
    BY <1>2
  <2>2. done \in SUBSET BOOLEAN
    OBVIOUS
  <2> QED BY <2>1, <2>2, Zenon
<1>3. CASE UpdateMemory(m, "none", TRUE, {}, {})
  BY <1>3
<1>4. CASE \E due \in Due : UpdateMemory(m, "none", FALSE, {due}, {})
  BY <1>4
<1>5. CASE \E done \in BOOLEAN : UpdateMemory(m, "none", FALSE, {}, {done})
  BY <1>5
<1> QED BY <1>1, <1>2, <1>3, <1>4, <1>5

(* What a request in progress locked is left alone by everybody else. *)
LEMMA OthersRespectLocks ==
    ASSUME MaxRow \in Nat, MaxGen \in Nat, TypeOK, LocksHeld, IdsBelow,
           Content \/ Edit \/ Detect \/ Reconcile
    PROVE  /\ tx' = tx
           /\ \A t \in tx : t.sug \in sug' /\ row'[t.sug.target].cat = row[t.sug.target].cat
<1> SUFFICES /\ tx' = tx
             /\ \A t \in tx : t.sug \in sug' /\ row'[t.sug.target].cat = row[t.sug.target].cat
  OBVIOUS
<1>1. \A t \in tx : /\ t.sug \in sug /\ t.sug \in Suggestion /\ Pending(t.sug)
                    /\ t.sug.target \in Row /\ t.sug.target < nextRow
                    /\ Exists(t.sug.target)
  BY DEF TypeOK, IdsBelow, Suggestion
<1>2. ASSUME NEW c \in Category, NEW g \in Gen, nextRow <= MaxRow, Insert(NewRow(c, g)),
             sug \subseteq sug'
      PROVE  \A t \in tx : t.sug \in sug' /\ row'[t.sug.target].cat = row[t.sug.target].cat
  <2>1. \A m \in Row : m # nextRow => row'[m] = row[m]
    BY <1>2, InsertStep
  <2> QED BY <1>1, <1>2, <2>1 DEF TypeOK
<1>3. ASSUME NEW c \in Category, NEW h \in BOOLEAN,
             IngestDocument(c, h) \/ CreateMemory(c) \/ StageRow(c)
      PROVE  tx' = tx /\ \A t \in tx : t.sug \in sug' /\ row'[t.sug.target].cat = row[t.sug.target].cat
  <2>1. sug \subseteq sug'
    BY <1>3, Insertions DEF Suggest
  <2> QED BY <1>2, <1>3, <2>1, Insertions
<1>7. CASE Publish
  <2>1. \A m \in Row : row'[m].cat = row[m].cat
    BY <1>7 DEF Publish, Detached, TypeOK, Memory
  <2>2. Outdated \subseteq sug /\ "rejected" \in Status /\ sug' = Closed(Outdated, "rejected")
    BY <1>7 DEF Outdated, Status, Publish
  <2>3. \A t \in tx : t.sug \notin Outdated
    BY <1>7 DEF Publish, LockedSug
  <2> QED BY <1>1, <1>7, <2>1, <2>2, <2>3, ClosedShape DEF Publish, TypeOK
<1>8. ASSUME NEW S \in SUBSET Row, Drop(S), \A m \in S : ~Locked(m)
      PROVE  \A t \in tx : t.sug \in sug' /\ row'[t.sug.target].cat = row[t.sug.target].cat
  <2> SUFFICES ASSUME NEW t \in tx
               PROVE  t.sug \in sug' /\ row'[t.sug.target].cat = row[t.sug.target].cat
    OBVIOUS
  <2>1. t.sug.target \in Row \ S
    BY <1>1, <1>8 DEF Locked
  <2>2. [row[t.sug.target] EXCEPT !.by = NULL].cat = row[t.sug.target].cat
    BY <2>1 DEF TypeOK, Memory
  <2> QED BY <1>1, <1>8, <2>1, <2>2, DropStep
<1>9. CASE SweepOld
  BY <1>8, <1>9 DEF SweepOld
<1>10. ASSUME NEW m \in Row, DeleteMemory(m)
       PROVE  tx' = tx /\ \A t \in tx : t.sug \in sug' /\ row'[t.sug.target].cat = row[t.sug.target].cat
  BY <1>8, <1>10 DEF DeleteMemory
<1>11. ASSUME NEW m \in Row, NEW c \in Category \cup {"none"}, NEW text \in BOOLEAN,
              NEW due \in SUBSET Due, NEW done \in SUBSET BOOLEAN,
              UpdateMemory(m, c, text, due, done)
       PROVE  tx' = tx /\ \A t \in tx : t.sug \in sug' /\ row'[t.sug.target].cat = row[t.sug.target].cat
  <2>1. PICK S \in SUBSET sug : ~LockedSug(S) /\ sug' = Closed(S, "rejected")
    BY <1>11 DEF UpdateMemory
  <2>2. \A t \in tx : t.sug.target # m
    BY <1>11 DEF UpdateMemory, Locked
  <2>3. \A p \in Row : p # m => row'[p] = row[p]
    BY <1>11, UpdateStep
  <2>4. tx' = tx
    BY <1>11 DEF UpdateMemory
  <2>5. \A t \in tx : t.sug \in sug'
    BY <1>1, <2>1, ClosedShape DEF LockedSug, TypeOK, Status
  <2> QED BY <1>1, <2>2, <2>3, <2>4, <2>5
<1>12. CASE Edit
  BY <1>11, <1>12, Edits
<1>13. CASE Detect \/ Reconcile
  <2>1. UNCHANGED <<row, tx>> /\ sug \subseteq sug'
    BY <1>13 DEF Detect, DetectFetch, DetectInsert, SuggestAll, Reconcile, SuggestCompletion, Suggest
  <2> QED BY <1>1, <2>1
<1> QED BY <1>3, <1>7, <1>9, <1>10, <1>12, <1>13 DEF Content
(* What one resolution does. *)
Resolution(t) == Reject(t) \/ AcceptDueDate(t) \/ AcceptCompletion(t)
                 \/ AcceptSupersede(t) \/ Refused(t)

LEMMA Resolutions ==
    ASSUME MaxRow \in Nat, TypeOK, LocksHeld, DatesKnown, NEW t \in tx, Resolution(t)
    PROVE  /\ tx' = tx \ {t} /\ UNCHANGED <<nextRow, active, job>>
           /\ row' \in [Row -> Memory]
           /\ \A p \in Row : p # t.sug.target => row'[p] = row[p]
           /\ \A p \in Row : row'[p].cat = row[p].cat /\ row'[p].gen = row[p].gen
           /\ \A p \in Row : row'[p].by = row[p].by \/ AcceptSupersede(t)
           /\ \A p \in Row : row'[p].done = row[p].done \/ AcceptCompletion(t)
           /\ sug' \subseteq Suggestion
           /\ \A u \in tx \ {t} : u.sug \in sug'
           /\ \A s \in sug' :
                 \/ s \in sug
                 \/ /\ s.status \in {"accepted", "rejected"}
                    /\ \E r \in sug : s.kind = r.kind /\ s.target = r.target /\ s.arg = r.arg
                    /\ s.status = "accepted" =>
                          /\ s.kind = t.sug.kind /\ s.target = t.sug.target /\ s.arg = t.sug.arg
<1>1. /\ t.sug \in sug /\ t.sug \in Suggestion /\ t.sug.target \in Row /\ t.sug.arg \in Row
      /\ t.sug.kind \in Kinds
  BY DEF TypeOK, Suggestion
<1>2. \A u \in tx \ {t} : u.sug \in sug /\ u.sug # t.sug
  BY DEF TypeOK, LocksHeld
<1>3. tx' = tx \ {t} /\ UNCHANGED <<nextRow, active, job>>
  BY DEF Resolution, Reject, AcceptDueDate, AcceptCompletion, AcceptSupersede, Refused, End
<1> DEFINE RowPart == /\ row' \in [Row -> Memory]
                      /\ \A p \in Row : p # t.sug.target => row'[p] = row[p]
                      /\ \A p \in Row : row'[p].cat = row[p].cat /\ row'[p].gen = row[p].gen
                      /\ \A p \in Row : row'[p].by = row[p].by \/ AcceptSupersede(t)
                      /\ \A p \in Row : row'[p].done = row[p].done \/ AcceptCompletion(t)
           SugPart == /\ sug' \subseteq Suggestion
                      /\ \A u \in tx \ {t} : u.sug \in sug'
                      /\ \A s \in sug' :
                            \/ s \in sug
                            \/ /\ s.status \in {"accepted", "rejected"}
                               /\ \E r \in sug : /\ s.kind = r.kind /\ s.target = r.target
                                                 /\ s.arg = r.arg
                               /\ s.status = "accepted" =>
                                     /\ s.kind = t.sug.kind /\ s.target = t.sug.target
                                     /\ s.arg = t.sug.arg
<1>4. ASSUME NEW v \in {"accepted", "rejected"}, sug' = Closed({t.sug}, v) PROVE SugPart
  BY <1>1, <1>2, <1>4, ClosedShape DEF TypeOK, Status
<1>5. row[t.sug.target] \in Memory
  BY <1>1 DEF TypeOK
<1>6. CASE Reject(t)
  <2>1. RowPart
    BY <1>6 DEF Reject, TypeOK
  <2>2. SugPart
    BY <1>4, <1>6 DEF Reject
  <2> QED BY <1>3, <2>1, <2>2
<1>7. CASE AcceptDueDate(t)
  <2>1. t.sug.arg \in Due
    BY <1>1, <1>7 DEF AcceptDueDate, DatesKnown
  <2>2. RowPart
    BY <1>1, <1>5, <1>7, <2>1 DEF AcceptDueDate, TypeOK, Memory
  <2>3. SugPart
    BY <1>4, <1>7 DEF AcceptDueDate
  <2> QED BY <1>3, <2>2, <2>3
<1>8. CASE AcceptCompletion(t)
  <2>1. RowPart
    BY <1>1, <1>5, <1>8 DEF AcceptCompletion, TypeOK, Memory
  <2>2. SugPart
    BY <1>4, <1>8 DEF AcceptCompletion
  <2> QED BY <1>3, <2>1, <2>2
<1>9. CASE AcceptSupersede(t)
  <2>1. RowPart
    BY <1>1, <1>5, <1>9 DEF AcceptSupersede, TypeOK, Memory
  <2>2. Edges(t) \subseteq sug /\ t.sug \notin Edges(t)
    BY DEF Edges
  <2>3. \A u \in tx \ {t} : u.sug \notin Edges(t)
    BY <1>9 DEF AcceptSupersede, Blockers
  <2>4. [t.sug EXCEPT !.status = "accepted"] \in Suggestion
    BY <1>1 DEF Suggestion, Status
  <2>5. /\ [t.sug EXCEPT !.status = "accepted"].status = "accepted"
        /\ [t.sug EXCEPT !.status = "accepted"].kind = t.sug.kind
        /\ [t.sug EXCEPT !.status = "accepted"].target = t.sug.target
        /\ [t.sug EXCEPT !.status = "accepted"].arg = t.sug.arg
    BY <1>1 DEF Suggestion
  <2>6. sug' = (Closed(Edges(t), "rejected") \ {t.sug})
               \cup {[t.sug EXCEPT !.status = "accepted"]}
    BY <1>9 DEF AcceptSupersede
  <2>7. /\ Closed(Edges(t), "rejected") \subseteq Suggestion
        /\ \A s \in sug \ Edges(t) : s \in Closed(Edges(t), "rejected")
        /\ \A s \in Closed(Edges(t), "rejected") :
              \/ s \in sug \ Edges(t)
              \/ /\ s.status = "rejected"
                 /\ \E r \in Edges(t) : s.kind = r.kind /\ s.target = r.target /\ s.arg = r.arg
    BY <2>2, ClosedShape DEF TypeOK, Status
  <2>8. SugPart
    <3> HIDE DEF Suggestion
    <3> QED BY <1>1, <1>2, <2>2, <2>3, <2>4, <2>5, <2>6, <2>7
  <2> QED BY <1>3, <2>1, <2>8
<1>10. CASE Refused(t)
  <2>1. RowPart /\ SugPart
    BY <1>2, <1>10 DEF Refused, TypeOK
  <2> QED BY <1>3, <2>1
<1> QED BY <1>6, <1>7, <1>8, <1>9, <1>10 DEF Resolution

(* Where the suggestions of the next state come from. *)
LEMMA Origins ==
    ASSUME MaxRow \in Nat, MaxGen \in Nat, TypeOK, Content \/ Edit \/ Detect \/ Reconcile
    PROVE  /\ sug' \subseteq Suggestion
           /\ \A s \in sug' :
                 \/ s \in sug
                 \/ /\ s.status = "rejected"
                    /\ \E r \in sug : s.kind = r.kind /\ s.target = r.target /\ s.arg = r.arg
                 \/ /\ Pending(s) /\ s.kind # "supersede" /\ s.arg = 1
                    /\ \/ s.target = nextRow /\ nextRow' = nextRow + 1
                       \/ Exists(s.target) /\ UNCHANGED nextRow
                 \/ /\ Pending(s) /\ s.kind = "supersede" /\ UNCHANGED <<row, nextRow, active>>
                    /\ s.target # s.arg /\ Active(s.target) /\ Active(s.arg)
                    /\ row[s.target].cat = "decision" /\ row[s.arg].cat = "decision"
<1> DEFINE Same(s) == \E r \in sug : s.kind = r.kind /\ s.target = r.target /\ s.arg = r.arg
           Closing == \/ sug' \subseteq sug
                      \/ \E S \in SUBSET sug : sug' = Closed(S, "rejected")
           Origin(s) ==
              \/ s \in sug
              \/ s.status = "rejected" /\ Same(s)
              \/ /\ Pending(s) /\ s.kind # "supersede" /\ s.arg = 1
                 /\ \/ s.target = nextRow /\ nextRow' = nextRow + 1
                    \/ Exists(s.target) /\ UNCHANGED nextRow
              \/ /\ Pending(s) /\ s.kind = "supersede" /\ UNCHANGED <<row, nextRow, active>>
                 /\ s.target # s.arg /\ Active(s.target) /\ Active(s.arg)
                 /\ row[s.target].cat = "decision" /\ row[s.arg].cat = "decision"
<1> SUFFICES sug' \subseteq Suggestion /\ \A s \in sug' : Origin(s)
  OBVIOUS
<1>1. ASSUME Closing
      PROVE  /\ sug' \subseteq Suggestion
             /\ \A s \in sug' : Origin(s)
  BY <1>1, ClosedShape DEF TypeOK, Status
<1>2. ASSUME NEW kind \in Kinds, NEW m \in Row, NEW x \in Row, Suggest(kind, m, x)
      PROVE  /\ sug' \subseteq Suggestion
             /\ \A s \in sug' : \/ s \in sug
                                \/ Pending(s) /\ s.kind = kind /\ s.target = m /\ s.arg = x
  BY <1>2 DEF Suggest, Suggestion, TypeOK, Status, Pending
<1>3. ASSUME NEW c \in Category, NEW h \in BOOLEAN,
             IngestDocument(c, h) \/ CreateMemory(c) \/ StageRow(c)
      PROVE  sug' \subseteq Suggestion /\ \A s \in sug' : Origin(s)
  <2>1. nextRow \in Row /\ 1 \in Row /\ nextRow' = nextRow + 1
    BY <1>3, Insertions DEF TypeOK, Row, Insert
  <2>2. sug' = sug \/ Suggest("set_due_date", nextRow, 1)
    BY <1>3, Insertions
  <2>3. CASE sug' = sug
    BY <2>3 DEF TypeOK
  <2>4. CASE Suggest("set_due_date", nextRow, 1)
    BY <1>2, <2>1, <2>4 DEF Suggest
  <2> QED BY <2>2, <2>3, <2>4
<1>4. CASE Publish
  <2>1. Closing
    BY <1>4 DEF Publish, Outdated
  <2> QED BY <1>1, <2>1
<1>5. CASE SweepOld
  <2>1. Closing
    BY <1>5 DEF SweepOld, Drop
  <2> QED BY <1>1, <2>1
<1>6. CASE \E m \in Row : DeleteMemory(m)
  <2>1. Closing
    BY <1>6 DEF DeleteMemory, Drop
  <2> QED BY <1>1, <2>1
<1>7. CASE Edit
  <2>1. Closing
    <3>1. PICK m \in Row, c \in Category \cup {"none"}, text \in BOOLEAN, due \in SUBSET Due,
               done \in SUBSET BOOLEAN : UpdateMemory(m, c, text, due, done)
      BY <1>7, Edits
    <3> QED BY <3>1 DEF UpdateMemory
  <2> QED BY <1>1, <2>1
<1>8. CASE Detect
  <2>1. PICK j \in job : DetectFetch(j) \/ DetectInsert(j)
    BY <1>8 DEF Detect
  <2>2. UNCHANGED <<row, nextRow, active>>
    BY <2>1 DEF DetectFetch, DetectInsert
  <2>3. CASE sug' = sug
    BY <2>3 DEF TypeOK
  <2>4. ASSUME NEW matches \in SUBSET Matches(j), SuggestAll(matches)
        PROVE  sug' \subseteq Suggestion /\ \A s \in sug' : Origin(s)
    <3> SUFFICES ASSUME NEW s \in sug', s \notin sug PROVE s \in Suggestion /\ Origin(s)
      BY DEF TypeOK
    <3>1. PICK p \in Matches(j) : s = [kind |-> "supersede", target |-> p[1], arg |-> p[2],
                                      status |-> "pending"]
      BY <2>4 DEF SuggestAll
    <3>2. /\ p[1] \in Row /\ p[2] \in Row /\ Insertable(j, p[1], p[2])
          /\ matches # {} /\ "supersede" \in Kinds
      BY <2>4, <3>1 DEF Matches, SuggestAll
    <3> QED BY <2>2, <3>1, <3>2 DEF Insertable, Suggestion, Status, Pending
  <2> QED BY <2>1, <2>3, <2>4 DEF DetectFetch, DetectInsert
<1>9. ASSUME NEW m \in Row, SuggestCompletion(m)
      PROVE  sug' \subseteq Suggestion /\ \A s \in sug' : Origin(s)
  <2>1. 1 \in Row
    BY DEF Row
  <2> QED BY <1>2, <1>9, <2>1 DEF SuggestCompletion, Suggest, Active, Published
<1> HIDE DEF Origin
<1>10. CASE Content
  BY <1>3, <1>4, <1>5, <1>6, <1>10 DEF Content
<1>11. CASE Reconcile
  BY <1>9, <1>11 DEF Reconcile
<1> QED BY <1>7, <1>8, <1>10, <1>11
(* What happens to the rows outside the resolutions: they appear, disappear, lose an edge, *)
(* and change category only when no pending supersede suggestion mentions them.            *)
LEMMA RowsKept ==
    ASSUME MaxRow \in Nat, MaxGen \in Nat, TypeOK, IdsBelow,
           Content \/ Edit \/ Detect \/ Reconcile
    PROVE  /\ row' \in [Row -> Memory]
           /\ nextRow' \in 1..MaxRow + 1 /\ nextRow <= nextRow'
           /\ active' \in 0..MaxGen /\ active <= active'
           /\ \A m \in Row : m >= nextRow' => row'[m] = Absent
           /\ \A m \in Row : m < nextRow =>
                 \/ row'[m] = Absent
                 \/ row'[m].gen = row[m].gen /\ row'[m].by \in {NULL, row[m].by}
           /\ \A m \in Row : nextRow <= m => row'[m].by = NULL /\ row'[m].done = FALSE
           /\ \A s \in sug : s \in sug' /\ s.kind = "supersede" /\ Pending(s) =>
                 /\ row'[s.target].cat = row[s.target].cat
                 /\ row'[s.arg].cat \in {row[s.arg].cat, "none"}
<1> DEFINE Goal == /\ row' \in [Row -> Memory]
                   /\ nextRow' \in 1..MaxRow + 1 /\ nextRow <= nextRow'
                   /\ active' \in 0..MaxGen /\ active <= active'
                   /\ \A m \in Row : m >= nextRow' => row'[m] = Absent
                   /\ \A m \in Row : m < nextRow =>
                         \/ row'[m] = Absent
                         \/ row'[m].gen = row[m].gen /\ row'[m].by \in {NULL, row[m].by}
                   /\ \A m \in Row : nextRow <= m => row'[m].by = NULL /\ row'[m].done = FALSE
           Cats == \A s \in sug : s \in sug' /\ s.kind = "supersede" /\ Pending(s) =>
                      /\ row'[s.target].cat = row[s.target].cat
                      /\ row'[s.arg].cat \in {row[s.arg].cat, "none"}
<1> SUFFICES Goal /\ Cats
  OBVIOUS
<1>0. /\ nextRow \in 1..MaxRow + 1 /\ active \in 0..MaxGen
      /\ \A m \in Row : m \in Nat /\ row[m] \in Memory
      /\ \A m \in Row : m >= nextRow => row[m] = Absent
      /\ Absent.by = NULL /\ Absent.done = FALSE /\ Absent.cat = "none" /\ Absent.gen = 0
      /\ \A s \in sug : s.target \in Row /\ s.arg \in Row /\ s.target < nextRow
                        /\ (s.kind = "supersede" => s.arg < nextRow)
  BY DEF TypeOK, IdsBelow, Absent, Suggestion, Row
<1>1. ASSUME NEW c \in Category, NEW h \in BOOLEAN,
             IngestDocument(c, h) \/ CreateMemory(c) \/ StageRow(c)
      PROVE  Goal /\ Cats
  <2>1. PICK g \in Gen : Insert(NewRow(c, g))
    BY <1>1, Insertions
  <2>2. nextRow <= MaxRow /\ active' = active
    BY <1>1, Insertions
  <2>3. /\ row' \in [Row -> Memory] /\ nextRow' \in 1..MaxRow + 1 /\ nextRow' = nextRow + 1
        /\ row'[nextRow] = NewRow(c, g)
        /\ \A m \in Row : m # nextRow => row'[m] = row[m]
    BY <2>1, <2>2, InsertStep
  <2>4. NewRow(c, g).by = NULL /\ NewRow(c, g).done = FALSE
    BY DEF NewRow
  <2>5. Cats
    BY <1>0, <2>3
  <2> QED BY <1>0, <2>2, <2>3, <2>4, <2>5
<1>2. CASE Publish
  <2>1. \A m \in Row : /\ row'[m].cat = row[m].cat /\ row'[m].gen = row[m].gen
                       /\ row'[m].done = row[m].done /\ row'[m].by \in {NULL, row[m].by}
                       /\ (row[m].by = NULL => row'[m] = row[m])
    BY <1>0, <1>2 DEF Publish, Detached, Memory
  <2>2. row' \in [Row -> Memory]
    <3>1. \A m \in Row : [row[m] EXCEPT !.by = NULL] \in Memory
      BY <1>0 DEF Memory
    <3> HIDE DEF Memory
    <3> QED BY <1>0, <1>2, <3>1 DEF Publish, Detached
  <2>3. nextRow' = nextRow /\ active' = active + 1 /\ active < MaxGen
    BY <1>2 DEF Publish
  <2>4. Cats
    BY <1>0, <2>1
  <2> QED BY <1>0, <2>1, <2>2, <2>3, <2>4
<1>3. ASSUME NEW S \in SUBSET Row, Drop(S), UNCHANGED <<nextRow, active>>
      PROVE  Goal /\ Cats
  <2>1. /\ row' \in [Row -> Memory]
        /\ \A m \in S : row'[m] = Absent
        /\ \A m \in Row \ S : row[m].by \in S => row'[m] = [row[m] EXCEPT !.by = NULL]
        /\ \A m \in Row \ S : row[m].by \notin S => row'[m] = row[m]
        /\ sug' = {s \in sug : s.target \notin S}
    BY <1>3, DropStep
  <2>2. \A m \in Row : /\ [row[m] EXCEPT !.by = NULL].gen = row[m].gen
                       /\ [row[m] EXCEPT !.by = NULL].cat = row[m].cat
                       /\ [row[m] EXCEPT !.by = NULL].by = NULL
    BY <1>0 DEF Memory
  <2>3. NULL \notin S
    BY DEF NULL, Row
  <2>4. \A m \in Row : \/ row'[m] = Absent
                       \/ row'[m].gen = row[m].gen /\ row'[m].by \in {NULL, row[m].by}
    BY <2>1, <2>2
  <2>5. \A m \in Row : nextRow <= m => row'[m] = Absent
    BY <1>0, <2>1, <2>3
  <2>6. \A m \in Row : row'[m].cat \in {row[m].cat, "none"} /\ (m \notin S => row'[m].cat = row[m].cat)
    BY <1>0, <2>1, <2>2
  <2>7. Cats
    BY <1>0, <2>1, <2>6
  <2> QED BY <1>0, <1>3, <2>1, <2>4, <2>5, <2>7
<1>4. CASE SweepOld
  BY <1>3, <1>4 DEF SweepOld
<1>5. ASSUME NEW m \in Row, DeleteMemory(m) PROVE Goal /\ Cats
  BY <1>3, <1>5 DEF DeleteMemory
<1>6. CASE Edit
  <2>1. PICK m \in Row, c \in Category \cup {"none"}, text \in BOOLEAN, due \in SUBSET Due,
             done \in SUBSET BOOLEAN : UpdateMemory(m, c, text, due, done)
    BY <1>6, Edits
  <2>2. /\ row' \in [Row -> Memory]
        /\ \A p \in Row : p # m => row'[p] = row[p]
        /\ \A p \in Row : row'[p].by = row[p].by /\ row'[p].gen = row[p].gen
        /\ row'[m].cat = IF c = "none" THEN row[m].cat ELSE c
    BY <2>1, UpdateStep
  <2>3. m < nextRow
    <3>1. Published(m)
      BY <2>1 DEF UpdateMemory
    <3> QED BY <1>0, <3>1 DEF Published, Exists
  <2>4. UNCHANGED <<nextRow, active>>
    BY <2>1 DEF UpdateMemory
  <2>5. c # "none" => \A s \in sug : Mentions(s, m) => s \notin sug'
    <3> SUFFICES ASSUME c # "none", NEW s \in sug, Mentions(s, m) PROVE s \notin sug'
      OBVIOUS
    <3>1. PICK S \in SUBSET sug : s \in S /\ sug' = Closed(S, "rejected")
      BY <2>1 DEF UpdateMemory
    <3>2. \A r \in Closed(S, "rejected") : r \in sug \ S \/ r.status = "rejected"
      BY ClosedShape DEF TypeOK, Status
    <3> QED BY <3>1, <3>2 DEF Mentions, Pending
  <2>6. Cats
    BY <1>0, <2>2, <2>5 DEF Mentions
  <2> QED BY <1>0, <2>2, <2>3, <2>4, <2>6
<1>7. CASE Detect \/ Reconcile
  <2>1. UNCHANGED <<row, nextRow, active>>
    BY <1>7 DEF Detect, DetectFetch, DetectInsert, Reconcile, SuggestCompletion
  <2> QED BY <1>0, <2>1 DEF TypeOK
<1> HIDE DEF Goal, Cats
<1>8. CASE Content
  BY <1>1, <1>2, <1>4, <1>5, <1>8 DEF Content
<1> QED BY <1>6, <1>7, <1>8
-----------------------------------------------------------------------------
SugInv == /\ TypeOK /\ LocksHeld /\ IdsBelow /\ DatesKnown /\ EndsKnown
          /\ EdgesStand /\ CompletionOnActions

LEMMA SugInit == ASSUME MaxRow \in Nat, MaxGen \in Nat, Init PROVE SugInv
<1>1. TypeOK
  BY DEF Init, TypeOK, Memory, Absent, NULL, Due, Gen
<1>2. \A m \in Row : row[m].by = NULL /\ row[m].done = FALSE
  BY DEF Init, Absent
<1> QED BY <1>1, <1>2 DEF Init, SugInv, LocksHeld, IdsBelow, DatesKnown, EndsKnown, EdgesStand,
            CompletionOnActions

LEMMA JobStep == ASSUME MaxRow \in Nat, TypeOK, Next PROVE job' \subseteq Job
<1>1. ASSUME NEW S \in SUBSET Row PROVE [news |-> S, cands |-> {}, at |-> "fetch"] \in Job
  BY DEF Job
<1>2. ASSUME NEW c \in Category, NEW h \in BOOLEAN, IngestDocument(c, h) PROVE job' \subseteq Job
  <2>1. {nextRow} \in SUBSET Row
    BY <1>2 DEF IngestDocument, TypeOK, Row
  <2>2. job' = job \/ job' = job \cup {[news |-> {nextRow}, cands |-> {}, at |-> "fetch"]}
    BY <1>2, Zenon DEF IngestDocument
  <2> QED BY <1>1, <2>1, <2>2 DEF TypeOK
<1>3. CASE Publish
  <2> DEFINE news == {m \in Row : row[m].cat = "decision" /\ row[m].gen = active + 1}
  <2>1. job' = job \/ job' = job \cup {[news |-> news, cands |-> {}, at |-> "fetch"]}
    BY <1>3, Zenon DEF Publish
  <2> HIDE DEF Job
  <2> QED BY <1>1, <2>1 DEF TypeOK
<1>4. ASSUME NEW j \in job, DetectFetch(j) PROVE job' \subseteq Job
  <2>1. j \in Job
    BY DEF TypeOK
  <2>2. ASSUME NEW S \in SUBSET Row PROVE [j EXCEPT !.cands = S, !.at = "judge"] \in Job
    BY <2>1 DEF Job
  <2>3. {m \in Row \ j.news : LiveDecision(m)} \in SUBSET Row
    OBVIOUS
  <2>4. job' = (job \ {j}) \cup
               (IF {m \in Row \ j.news : LiveDecision(m)} = {} THEN {}
                ELSE {[j EXCEPT !.cands = {m \in Row \ j.news : LiveDecision(m)},
                                !.at = "judge"]})
    BY <1>4 DEF DetectFetch
  <2> QED BY <2>2, <2>3, <2>4, Zenon DEF TypeOK
<1>5. ASSUME NEW j \in job, DetectInsert(j) PROVE job' \subseteq Job
  BY <1>5 DEF DetectInsert, TypeOK
<1>6. CASE Edit
  <2>1. PICK m \in Row, c \in Category \cup {"none"}, text \in BOOLEAN, due \in SUBSET Due,
             done \in SUBSET BOOLEAN : UpdateMemory(m, c, text, due, done)
    BY <1>6, Edits
  <2> QED BY <2>1 DEF UpdateMemory, TypeOK
<1>7. (\E c \in Category : CreateMemory(c) \/ StageRow(c)) \/ SweepOld
         \/ (\E m \in Row : DeleteMemory(m)) \/ Reconcile \/ Resolve => UNCHANGED job
  BY Zenon DEF CreateMemory, StageRow, SweepOld, DeleteMemory, Reconcile, SuggestCompletion,
     Resolve,
     Open, Reject, AcceptDueDate, AcceptCompletion, AcceptSupersede, Refused, End
<1>8. UNCHANGED job => job' \subseteq Job
  BY DEF TypeOK
<1> HIDE DEF Job
<1> QED BY <1>2, <1>3, <1>4, <1>5, <1>6, <1>7, <1>8, Zenon DEF Next, Content, Detect

(* A resolution under way: opened, finished, or left alone. *)
LEMMA Resolving ==
    ASSUME Resolve
    PROVE  \/ \E s \in sug, v \in {"accepted", "rejected"} : Open(s, v)
           \/ \E t \in tx : Resolution(t)
BY DEF Resolve, Resolution

LEMMA TypeStep ==
    ASSUME MaxRow \in Nat, MaxGen \in Nat, SugInv, Next
    PROVE  TypeOK' /\ LocksHeld' /\ IdsBelow' /\ DatesKnown'
<1> USE DEF SugInv
<1>0. job' \subseteq Job
  BY JobStep
<1>1. CASE Content \/ Edit \/ Detect \/ Reconcile
  <2>1. /\ row' \in [Row -> Memory] /\ nextRow' \in 1..MaxRow + 1 /\ active' \in 0..MaxGen
        /\ nextRow <= nextRow' /\ \A m \in Row : m >= nextRow' => row'[m] = Absent
    BY <1>1, RowsKept
  <2>2. /\ tx' = tx
        /\ \A t \in tx : t.sug \in sug' /\ row'[t.sug.target].cat = row[t.sug.target].cat
    BY <1>1, OthersRespectLocks
  <2>3. TypeOK'
    <3>1. sug' \subseteq Suggestion
      BY <1>1, Origins
    <3>2. \A t \in tx' : t.sug \in sug' /\ Pending(t.sug)' /\ Exists(t.sug.target)'
      BY <2>2 DEF TypeOK, Pending, Exists
    <3> QED BY <1>0, <2>1, <2>2, <3>1, <3>2 DEF TypeOK
  <2>4. LocksHeld'
    BY <2>2 DEF LocksHeld, TargetCategory
  <2>5. IdsBelow'
    <3> SUFFICES ASSUME NEW s \in sug'
                 PROVE  s.target < nextRow' /\ (s.kind = "supersede" => s.arg < nextRow')
      BY <2>1 DEF IdsBelow
    <3>1. \A m \in Row : Exists(m) => m < nextRow
      BY DEF IdsBelow, Exists, Absent, TypeOK, Row
    <3>2. s \in Suggestion
      BY <1>1, Origins
    <3>3. s.target \in Row /\ s.arg \in Row
      BY <3>2 DEF Suggestion
    <3>4. \/ \E r \in sug : s.kind = r.kind /\ s.target = r.target /\ s.arg = r.arg
          \/ s.kind # "supersede" /\ ((s.target = nextRow /\ nextRow' = nextRow + 1) \/ Exists(s.target))
          \/ Exists(s.target) /\ Exists(s.arg)
      BY <1>1, Origins DEF Active, Published
    <3> QED BY <2>1, <3>1, <3>3, <3>4 DEF IdsBelow, TypeOK, Row
  <2>6. DatesKnown'
    <3> SUFFICES ASSUME NEW s \in sug', s.kind = "set_due_date" PROVE s.arg \in Due
      BY DEF DatesKnown, Due, NULL
    <3>1. (\E r \in sug : s.kind = r.kind /\ s.arg = r.arg) \/ s.arg = 1
      BY <1>1, Origins
    <3> QED BY <3>1 DEF DatesKnown, Due
  <2> QED BY <2>3, <2>4, <2>5, <2>6
<1>2. ASSUME NEW s \in sug, NEW v \in {"accepted", "rejected"}, Open(s, v)
      PROVE  TypeOK' /\ LocksHeld' /\ IdsBelow' /\ DatesKnown'
  <2>1. [sug |-> s, verdict |-> v] \in Tx
    BY DEF Tx, TypeOK
  <2>2. TypeOK'
    BY <1>0, <1>2, <2>1 DEF TypeOK, Open, Active, Published, Exists, Pending
  <2>3. LocksHeld'
    BY <1>2 DEF LocksHeld, Open, Locked, TargetCategory
  <2> QED BY <1>2, <2>2, <2>3 DEF Open, IdsBelow, DatesKnown
<1>3. ASSUME NEW t \in tx, Resolution(t)
      PROVE  TypeOK' /\ LocksHeld' /\ IdsBelow' /\ DatesKnown'
  <2>1. /\ tx' = tx \ {t} /\ UNCHANGED <<nextRow, active, job>>
        /\ row' \in [Row -> Memory]
        /\ \A p \in Row : p # t.sug.target => row'[p] = row[p]
        /\ \A p \in Row : row'[p].cat = row[p].cat /\ row'[p].gen = row[p].gen
        /\ sug' \subseteq Suggestion
        /\ \A u \in tx \ {t} : u.sug \in sug'
        /\ \A s \in sug' : \E r \in sug : s.kind = r.kind /\ s.target = r.target /\ s.arg = r.arg
    BY <1>3, Resolutions
  <2>2. t.sug.target < nextRow /\ \A u \in tx : u.sug.target \in Row
    BY DEF TypeOK, IdsBelow, Suggestion
  <2>3. TypeOK'
    BY <1>0, <2>1, <2>2 DEF TypeOK, Pending, Exists
  <2>4. LocksHeld'
    BY <2>1, <2>2 DEF LocksHeld, TargetCategory
  <2>5. IdsBelow'
    <3>1. nextRow \in Int /\ t.sug.target \in Int /\ \A m \in Row : m \in Int
      BY <2>2 DEF TypeOK, Row
    <3> QED BY <2>1, <2>2, <3>1 DEF IdsBelow
  <2>6. DatesKnown'
    BY <2>1 DEF DatesKnown, Due, NULL
  <2> QED BY <2>3, <2>4, <2>5, <2>6
<1> QED BY <1>1, <1>2, <1>3, Resolving DEF Next

(* Supersede suggestions keep two known ends. *)
LEMMA EndsStep ==
    ASSUME MaxRow \in Nat, MaxGen \in Nat, SugInv, Next
    PROVE  EndsKnown'
<1> USE DEF SugInv
<1>0. /\ active \in 0..MaxGen /\ Absent.gen = 0
      /\ \A m \in Row : m \in Nat /\ row[m].gen \in Nat
      /\ \A s \in sug : s.target \in Row /\ s.arg \in Row /\ s.target < nextRow
                        /\ (s.kind = "supersede" => s.arg < nextRow)
  BY DEF TypeOK, IdsBelow, Suggestion, Row, Memory, Gen, Absent
<1>1. CASE Content \/ Edit \/ Detect \/ Reconcile
  <2> SUFFICES ASSUME NEW s \in sug', s.kind = "supersede"
               PROVE  /\ s.target # s.arg
                      /\ row'[s.target].gen <= active' /\ row'[s.arg].gen <= active'
                      /\ Pending(s) => /\ row'[s.target].cat = "decision"
                                       /\ row'[s.arg].cat \in {"decision", "none"}
    BY DEF EndsKnown, Pending
  <2>1. /\ active' \in 0..MaxGen /\ active <= active'
        /\ \A m \in Row : m < nextRow => row'[m] = Absent \/ row'[m].gen = row[m].gen
    BY <1>1, RowsKept
  <2>2. CASE \E r \in sug : s.kind = r.kind /\ s.target = r.target /\ s.arg = r.arg
    <3>1. PICK r \in sug : s.kind = r.kind /\ s.target = r.target /\ s.arg = r.arg
      BY <2>2
    <3>2. /\ s.target # s.arg
          /\ row'[s.target].gen <= active' /\ row'[s.arg].gen <= active'
      BY <1>0, <2>1, <3>1 DEF EndsKnown
    <3>3. ASSUME Pending(s), s \in sug
          PROVE  row'[s.target].cat = "decision" /\ row'[s.arg].cat \in {"decision", "none"}
      <4>1. /\ row'[s.target].cat = row[s.target].cat
            /\ row'[s.arg].cat \in {row[s.arg].cat, "none"}
        BY <1>1, <3>3, RowsKept
      <4> QED BY <3>3, <4>1 DEF EndsKnown
    <3>4. ASSUME Pending(s), s \notin sug
          PROVE  row'[s.target].cat = "decision" /\ row'[s.arg].cat \in {"decision", "none"}
      BY <1>1, <3>4, Origins DEF Pending
    <3> QED BY <3>2, <3>3, <3>4
  <2>3. CASE /\ UNCHANGED <<row, nextRow, active>>
             /\ s.target # s.arg /\ Active(s.target) /\ Active(s.arg)
             /\ row[s.target].cat = "decision" /\ row[s.arg].cat = "decision"
    BY <1>0, <2>3 DEF Active, Published
  <2> QED BY <1>1, <2>2, <2>3, Origins
<1>2. ASSUME NEW s \in sug, NEW v \in {"accepted", "rejected"}, Open(s, v)
      PROVE  EndsKnown'
  BY <1>2 DEF Open, EndsKnown, Pending
<1>3. ASSUME NEW t \in tx, Resolution(t)
      PROVE  EndsKnown'
  <2>1. /\ active' = active
        /\ \A p \in Row : row'[p].cat = row[p].cat /\ row'[p].gen = row[p].gen
        /\ \A s \in sug' :
              \/ s \in sug
              \/ /\ s.status \in {"accepted", "rejected"}
                 /\ \E r \in sug : s.kind = r.kind /\ s.target = r.target /\ s.arg = r.arg
    BY <1>3, Resolutions
  <2> QED BY <1>0, <2>1 DEF EndsKnown, Pending
<1> QED BY <1>1, <1>2, <1>3, Resolving DEF Next

(* Completions are of actions only: a PATCH clears them when it changes the category, and *)
(* an acceptance holds the row it completes.                                              *)
LEMMA CompletionStep ==
    ASSUME MaxRow \in Nat, MaxGen \in Nat, SugInv, Next
    PROVE  CompletionOnActions'
<1> USE DEF SugInv
<1>0. \A m \in Row : row[m] \in Memory
  BY DEF TypeOK
<1>1. ASSUME NEW c \in Category, NEW h \in BOOLEAN,
             IngestDocument(c, h) \/ CreateMemory(c) \/ StageRow(c)
      PROVE  CompletionOnActions'
  <2>1. PICK g \in Gen : Insert(NewRow(c, g))
    BY <1>1, Insertions
  <2>2. nextRow <= MaxRow
    BY <1>1, Insertions
  <2>3. row'[nextRow] = NewRow(c, g) /\ \A m \in Row : m # nextRow => row'[m] = row[m]
    BY <2>1, <2>2, InsertStep
  <2> QED BY <2>3 DEF CompletionOnActions, NewRow
<1>2. CASE Publish
  <2>1. \A m \in Row : row'[m].cat = row[m].cat /\ row'[m].done = row[m].done
    BY <1>0, <1>2 DEF Publish, Detached, Memory
  <2> QED BY <2>1 DEF CompletionOnActions
<1>3. ASSUME NEW S \in SUBSET Row, Drop(S) PROVE CompletionOnActions'
  <2>1. /\ \A m \in S : row'[m] = Absent
        /\ \A m \in Row \ S : row[m].by \in S => row'[m] = [row[m] EXCEPT !.by = NULL]
        /\ \A m \in Row \ S : row[m].by \notin S => row'[m] = row[m]
    BY <1>3, DropStep
  <2>2. \A m \in Row : /\ [row[m] EXCEPT !.by = NULL].done = row[m].done
                       /\ [row[m] EXCEPT !.by = NULL].cat = row[m].cat
    BY <1>0 DEF Memory
  <2>3. \A m \in Row : row'[m] = Absent \/ (row'[m].done = row[m].done /\ row'[m].cat = row[m].cat)
    BY <2>1, <2>2
  <2> QED BY <2>3 DEF CompletionOnActions, Absent
<1>4. CASE Edit
  <2>1. PICK m \in Row, c \in Category \cup {"none"}, text \in BOOLEAN, due \in SUBSET Due,
             done \in SUBSET BOOLEAN : UpdateMemory(m, c, text, due, done)
    BY <1>4, Edits
  <2>2. /\ \A p \in Row : p # m => row'[p] = row[p]
        /\ row'[m].cat = IF c = "none" THEN row[m].cat ELSE c
        /\ row'[m].done = Completion(m, c, done)
    BY <2>1, UpdateStep
  <2>3. done # {} => IF c = "none" THEN Active(m) /\ row[m].cat = "action" ELSE c = "action"
    BY <2>1 DEF UpdateMemory
  <2> QED BY <2>2, <2>3 DEF CompletionOnActions, Completion
<1>5. CASE Detect \/ Reconcile
  BY <1>5 DEF Detect, DetectFetch, DetectInsert, Reconcile, SuggestCompletion,
     CompletionOnActions
<1>6. ASSUME NEW t \in tx, Resolution(t) PROVE CompletionOnActions'
  <2>1. /\ \A p \in Row : p # t.sug.target => row'[p] = row[p]
        /\ \A p \in Row : row'[p].cat = row[p].cat
        /\ \A p \in Row : row'[p].done = row[p].done \/ AcceptCompletion(t)
    BY <1>6, Resolutions
  <2>2. AcceptCompletion(t) => row[t.sug.target].cat = "action"
    BY DEF AcceptCompletion, LocksHeld, TargetCategory
  <2> QED BY <2>1, <2>2 DEF CompletionOnActions
<1>7. (\E s \in sug, v \in {"accepted", "rejected"} : Open(s, v)) => CompletionOnActions'
  BY DEF Open, CompletionOnActions
<1>8. CASE Content
  BY <1>1, <1>2, <1>3, <1>8 DEF Content, SweepOld, DeleteMemory
<1> QED BY <1>4, <1>5, <1>6, <1>7, <1>8, Resolving DEF Next

(* Edges lead to published rows, and those of accepted suggestions stay. *)
LEMMA EdgesStep ==
    ASSUME MaxRow \in Nat, MaxGen \in Nat, SugInv, Next
    PROVE  EdgesStand'
<1> USE DEF SugInv
<1>0. /\ active \in 0..MaxGen /\ nextRow \in 1..MaxRow + 1 /\ NULL \notin Row
      /\ \A m \in Row : m \in Nat /\ row[m] \in Memory
      /\ \A m \in Row : row[m].by \in Row \cup {NULL} /\ row[m].gen \in Nat
      /\ \A m \in Row : Exists(m) => m < nextRow
      /\ \A s \in sug : s.target \in Row /\ s.arg \in Row /\ s.target < nextRow
                        /\ (s.kind = "supersede" => s.arg < nextRow)
  BY DEF TypeOK, IdsBelow, Suggestion, Row, Memory, Gen, Absent, Exists, NULL
<1> DEFINE Known == \A m, p \in Row : row'[m].by = p => Published(p)'
           Stand == \A s \in sug' : s.kind = "supersede" /\ s.status = "accepted"
                        /\ Published(s.target)' /\ Published(s.arg)' => row'[s.target].by = s.arg
<1>a. ASSUME Known, Stand PROVE EdgesStand'
  <2>1. \A m \in Row : row'[m].by \in Row \cup {NULL}
    BY TypeStep DEF TypeOK, Memory
  <2> QED BY <1>a, <2>1 DEF EdgesStand, Published, Exists
<1> DEFINE Kept == \A s \in sug' : s.kind = "supersede" /\ s.status = "accepted" => s \in sug
<1>1. ASSUME Content \/ Edit \/ Detect \/ Reconcile PROVE Kept
  BY <1>1, Origins DEF Pending
<1>2. ASSUME NEW c \in Category, NEW h \in BOOLEAN,
             IngestDocument(c, h) \/ CreateMemory(c) \/ StageRow(c), Kept
      PROVE  EdgesStand'
  <2>1. PICK g \in Gen : Insert(NewRow(c, g))
    BY <1>2, Insertions
  <2>2. nextRow <= MaxRow /\ active' = active
    BY <1>2, Insertions
  <2>3. row'[nextRow] = NewRow(c, g) /\ \A m \in Row : m # nextRow => row'[m] = row[m]
    BY <2>1, <2>2, InsertStep
  <2>4. Known
    BY <1>0, <2>2, <2>3 DEF EdgesStand, NewRow, Published, Exists
  <2>5. Stand
    BY <1>0, <1>2, <2>2, <2>3 DEF EdgesStand, Published, Exists
  <2> QED BY <1>a, <2>4, <2>5
<1>3. CASE Publish
  <2>1. active' = active + 1 /\ row' = Detached
    BY <1>3 DEF Publish
  <2>2. \A m \in Row : /\ row'[m].cat = row[m].cat /\ row'[m].gen = row[m].gen
                       /\ row'[m].by = IF row[m].by # NULL /\ Retired(row[m].by)
                                       THEN NULL ELSE row[m].by
    BY <1>0, <2>1 DEF Detached, Memory
  <2>3. \A m \in Row : Exists(m) /\ ~Retired(m) <=> Published(m)'
    BY <2>1, <2>2 DEF Retired, Published, Exists
  <2>4. Known
    BY <1>0, <2>2, <2>3 DEF EdgesStand, Published
  <2>5. \A m \in Row : row[m].gen <= active /\ Published(m)' => Published(m)
    BY <1>0, <2>1, <2>2 DEF Published, Exists
  <2>6. Kept
    BY <1>1, <1>3 DEF Content
  <2>7. Stand
    BY <1>0, <2>2, <2>3, <2>5, <2>6 DEF EdgesStand, EndsKnown
  <2> QED BY <1>a, <2>4, <2>7
<1>4. ASSUME NEW S \in SUBSET Row, Drop(S), active' = active, Kept PROVE EdgesStand'
  <2>1. /\ \A m \in S : row'[m] = Absent
        /\ \A m \in Row \ S : row[m].by \in S => row'[m] = [row[m] EXCEPT !.by = NULL]
        /\ \A m \in Row \ S : row[m].by \notin S => row'[m] = row[m]
    BY <1>4, DropStep
  <2>2. \A m \in Row : /\ [row[m] EXCEPT !.by = NULL].by = NULL
                       /\ [row[m] EXCEPT !.by = NULL].cat = row[m].cat
                       /\ [row[m] EXCEPT !.by = NULL].gen = row[m].gen
    BY <1>0 DEF Memory
  <2>3. \A m \in S : ~Published(m)' /\ row'[m].by = NULL
    BY <2>1 DEF Published, Exists, Absent
  <2>4. \A m \in Row \ S : /\ row'[m].cat = row[m].cat /\ row'[m].gen = row[m].gen
                           /\ row'[m].by = IF row[m].by \in S THEN NULL ELSE row[m].by
    BY <2>1, <2>2
  <2>5. \A m \in Row \ S : Published(m)' <=> Published(m)
    BY <1>4, <2>4 DEF Published, Exists
  <2>6. Known
    BY <1>0, <2>3, <2>4, <2>5 DEF EdgesStand
  <2>7. Stand
    BY <1>0, <1>4, <2>3, <2>4, <2>5 DEF EdgesStand
  <2> QED BY <1>a, <2>6, <2>7
<1>5. CASE Edit
  <2>1. PICK m \in Row, c \in Category \cup {"none"}, text \in BOOLEAN, due \in SUBSET Due,
             done \in SUBSET BOOLEAN : UpdateMemory(m, c, text, due, done)
    BY <1>5, Edits
  <2>2. /\ \A p \in Row : p # m => row'[p] = row[p]
        /\ \A p \in Row : row'[p].by = row[p].by /\ row'[p].gen = row[p].gen
        /\ row'[m].cat = IF c = "none" THEN row[m].cat ELSE c
    BY <2>1, UpdateStep
  <2>3. Published(m) /\ active' = active
    BY <2>1 DEF UpdateMemory
  <2>4. \A p \in Row : Published(p)' <=> Published(p)
    BY <2>2, <2>3 DEF Published, Exists
  <2>5. Known
    BY <1>0, <2>2, <2>4 DEF EdgesStand
  <2>6. Stand
    BY <1>0, <1>1, <1>5, <2>2, <2>4 DEF EdgesStand
  <2> QED BY <1>a, <2>5, <2>6
<1>6. CASE Detect \/ Reconcile
  <2>1. UNCHANGED <<row, nextRow, active>> /\ Kept
    BY <1>1, <1>6 DEF Detect, DetectFetch, DetectInsert, Reconcile, SuggestCompletion
  <2> QED BY <2>1 DEF EdgesStand, Published, Exists
<1>7. ASSUME NEW s \in sug, NEW v \in {"accepted", "rejected"}, Open(s, v)
      PROVE  EdgesStand'
  BY <1>7 DEF Open, EdgesStand, Published, Exists
<1>8. ASSUME NEW t \in tx, Resolution(t) PROVE EdgesStand'
  <2>1. /\ active' = active
        /\ \A p \in Row : p # t.sug.target => row'[p] = row[p]
        /\ \A p \in Row : row'[p].cat = row[p].cat /\ row'[p].gen = row[p].gen
        /\ \A p \in Row : row'[p].by = row[p].by \/ AcceptSupersede(t)
        /\ \A s \in sug' :
              \/ s \in sug
              \/ s.status = "rejected"
              \/ /\ s.status = "accepted" /\ s.kind = t.sug.kind
                 /\ s.target = t.sug.target /\ s.arg = t.sug.arg
    BY <1>8, Resolutions
  <2>2. \A p \in Row : Published(p)' <=> Published(p)
    BY <2>1 DEF Published, Exists
  <2>3. t.sug.target \in Row /\ t.sug.arg \in Row
    BY DEF TypeOK, Suggestion
  <2>4. CASE AcceptSupersede(t)
    <3>1. /\ row'[t.sug.target].by = t.sug.arg /\ row[t.sug.target].by = NULL
          /\ Published(t.sug.arg)
      BY <1>0, <2>3, <2>4 DEF AcceptSupersede, LiveDecision, Active, TypeOK, Memory
    <3>2. Known
      BY <1>0, <2>1, <2>2, <2>3, <3>1 DEF EdgesStand
    <3>3. Stand
      BY <1>0, <2>1, <2>2, <2>3, <3>1 DEF EdgesStand
    <3> QED BY <1>a, <3>2, <3>3
  <2>5. CASE ~AcceptSupersede(t)
    <3>1. \A s \in sug' : s.kind = "supersede" /\ s.status = "accepted" => s \in sug
      <4>1. CASE Reject(t)
        <5>1. {t.sug} \subseteq sug /\ sug' = Closed({t.sug}, "rejected")
          BY <4>1 DEF Reject, TypeOK
        <5> QED BY <5>1, ClosedShape DEF TypeOK, Status
      <4>2. CASE AcceptDueDate(t) \/ AcceptCompletion(t) \/ Refused(t)
        <5>1. t.sug.kind # "supersede" \/ sug' = sug
          BY <4>2 DEF AcceptDueDate, AcceptCompletion, Refused
        <5> QED BY <2>1, <5>1
      <4> QED BY <1>8, <2>5, <4>1, <4>2 DEF Resolution
    <3>2. Known
      BY <1>0, <2>1, <2>2, <2>5 DEF EdgesStand
    <3>3. Stand
      BY <1>0, <2>1, <2>2, <2>5, <3>1 DEF EdgesStand
    <3> QED BY <1>a, <3>2, <3>3
  <2> QED BY <2>4, <2>5
<1>9. CASE Content
  BY <1>1, <1>2, <1>3, <1>4, <1>9 DEF Content, SweepOld, DeleteMemory
<1> QED BY <1>5, <1>6, <1>7, <1>8, <1>9, Resolving DEF Next

-----------------------------------------------------------------------------
(* The edges go up a ranking of the rows, each on a rank of its own: no cycle. *)
Ranked(ord) == /\ ord \in [Row -> Row]
               /\ \A m, p \in Row : ord[m] = ord[p] => m = p
               /\ \A m \in Row : row[m].by # NULL => ord[m] < ord[row[m].by]
Acyclic == \E ord \in [Row -> Row] : Ranked(ord)

LEMMA AcyclicInit == ASSUME MaxRow \in Nat, Init PROVE Acyclic
<1> DEFINE ord == [m \in Row |-> m]
<1>1. Ranked(ord)
  BY DEF Init, Absent, Ranked, Row
<1> QED BY <1>1 DEF Acyclic

(* Removing edges keeps the ranking. *)
LEMMA FewerEdges ==
    ASSUME Acyclic, \A m \in Row : row'[m].by \in {NULL, row[m].by}
    PROVE  Acyclic'
<1>1. PICK ord \in [Row -> Row] : Ranked(ord)
  BY DEF Acyclic
<1>2. Ranked(ord)'
  BY <1>1 DEF Ranked, NULL, Row
<1> QED BY <1>2 DEF Acyclic, Row

(* An accepted suggestion points at a row that points nowhere, which moves to the top. *)
LEMMA NewEdge ==
    ASSUME MaxRow \in Nat, TypeOK, Acyclic, NEW t \in Row, NEW a \in Row, t # a,
           row[a].by = NULL, row'[t].by = a,
           \A m \in Row \ {t} : row'[m].by = row[m].by
    PROVE  Acyclic'
<1>1. PICK ord \in [Row -> Row] : Ranked(ord)
  BY DEF Acyclic
<1>0. /\ \A m \in Row : ord[m] \in 1..MaxRow
      /\ \A m \in Row : row[m].by \in Row \cup {NULL}
      /\ NULL \notin Row
  BY <1>1 DEF Row, TypeOK, Memory, NULL
<1> DEFINE up == [m \in Row |-> IF m = a THEN MaxRow
                                ELSE IF ord[m] > ord[a] THEN ord[m] - 1 ELSE ord[m]]
<1>2. \A m \in Row \ {a} : up[m] \in 1..MaxRow /\ up[m] < MaxRow
  <2> SUFFICES ASSUME NEW m \in Row \ {a} PROVE up[m] \in 1..MaxRow /\ up[m] < MaxRow
    OBVIOUS
  <2>1. ord[m] # ord[a] /\ ord[m] \in 1..MaxRow /\ ord[a] \in 1..MaxRow
    BY <1>0, <1>1 DEF Ranked
  <2> QED BY <2>1
<1>3. up \in [Row -> Row] /\ up[a] = MaxRow
  <2>1. MaxRow \in 1..MaxRow
    BY <1>0
  <2> QED BY <1>2, <2>1 DEF Row
<1>4. \A m, p \in Row \ {a} : up[m] = up[p] => ord[m] = ord[p]
  <2> SUFFICES ASSUME NEW m \in Row \ {a}, NEW p \in Row \ {a}, up[m] = up[p]
               PROVE  ord[m] = ord[p]
    OBVIOUS
  <2>1. /\ ord[m] # ord[a] /\ ord[m] \in 1..MaxRow /\ ord[a] \in 1..MaxRow
        /\ ord[p] # ord[a] /\ ord[p] \in 1..MaxRow
    BY <1>0, <1>1 DEF Ranked
  <2> QED BY <2>1
<1>5. \A m, p \in Row \ {a} : ord[m] < ord[p] => up[m] < up[p]
  <2> SUFFICES ASSUME NEW m \in Row \ {a}, NEW p \in Row \ {a}, ord[m] < ord[p]
               PROVE  up[m] < up[p]
    OBVIOUS
  <2>1. /\ ord[m] # ord[a] /\ ord[m] \in 1..MaxRow /\ ord[a] \in 1..MaxRow
        /\ ord[p] # ord[a] /\ ord[p] \in 1..MaxRow
    BY <1>0, <1>1 DEF Ranked
  <2> QED BY <2>1
<1> HIDE DEF up
<1>6. \A m, p \in Row : up[m] = up[p] => m = p
  <2>1. \A m \in Row \ {a} : up[m] # up[a]
    BY <1>2, <1>3
  <2> QED BY <1>1, <1>4, <2>1 DEF Ranked
<1>7. \A m, p \in Row : row'[m].by = p => up[m] < up[p]
  <2> SUFFICES ASSUME NEW m \in Row, NEW p \in Row, row'[m].by = p PROVE up[m] < up[p]
    OBVIOUS
  <2>1. CASE m = t
    BY <1>2, <1>3, <2>1
  <2>2. CASE m # t
    <3>1. row[m].by = p /\ m # a /\ ord[m] < ord[p]
      BY <1>0, <1>1, <2>2 DEF Ranked
    <3>2. CASE p = a
      BY <1>2, <1>3, <3>1, <3>2
    <3>3. CASE p # a
      BY <1>5, <3>1, <3>3
    <3> QED BY <3>2, <3>3
  <2> QED BY <2>1, <2>2
<1>8. \A m \in Row : row'[m].by \in Row \cup {NULL}
  BY <1>0
<1>9. Ranked(up)'
  BY <1>3, <1>6, <1>7, <1>8 DEF Ranked, Row, NULL
<1> QED BY <1>3, <1>9 DEF Acyclic, Row

LEMMA AcyclicStep ==
    ASSUME MaxRow \in Nat, MaxGen \in Nat, SugInv, Acyclic, Next
    PROVE  Acyclic'
<1> USE DEF SugInv
<1>1. CASE Content \/ Edit \/ Detect \/ Reconcile
  <2>1. \A m \in Row : m < nextRow =>
           row'[m] = Absent \/ row'[m].by \in {NULL, row[m].by}
    BY <1>1, RowsKept
  <2>2. \A m \in Row : nextRow <= m => row'[m].by = NULL
    BY <1>1, RowsKept
  <2>3. \A m \in Row : row'[m].by \in {NULL, row[m].by}
    BY <2>1, <2>2 DEF Absent, TypeOK, Row
  <2> QED BY <2>3, FewerEdges
<1>2. ASSUME NEW s \in sug, NEW v \in {"accepted", "rejected"}, Open(s, v) PROVE Acyclic'
  <2>1. \A m \in Row : row'[m].by \in {NULL, row[m].by}
    BY <1>2 DEF Open
  <2> QED BY <2>1, FewerEdges
<1>3. ASSUME NEW t \in tx, Resolution(t) PROVE Acyclic'
  <2>1. /\ \A p \in Row : p # t.sug.target => row'[p] = row[p]
        /\ \A p \in Row : row'[p].by = row[p].by \/ AcceptSupersede(t)
    BY <1>3, Resolutions
  <2>2. CASE AcceptSupersede(t)
    <3>1. /\ t.sug \in sug /\ t.sug.target \in Row /\ t.sug.arg \in Row
          /\ row[t.sug.target] \in Memory
      BY DEF TypeOK, Suggestion
    <3>2. t.sug.target # t.sug.arg
      BY <2>2, <3>1 DEF AcceptSupersede, EndsKnown
    <3>3. row[t.sug.arg].by = NULL /\ row'[t.sug.target].by = t.sug.arg
      BY <2>2, <3>1 DEF AcceptSupersede, LiveDecision, TypeOK, Memory
    <3> QED BY <2>1, <3>1, <3>2, <3>3, NewEdge
  <2>3. CASE ~AcceptSupersede(t)
    BY <2>1, <2>3, FewerEdges
  <2> QED BY <2>2, <2>3
<1> QED BY <1>1, <1>2, <1>3, Resolving DEF Next

-----------------------------------------------------------------------------
(* The recursive function Follow exists, and is what its equation says. *)
Then(f) == [m \in Row |-> IF Superseded(f[m]) THEN row[f[m]].by ELSE f[m]]

LEMMA FollowUnfolds ==
    ASSUME MaxRow \in Nat
    PROVE  /\ Follow[0] = [m \in Row |-> m]
           /\ \A k \in 1..MaxRow : Follow[k] = Then(Follow[k - 1])
<1> DEFINE Eq(f, n) == f = [k \in 0..n |-> IF k = 0 THEN [m \in Row |-> m] ELSE Then(f[k - 1])]
           S == {n \in Nat : \E f : Eq(f, n)}
<1>1. 0 \in S
  <2> DEFINE f == [k \in 0..0 |-> [m \in Row |-> m]]
  <2>1. Eq(f, 0)
    OBVIOUS
  <2> QED BY <2>1
<1>2. ASSUME NEW n \in S PROVE n + 1 \in S
  <2>1. PICK f : Eq(f, n)
    OBVIOUS
  <2> DEFINE g == [k \in 0..n + 1 |-> IF k <= n THEN f[k] ELSE Then(f[n])]
  <2>2. \A k \in 0..n + 1 : g[k] = IF k = 0 THEN [m \in Row |-> m] ELSE Then(g[k - 1])
    <3> SUFFICES ASSUME NEW k \in 0..n + 1
                 PROVE  g[k] = IF k = 0 THEN [m \in Row |-> m] ELSE Then(g[k - 1])
      OBVIOUS
    <3>1. CASE k <= n
      <4>1. g[k] = f[k] /\ (k # 0 => k - 1 \in 0..n /\ g[k - 1] = f[k - 1])
        BY <3>1
      <4>2. f[k] = IF k = 0 THEN [m \in Row |-> m] ELSE Then(f[k - 1])
        BY <2>1, <3>1
      <4> HIDE DEF g
      <4> QED BY <4>1, <4>2
    <3>2. CASE k = n + 1
      <4>1. g[k] = Then(f[n]) /\ g[k - 1] = f[n] /\ k # 0
        BY <3>2
      <4> HIDE DEF g
      <4> QED BY <4>1
    <3> QED BY <3>1, <3>2
  <2>3. Eq(g, n + 1)
    <3>1. g = [k \in 0..n + 1 |-> g[k]]
      OBVIOUS
    <3> HIDE DEF g
    <3> QED BY <2>2, <3>1, Zenon
  <2>4. \E h : Eq(h, n + 1)
    BY <2>3
  <2> QED BY <2>4
<1>3. MaxRow \in S
  <2>1. S \subseteq Nat
    OBVIOUS
  <2> HIDE DEF S
  <2> QED BY <1>1, <1>2, <2>1, NumberInduction
<1>4. Eq(Follow, MaxRow)
  <2>1. \E f : Eq(f, MaxRow)
    BY <1>3
  <2> QED BY <2>1, Zenon DEF Follow, Then
<1> QED BY <1>4

(* Every step of Follow from a published row climbs, until it is at a visible one. *)
LEMMA FollowClimbs ==
    ASSUME MaxRow \in Nat, TypeOK, EdgesStand, NEW ord, Ranked(ord), NEW m \in Row, Published(m)
    PROVE  \A k \in 0..MaxRow :
              LET p == Follow[k][m]
              IN  p \in Row /\ Published(p) /\ (Active(p) \/ ord[p] >= ord[m] + k)
<1> DEFINE p(k) == Follow[k][m]
           Up(k) == p(k) \in Row /\ Published(p(k)) /\ (Active(p(k)) \/ ord[p(k)] >= ord[m] + k)
           S == {k \in Nat : k <= MaxRow => Up(k)}
<1>0. \A x \in Row : ord[x] \in Nat /\ row[x].by \in Row \cup {NULL}
  BY DEF Ranked, Row, TypeOK, Memory
<1>1. 0 \in S
  BY <1>0, FollowUnfolds
<1>2. ASSUME NEW k \in Nat, k \in S PROVE k + 1 \in S
  <2> SUFFICES ASSUME k + 1 <= MaxRow PROVE Up(k + 1)
    OBVIOUS
  <2>1. Up(k)
    BY <1>2
  <2>2. p(k + 1) = IF Superseded(p(k)) THEN row[p(k)].by ELSE p(k)
    <3>1. k + 1 \in 1..MaxRow /\ (k + 1) - 1 = k
      OBVIOUS
    <3>2. Follow[k + 1] = Then(Follow[k])
      BY <3>1, FollowUnfolds
    <3> QED BY <2>1, <3>2 DEF Then
  <2> HIDE DEF p
  <2>3. CASE Superseded(p(k))
    <3>1. ~Active(p(k)) /\ row[p(k)].by # NULL /\ row[p(k)].by \in Row
      BY <1>0, <2>1, <2>3 DEF Active, Superseded
    <3>2. ord[p(k)] < ord[row[p(k)].by] /\ Published(row[p(k)].by)
      BY <2>1, <3>1 DEF Ranked, EdgesStand
    <3> QED BY <1>0, <2>1, <2>2, <2>3, <3>1, <3>2
  <2>4. CASE ~Superseded(p(k))
    BY <2>1, <2>2, <2>4 DEF Active
  <2> QED BY <2>3, <2>4
<1>3. \A n \in Nat : n \in S
  <2> HIDE DEF S
  <2> QED BY <1>1, <1>2, NumberInduction
<1> QED BY <1>3

LEMMA AcyclicShows ==
    ASSUME MaxRow \in Nat, TypeOK, EdgesStand, Acyclic
    PROVE  HiddenHasVisibleSuccessor
<1>1. PICK ord \in [Row -> Row] : Ranked(ord)
  BY DEF Acyclic
<1> SUFFICES ASSUME NEW m \in Row, Published(m) PROVE Active(Follow[MaxRow][m])
  BY DEF HiddenHasVisibleSuccessor
<1> DEFINE p == Follow[MaxRow][m]
<1>2. p \in Row /\ Published(p) /\ (Active(p) \/ ord[p] >= ord[m] + MaxRow)
  BY <1>1, FollowClimbs
<1> HIDE DEF p
<1>3. ord[p] <= MaxRow /\ ord[m] >= 1 /\ ord[p] \in Nat /\ ord[m] \in Nat
  BY <1>1, <1>2 DEF Ranked, Row
<1>4. Active(p)
  BY <1>2, <1>3
<1> QED BY <1>4 DEF p

(* A pending suggestion that is shown has two decisions, and the new one leads nowhere: *)
(* an edge of it would hide it.                                                          *)
LEMMA EndsActionable ==
    ASSUME TypeOK, EdgesStand, EndsKnown
    PROVE  PendingSupersedeActionable
<1> SUFFICES ASSUME NEW s \in sug, s.kind = "supersede", Listed(s)
             PROVE  row[s.target].cat = "decision" /\ LiveDecision(s.arg)
  BY DEF PendingSupersedeActionable
<1>1. s.target \in Row /\ s.arg \in Row
  BY DEF TypeOK, Suggestion
<1>2. Active(s.arg) /\ row[s.arg].cat = "decision" /\ row[s.target].cat = "decision"
  BY DEF EndsKnown, Listed, Active, Published, Exists
<1>3. row[s.arg].by = NULL
  BY <1>1, <1>2 DEF EdgesStand, Active, Superseded
<1> QED BY <1>2, <1>3 DEF LiveDecision

-----------------------------------------------------------------------------
LEMMA SugStep ==
    ASSUME MaxRow \in Nat, MaxGen \in Nat, SugInv, Acyclic, [Next]_vars
    PROVE  SugInv' /\ Acyclic'
<1>1. CASE Next
  BY <1>1, TypeStep, EndsStep, EdgesStep, CompletionStep, AcyclicStep DEF SugInv
<1>2. CASE UNCHANGED vars
  <2>1. SugInv'
    BY <1>2 DEF vars, SugInv, TypeOK, LocksHeld, IdsBelow, DatesKnown, EndsKnown, EdgesStand,
       CompletionOnActions, Published, Exists, Pending, TargetCategory, Memory, Row, Gen, NULL,
       Due, Suggestion, Status, Job, Tx, Absent
  <2>2. Acyclic'
    BY <1>2, FewerEdges DEF vars
  <2> QED BY <2>1, <2>2
<1> QED BY <1>1, <1>2

(* Everything the properties below rest on, of every reachable state. *)
THEOREM SuggestionsInv ==
    ASSUME MaxRow \in Nat, MaxGen \in Nat
    PROVE  Spec => [](SugInv /\ Acyclic)
<1>1. Init => SugInv /\ Acyclic
  BY SugInit, AcyclicInit
<1>2. SugInv /\ Acyclic /\ [Next]_vars => (SugInv /\ Acyclic)'
  BY SugStep
<1> QED BY <1>1, <1>2, PTL DEF Spec

(* No topic is wiped out: however suggestions cross, rows are deleted and generations      *)
(* replaced, from every published decision the successors lead to one the reader is shown  *)
(* (suggestion.py:185-190).                                                                *)
THEOREM HiddenAlwaysHasVisibleSuccessor ==
    ASSUME MaxRow \in Nat, MaxGen \in Nat
    PROVE  Spec => []HiddenHasVisibleSuccessor
<1>1. SugInv /\ Acyclic => HiddenHasVisibleSuccessor
  BY AcyclicShows DEF SugInv
<1> QED BY <1>1, SuggestionsInv, PTL

(* What list_suggestions offers can be accepted (suggestion.py:257-259). *)
THEOREM PendingAlwaysActionable ==
    ASSUME MaxRow \in Nat, MaxGen \in Nat
    PROVE  Spec => []PendingSupersedeActionable
<1>1. SugInv => PendingSupersedeActionable
  BY EndsActionable DEF SugInv
<1> QED BY <1>1, SuggestionsInv, PTL

(* An accepted supersede stays what the reader is shown, and no edge leads to a row the     *)
(* reader cannot see (suggestion.py:204-205).                                              *)
THEOREM EdgesAlwaysStand ==
    ASSUME MaxRow \in Nat, MaxGen \in Nat
    PROVE  Spec => []EdgesStand
<1>1. SugInv => EdgesStand
  BY DEF SugInv
<1> QED BY <1>1, SuggestionsInv, PTL

(* Only an action is ever complete (memory.py:206-216, suggestion.py:142-147). *)
THEOREM CompletionAlwaysOnActions ==
    ASSUME MaxRow \in Nat, MaxGen \in Nat
    PROVE  Spec => []CompletionOnActions
<1>1. SugInv => CompletionOnActions
  BY DEF SugInv
<1> QED BY <1>1, SuggestionsInv, PTL
=============================================================================
