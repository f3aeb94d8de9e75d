---------------------------- MODULE UpkeepProofs ----------------------------
(* Theorems about what is kept up to date from the stored items, and about the schema it  *)
(* is stored in: the summary, for every set of uploads and of rebuilds; the watermark of     *)
(* the pull requests, for any number of them and of syncs; the schema, for any documents.     *)
EXTENDS Upkeep, Numbers, Sequences

-----------------------------------------------------------------------------
(* SummaryCache. *)
(* Who is between reading and writing holds the lock, so at most one is; the text   *)
(* it read is still the stored one, or tells of every merged upload that is left   *)
(* and of no generation but the published one and those deleted since.              *)
LockIsHeld == \A p \in Proc : pc[p] = "calling" => lock = p
MergesWhatIsStored == \A u \in Upload : pc[u] = "calling" => seen[u] = summary
RebuildsWhatIsLeft ==
    \A r \in Refresher : pc[r] = "calling" =>
        merged \subseteq seen[r].uploads /\ seen[r].gens \subseteq {gen} \cup removed
TextCurrent == MergesWhatIsStored /\ RebuildsWhatIsLeft /\ SummaryIsCurrent
CurrentInv == TypeOK /\ LockIsHeld /\ TextCurrent

(* Each step keeps the types. *)
LEMMA SummaryTypesKept ==
    ASSUME TypeOK, Next
    PROVE  TypeOK'
<1> USE SummaryAssumption DEF TypeOK, rowVars, Proc, Text, NoText, WorkerPc, RefreshPc
<1>1. ASSUME NEW u \in Upload, Ingest(u) PROVE TypeOK'
  BY <1>1 DEF Ingest, Goto, First
<1>2. ASSUME NEW u \in Upload, BeginMerge(u) PROVE TypeOK'
  BY <1>2 DEF BeginMerge, Enter, Goto
<1>3. ASSUME NEW u \in Upload, EndMerge(u) PROVE TypeOK'
  BY <1>3 DEF EndMerge, CanEnter, Leave, Goto, After
<1>4. ASSUME NEW u \in Upload, MergeFails(u) PROVE TypeOK'
  BY <1>4 DEF MergeFails, Fault, Leave, Goto, After
<1>5. ASSUME NEW u \in Upload, Replace(u) PROVE TypeOK'
  <2>1. /\ quiet' \subseteq Upload /\ stored' \subseteq Upload
        /\ by' \in [Upload -> Upload \cup {"nobody", "repo"}]
    BY <1>5 DEF Replace, DeleteRows, Freed
  <2>2. pc' \in [Proc -> WorkerPc \cup RefreshPc]
    BY <1>5 DEF Replace, Goto, Replaced, After
  <2>3. QED BY <1>5, <2>1, <2>2 DEF Replace
<1>6. ASSUME NEW u \in Upload, Delete(u) PROVE TypeOK'
  BY <1>6 DEF Delete, Spawn, Goto, DeleteRows
<1>7. ASSUME NEW u \in Upload, Supersede(u) PROVE TypeOK'
  BY <1>7 DEF Supersede, Spawn, Goto, live
<1>8. ASSUME NEW r \in Refresher, BeginRefresh(r) PROVE TypeOK'
  <2>1. Rows \in Text
    <3>1. {gen} \ {0} \subseteq 1..MaxGen
      OBVIOUS
    <3>2. QED BY <3>1 DEF Rows, live
  <2>2. QED BY <1>8, <2>1 DEF BeginRefresh, Enter, Goto
<1>9. ASSUME NEW r \in Refresher, EndRefresh(r) PROVE TypeOK'
  BY <1>9 DEF EndRefresh, CanEnter, Leave, Goto
<1>10. ASSUME NEW r \in Refresher, RefreshFails(r) PROVE TypeOK'
  BY <1>10 DEF RefreshFails, Fault, Leave, Goto
<1>11. CASE Publish
  BY <1>11 DEF Publish, Spawn, Goto, DeleteRows
<1>12. CASE DeleteRepo
  BY <1>12 DEF DeleteRepo, Spawn, Goto, DeleteRows
<1>13. CASE DeleteRepoFails
  BY <1>13 DEF DeleteRepoFails, Fault, Spawn, Goto
<1>14. CASE Restart
  BY <1>14 DEF Restart, Fault
<1>15. QED BY <1>1, <1>2, <1>3, <1>4, <1>5, <1>6, <1>7, <1>8, <1>9,
              <1>10, <1>11, <1>12, <1>13, <1>14 DEF Next, Worker, Refresh

(* Each step leaves the lock with whoever is between reading and writing. *)
LEMMA LockKept ==
    ASSUME TypeOK, LockIsHeld, Next
    PROVE  LockIsHeld'
<1> USE SummaryAssumption DEF TypeOK, Proc, LockIsHeld, WorkerPc, RefreshPc
<1>1. ASSUME NEW u \in Upload, Ingest(u) PROVE LockIsHeld'
  BY <1>1 DEF Ingest, Goto, First
<1>2. ASSUME NEW u \in Upload, BeginMerge(u) PROVE LockIsHeld'
  BY <1>2 DEF BeginMerge, Enter, Goto
<1>3. ASSUME NEW u \in Upload, EndMerge(u) PROVE LockIsHeld'
  BY <1>3 DEF EndMerge, CanEnter, Leave, Goto, After
<1>4. ASSUME NEW u \in Upload, MergeFails(u) PROVE LockIsHeld'
  BY <1>4 DEF MergeFails, Fault, Leave, Goto, After
<1>5. ASSUME NEW u \in Upload, Replace(u) PROVE LockIsHeld'
  BY <1>5 DEF Replace, Goto, Replaced, After
<1>6. ASSUME NEW u \in Upload, Delete(u) PROVE LockIsHeld'
  BY <1>6 DEF Delete, Spawn, Goto
<1>7. ASSUME NEW u \in Upload, Supersede(u) PROVE LockIsHeld'
  BY <1>7 DEF Supersede, Spawn, Goto
<1>8. ASSUME NEW r \in Refresher, BeginRefresh(r) PROVE LockIsHeld'
  BY <1>8 DEF BeginRefresh, Enter, Goto
<1>9. ASSUME NEW r \in Refresher, EndRefresh(r) PROVE LockIsHeld'
  BY <1>9 DEF EndRefresh, CanEnter, Leave, Goto
<1>10. ASSUME NEW r \in Refresher, RefreshFails(r) PROVE LockIsHeld'
  BY <1>10 DEF RefreshFails, Fault, Leave, Goto
<1>11. CASE Publish
  BY <1>11 DEF Publish, Spawn, Goto
<1>12. CASE DeleteRepo
  BY <1>12 DEF DeleteRepo, Spawn, Goto
<1>13. CASE DeleteRepoFails
  BY <1>13 DEF DeleteRepoFails, Fault, Spawn, Goto
<1>14. CASE Restart
  BY <1>14 DEF Restart, Fault
<1>15. QED BY <1>1, <1>2, <1>3, <1>4, <1>5, <1>6, <1>7, <1>8, <1>9,
              <1>10, <1>11, <1>12, <1>13, <1>14 DEF Next, Worker, Refresh

(* Each step keeps the text current. *)
LEMMA CurrentKept ==
    ASSUME CurrentInv, Next
    PROVE  TextCurrent'
<1> USE SummaryAssumption
   DEF CurrentInv, TextCurrent, TypeOK, Proc, Text, NoText, LockIsHeld, MergesWhatIsStored,
       RebuildsWhatIsLeft, SummaryIsCurrent
<1>1. ASSUME NEW u \in Upload, Ingest(u) PROVE TextCurrent'
  BY <1>1 DEF Ingest, Goto, First
<1>2. ASSUME NEW u \in Upload, BeginMerge(u) PROVE TextCurrent'
  BY <1>2 DEF BeginMerge, Enter, Goto
<1>3. ASSUME NEW u \in Upload, EndMerge(u) PROVE TextCurrent'
  BY <1>3 DEF EndMerge, CanEnter, Leave, Goto, After
<1>4. ASSUME NEW u \in Upload, MergeFails(u) PROVE TextCurrent'
  BY <1>4 DEF MergeFails, Fault, Leave, Goto, After
<1>5. ASSUME NEW u \in Upload, Replace(u) PROVE TextCurrent'
  BY <1>5 DEF Replace, Goto, Replaced, After
<1>6. ASSUME NEW u \in Upload, Delete(u) PROVE TextCurrent'
  BY <1>6 DEF Delete, Spawn, Goto
<1>7. ASSUME NEW u \in Upload, Supersede(u) PROVE TextCurrent'
  BY <1>7 DEF Supersede, Spawn, Goto, live
<1>8. ASSUME NEW r \in Refresher, BeginRefresh(r) PROVE TextCurrent'
  BY <1>8 DEF BeginRefresh, Enter, Goto, Rows, live
<1>9. ASSUME NEW r \in Refresher, EndRefresh(r) PROVE TextCurrent'
  BY <1>9 DEF EndRefresh, CanEnter, Leave, Goto
<1>10. ASSUME NEW r \in Refresher, RefreshFails(r) PROVE TextCurrent'
  BY <1>10 DEF RefreshFails, Fault, Leave, Goto
<1>11. CASE Publish
  BY <1>11 DEF Publish, Spawn, Goto
<1>12. CASE DeleteRepo
  BY <1>12 DEF DeleteRepo, Spawn, Goto
<1>13. CASE DeleteRepoFails
  BY <1>13 DEF DeleteRepoFails, Fault, Spawn, Goto
<1>14. CASE Restart
  BY <1>14 DEF Restart, Fault
<1>15. QED BY <1>1, <1>2, <1>3, <1>4, <1>5, <1>6, <1>7, <1>8, <1>9,
              <1>10, <1>11, <1>12, <1>13, <1>14 DEF Next, Worker, Refresh

(* What the lock is for: the stored text tells of every merged upload a rebuild left in, *)
(* and of no generation but the published one (project_memory.py:17-20) and, until the      *)
(* next rebuild or publication, those that were deleted with their repository.               *)
THEOREM SummaryAlwaysCurrent == Spec => []SummaryIsCurrent
<1>1. Init => CurrentInv
  BY SummaryAssumption
     DEF Init, CurrentInv, TextCurrent, TypeOK, Proc, Text, NoText, WorkerPc, RefreshPc,
         LockIsHeld, MergesWhatIsStored, RebuildsWhatIsLeft, SummaryIsCurrent
<1>2. CurrentInv /\ [Next]_vars => CurrentInv'
  <2>1. ASSUME CurrentInv, Next PROVE CurrentInv'
    BY <2>1, SummaryTypesKept, LockKept, CurrentKept DEF CurrentInv
  <2>2. ASSUME CurrentInv, UNCHANGED vars PROVE CurrentInv'
    BY <2>2 DEF CurrentInv, TextCurrent, vars, rowVars, TypeOK, LockIsHeld,
       MergesWhatIsStored, RebuildsWhatIsLeft, SummaryIsCurrent
  <2>3. QED BY <2>1, <2>2
<1>3. CurrentInv => SummaryIsCurrent
  BY DEF CurrentInv, TextCurrent
<1>4. QED BY <1>1, <1>2, <1>3, PTL DEF Spec

-----------------------------------------------------------------------------
(* PrReconciler. *)
SyncPc == {"idle", "listing", "published", "advance", "done"}
PrTypes ==
    /\ closed \in Seq(Prs!Pr) /\ mark \in Nat
    /\ sPc \in [Sync -> SyncPc] /\ since \in [Sync -> Nat] /\ page \in [Sync -> Nat]
    /\ listed \in [Sync -> SUBSET Prs!Pr] /\ mergedPrs \subseteq Prs!Range(closed)
    /\ mergedPrs \subseteq Prs!Pr

(* The watermark is the number of a merged pull request, and so is all a sync listed;   *)
(* the watermark a sync read is not ahead of the stored one.                               *)
Behind ==
    /\ mark \in mergedPrs \cup {0}
    /\ \A s \in Sync : /\ listed[s] \subseteq mergedPrs
                       /\ since[s] <= mark
                       /\ sPc[s] = "idle" => page[s] = 0 /\ listed[s] = {}

(* Of the pages that were read: what is merged and was not listed is greater than all that *)
(* was listed, and than all that is merged and follows it on the next pages.                 *)
Greatest(s, i) ==
    /\ \A q \in listed[s] : q < closed[i]
    /\ \A j \in DOMAIN closed : j > i /\ closed[j] \in mergedPrs => closed[j] < closed[i]
PagesRead ==
    \A s \in Sync : sPc[s] = "listing" =>
        \A i \in DOMAIN closed :
            i <= page[s] * PageSize /\ closed[i] \in mergedPrs /\ closed[i] > since[s]
            /\ closed[i] \notin overtaken \cup slipped \cup listed[s] => Greatest(s, i)

(* Of the list as a whole: what was neither listed nor compared is greater than all that  *)
(* was listed; and the watermark only passes what was compared.                              *)
ListsRead ==
    \A s \in Sync :
        /\ sPc[s] \in {"published", "advance"} =>
              \A p \in mergedPrs \ (overtaken \cup slipped \cup listed[s] \cup judged) :
                  \A q \in listed[s] : q < p
        /\ sPc[s] = "advance" => listed[s] \subseteq judged
PrInv == PrTypes /\ Behind /\ PagesRead /\ ListsRead /\ MarkIsHonest

(* A page is what follows the pages before it, and the last one ends the list. *)
LEMMA PageHas ==
    ASSUME PrTypes, NEW s \in Sync
    PROVE  /\ page[s] * PageSize \in Nat
           /\ (page[s] + 1) * PageSize = page[s] * PageSize + PageSize
           /\ \A i \in DOMAIN closed :
                 i > page[s] * PageSize /\ i <= page[s] * PageSize + PageSize
                     => closed[i] \in Prs!Range(Prs!PageOf(s))
           /\ \A q \in Prs!Range(Prs!PageOf(s)) :
                 \E i \in DOMAIN closed : i > page[s] * PageSize /\ q = closed[i]
           /\ Len(Prs!PageOf(s)) < PageSize => Len(closed) < page[s] * PageSize + PageSize
           /\ Prs!PageOf(s) \in Seq(Prs!Pr)
<1> DEFINE k == page[s] * PageSize
           next == (page[s] + 1) * PageSize
           end == Prs!Min({next, Len(closed)})
<1>1. page[s] \in Nat /\ PageSize \in Nat \ {0} /\ closed \in Seq(Prs!Pr)
  BY PageAssumption DEF PrTypes
<1>2. k \in Nat /\ next = k + PageSize
  BY <1>1
<1> HIDE DEF k, next
<1>3. end = IF next <= Len(closed) THEN next ELSE Len(closed)
  <2>1. \E x \in {next, Len(closed)} : \A y \in {next, Len(closed)} : x <= y
    BY <1>1, <1>2
  <2>2. end \in {next, Len(closed)} /\ end <= next /\ end <= Len(closed)
    BY <2>1 DEF Prs!Min
  <2>3. QED BY <1>1, <1>2, <2>2
<1> HIDE DEF end
<1>4. Prs!PageOf(s) = SubSeq(closed, k + 1, end)
  <2>1. Prs!Read(s) = k /\ Prs!Read(s) + PageSize = next
    BY <1>2 DEF Prs!Read, k
  <2>2. Prs!PageOf(s) = SubSeq(closed, k + 1, Prs!Min({next, Len(closed)}))
    BY <2>1 DEF Prs!PageOf
  <2>3. QED BY <2>2 DEF end
<1>5. /\ Prs!PageOf(s) \in Seq(Prs!Pr)
      /\ Len(Prs!PageOf(s)) = IF k + 1 <= end THEN end - k ELSE 0
      /\ \A j \in 1..Len(Prs!PageOf(s)) : Prs!PageOf(s)[j] = closed[k + j]
  BY <1>1, <1>2, <1>3, <1>4
<1>6. ASSUME NEW i \in DOMAIN closed, i > k, i <= k + PageSize
      PROVE  closed[i] \in Prs!Range(Prs!PageOf(s))
  <2>1. i - k \in 1..Len(Prs!PageOf(s)) /\ closed[k + (i - k)] = closed[i]
    BY <1>1, <1>2, <1>3, <1>5, <1>6
  <2>2. i - k \in DOMAIN Prs!PageOf(s) /\ Prs!PageOf(s)[i - k] = closed[i]
    BY <1>5, <2>1
  <2>3. QED BY <2>2 DEF Prs!Range
<1>7. ASSUME NEW q \in Prs!Range(Prs!PageOf(s))
      PROVE  \E i \in DOMAIN closed : i > k /\ q = closed[i]
  <2>1. PICK j \in 1..Len(Prs!PageOf(s)) : q = Prs!PageOf(s)[j]
    BY <1>5 DEF Prs!Range
  <2>2. k + j \in DOMAIN closed /\ k + j > k
    BY <1>1, <1>2, <1>3, <1>5, <2>1
  <2>3. QED BY <1>5, <2>1, <2>2
<1>8. Len(Prs!PageOf(s)) < PageSize => Len(closed) < k + PageSize
  BY <1>1, <1>2, <1>3, <1>5
<1>9. QED BY <1>2, <1>5, <1>6, <1>7, <1>8 DEF k, next

(* A touch moves one pull request to the front; what was behind it stays where it was. *)
LEMMA TouchMoves ==
    ASSUME PrTypes, NEW p \in Prs!Pr, Prs!Touch(p)
    PROVE  \E m \in DOMAIN closed :
              /\ closed' \in Seq(Prs!Pr) /\ DOMAIN closed' = DOMAIN closed
              /\ closed'[1] = p /\ closed[m] = p
              /\ \A i \in DOMAIN closed : i > 1 /\ i <= m => closed'[i] = closed[i - 1]
              /\ \A i \in DOMAIN closed : i > m => closed'[i] = closed[i]
<1>1. PICK m \in DOMAIN closed :
          closed[m] = p /\ closed' = <<p>> \o (SubSeq(closed, 1, m - 1) \o SubSeq(closed, m + 1, Len(closed)))
  BY DEF Prs!Touch, Prs!RemoveAt
<1>2. closed \in Seq(Prs!Pr) /\ m \in 1..Len(closed)
  BY DEF PrTypes
<1>3. /\ SubSeq(closed, 1, m - 1) \in Seq(Prs!Pr) /\ Len(SubSeq(closed, 1, m - 1)) = m - 1
      /\ \A i \in 1..(m - 1) : SubSeq(closed, 1, m - 1)[i] = closed[i]
  BY <1>2
<1>4. /\ SubSeq(closed, m + 1, Len(closed)) \in Seq(Prs!Pr)
      /\ Len(SubSeq(closed, m + 1, Len(closed))) = Len(closed) - m
      /\ \A i \in 1..(Len(closed) - m) : SubSeq(closed, m + 1, Len(closed))[i] = closed[m + i]
  BY <1>2
<1> DEFINE ahead == SubSeq(closed, 1, m - 1)
           behind == SubSeq(closed, m + 1, Len(closed))
<1> HIDE DEF ahead, behind
<1>5. closed' = <<p>> \o (ahead \o behind)
  BY <1>1 DEF ahead, behind
<1>6. ahead \in Seq(Prs!Pr) /\ Len(ahead) = m - 1 /\ \A i \in 1..(m - 1) : ahead[i] = closed[i]
  BY <1>3 DEF ahead
<1>7. /\ behind \in Seq(Prs!Pr) /\ Len(behind) = Len(closed) - m
      /\ \A i \in 1..(Len(closed) - m) : behind[i] = closed[m + i]
  BY <1>4 DEF behind
<1>8. closed' \in Seq(Prs!Pr) /\ Len(closed') = Len(closed) /\ closed'[1] = p
  BY <1>2, <1>5, <1>6, <1>7
<1>9. ASSUME NEW i \in 1..Len(closed), i > 1, i <= m PROVE closed'[i] = closed[i - 1]
  <2>1. closed'[i] = (ahead \o behind)[i - 1]
    BY <1>2, <1>5, <1>6, <1>7, <1>9
  <2>2. (ahead \o behind)[i - 1] = ahead[i - 1] /\ i - 1 \in 1..(m - 1)
    BY <1>2, <1>6, <1>7, <1>9
  <2>3. QED BY <1>6, <2>1, <2>2
<1>10. ASSUME NEW i \in 1..Len(closed), i > m PROVE closed'[i] = closed[i]
  <2>1. closed'[i] = (ahead \o behind)[i - 1]
    BY <1>2, <1>5, <1>6, <1>7, <1>10
  <2>2. (ahead \o behind)[i - 1] = behind[i - m]
    BY <1>2, <1>6, <1>7, <1>10
  <2>3. behind[i - m] = closed[m + (i - m)]
    BY <1>2, <1>7, <1>10
  <2>4. QED BY <1>2, <1>10, <2>1, <2>2, <2>3
<1>11. DOMAIN closed' = DOMAIN closed /\ DOMAIN closed = 1..Len(closed)
  BY <1>2, <1>8
<1>12. QED BY <1>1, <1>8, <1>9, <1>10, <1>11

(* The watermark moves to the greatest number of what it was and what was listed. *)
LEMMA MarkIsGreatest ==
    ASSUME PrTypes, NEW s \in Sync
    PROVE  /\ Prs!Max({mark} \cup listed[s]) \in {mark} \cup listed[s]
           /\ \A p \in {mark} \cup listed[s] : p <= Prs!Max({mark} \cup listed[s])
<1> DEFINE T == {mark} \cup listed[s]
<1>1. T \in SUBSET Nat /\ T # {} /\ mark \in Nat /\ MaxPr \in Nat
  BY PageAssumption DEF PrTypes, Prs!Pr
<1>2. mark + MaxPr \in Nat /\ \A p \in T : p <= mark + MaxPr
  BY <1>1 DEF PrTypes, Prs!Pr
<1> HIDE DEF T
<1>3. \E m \in T : \A p \in T : p <= m
  BY <1>1, <1>2, GreatestNumber
<1>4. \E m \in T : \A p \in T : m >= p
  BY <1>1, <1>3
<1>5. Prs!Max(T) \in T /\ \A p \in T : p <= Prs!Max(T)
  BY <1>1, <1>4 DEF Prs!Max
<1>6. QED BY <1>5 DEF T

(* One that is closed comes first, and what was there moves one place down. *)
LEMMA ClosesFirst ==
    ASSUME PrTypes, NEW p \in Prs!Pr, closed' = <<p>> \o closed
    PROVE  /\ closed' \in Seq(Prs!Pr) /\ DOMAIN closed' = 1..(Len(closed) + 1) /\ closed'[1] = p
           /\ DOMAIN closed = 1..Len(closed) /\ Len(closed) \in Nat
           /\ \A i \in DOMAIN closed' : i > 1 => closed'[i] = closed[i - 1] /\ i - 1 \in DOMAIN closed
           /\ Prs!Range(closed') = Prs!Range(closed) \cup {p}
<1>1. /\ closed' \in Seq(Prs!Pr) /\ DOMAIN closed' = 1..(Len(closed) + 1) /\ closed'[1] = p
      /\ DOMAIN closed = 1..Len(closed) /\ Len(closed) \in Nat
      /\ \A i \in DOMAIN closed' : i > 1 => closed'[i] = closed[i - 1] /\ i - 1 \in DOMAIN closed
  BY DEF PrTypes
<1>2. ASSUME NEW q \in Prs!Range(closed) PROVE q \in Prs!Range(closed')
  <2>1. PICK i \in DOMAIN closed : q = closed[i]
    BY DEF Prs!Range
  <2>2. i + 1 \in DOMAIN closed' /\ closed'[i + 1] = q
    BY <1>1, <2>1
  <2>3. QED BY <2>2 DEF Prs!Range
<1>3. p \in Prs!Range(closed')
  BY <1>1 DEF Prs!Range
<1>4. ASSUME NEW q \in Prs!Range(closed') PROVE q = p \/ q \in Prs!Range(closed)
  BY <1>1 DEF Prs!Range
<1>5. QED BY <1>1, <1>2, <1>3, <1>4

(* The pages that were read are one place down, and what is new leads them all. *)
LEMMA PagesBelow ==
    ASSUME PrInv, NEW p \in Prs!Pr, closed' = <<p>> \o closed,
           listed' = listed, since' = since, page' = page, sPc' = sPc,
           slipped' = slipped, overtaken \subseteq overtaken',
           mergedPrs' \subseteq mergedPrs \cup {p}, p \notin Prs!Range(closed),
           p \in mergedPrs' \ overtaken' =>
               \A s \in Sync : sPc[s] = "listing" /\ page[s] > 0 => \A q \in mergedPrs : q < p
    PROVE  PagesRead'
<1>1. /\ closed' \in Seq(Prs!Pr) /\ DOMAIN closed' = 1..(Len(closed) + 1) /\ closed'[1] = p
      /\ DOMAIN closed = 1..Len(closed) /\ Len(closed) \in Nat
      /\ \A i \in DOMAIN closed' : i > 1 => closed'[i] = closed[i - 1] /\ i - 1 \in DOMAIN closed
  BY ClosesFirst DEF PrInv
<1>2. \A i \in DOMAIN closed : closed[i] # p
  BY DEF Prs!Range
<1> SUFFICES ASSUME NEW s \in Sync, sPc[s] = "listing", NEW i \in DOMAIN closed',
                    i <= page[s] * PageSize, closed'[i] \in mergedPrs', closed'[i] > since[s],
                    closed'[i] \notin overtaken' \cup slipped \cup listed[s]
             PROVE  Greatest(s, i)'
  BY DEF PagesRead
<1>3. CASE i = 1
  <2>1. page[s] > 0
    <3>1. page[s] \in Nat /\ page[s] * PageSize \in Nat
      BY PageAssumption DEF PrInv, PrTypes
    <3>2. page[s] = 0 => page[s] * PageSize = 0
      BY PageAssumption
    <3>3. QED BY <1>3, <3>1, <3>2
  <2>2. \A q \in mergedPrs : q < p
    BY <1>1, <1>3, <2>1
  <2>3. \A j \in DOMAIN closed' : j > 1 /\ closed'[j] \in mergedPrs' => closed'[j] < p
    BY <1>1, <1>2, <2>2
  <2>4. QED BY <1>1, <1>3, <2>2, <2>3 DEF PrInv, Behind, Greatest
<1>4. CASE i > 1
  <2>1. i - 1 \in DOMAIN closed /\ closed'[i] = closed[i - 1]
    BY <1>1, <1>4
  <2>2. page[s] * PageSize \in Nat
    BY PageAssumption DEF PrInv, PrTypes
  <2>3. i - 1 <= page[s] * PageSize /\ closed[i - 1] \in mergedPrs
    BY <1>1, <1>2, <2>1, <2>2
  <2>4. Greatest(s, i - 1)
    BY <2>1, <2>3 DEF PrInv, PagesRead
  <2>5. ASSUME NEW j \in DOMAIN closed', j > i, closed'[j] \in mergedPrs'
        PROVE  closed'[j] < closed'[i]
    <3>1. j - 1 > i - 1 /\ closed'[j] = closed[j - 1] /\ j - 1 \in DOMAIN closed
      BY <1>1, <1>4, <2>5
    <3>2. closed[j - 1] \in mergedPrs
      BY <1>2, <2>5, <3>1
    <3>3. QED BY <2>1, <2>4, <3>1, <3>2 DEF Greatest
  <2>6. QED BY <2>1, <2>4, <2>5 DEF Greatest
<1>5. QED BY <1>1, <1>3, <1>4

(* One that is closed without being merged comes first, and nobody looks for it. *)
LEMMA CloseKeeps ==
    ASSUME PrInv, NEW p \in Prs!Pr, Prs!CloseUnmerged(p)
    PROVE  PrInv'
<1>1. /\ mark' = mark /\ sPc' = sPc /\ listed' = listed /\ since' = since /\ page' = page
      /\ slipped' = slipped /\ judged' = judged /\ overtaken' = overtaken /\ mergedPrs' = mergedPrs
      /\ closed' = <<p>> \o closed /\ p \notin Prs!Range(closed)
  BY DEF Prs!CloseUnmerged, Prs!syncs
<1>2. closed' \in Seq(Prs!Pr) /\ Prs!Range(closed') = Prs!Range(closed) \cup {p}
  BY <1>1, ClosesFirst DEF PrInv
<1>3. PrTypes' /\ Behind' /\ ListsRead' /\ MarkIsHonest'
  BY <1>1, <1>2 DEF PrInv, PrTypes, Behind, ListsRead, MarkIsHonest, Prs!MarkIsHonest
<1>4. p \notin mergedPrs'
  BY <1>1 DEF PrInv, PrTypes
<1>5. PagesRead'
  BY <1>1, <1>4, PagesBelow
<1>6. QED BY <1>3, <1>5 DEF PrInv

(* One that is merged comes first; unless it is overtaken, no greater number is behind the *)
(* watermark or in a list that it will not be in.                                             *)
LEMMA MergeKeeps ==
    ASSUME PrInv, NEW p \in Prs!Pr, Prs!MergeOnGithub(p)
    PROVE  PrInv'
<1>1. /\ mark' = mark /\ sPc' = sPc /\ listed' = listed /\ since' = since /\ page' = page
      /\ slipped' = slipped /\ judged' = judged /\ overtaken \subseteq overtaken'
      /\ mergedPrs' = mergedPrs \cup {p}
      /\ closed' = <<p>> \o closed /\ p \notin Prs!Range(closed)
  BY DEF Prs!MergeOnGithub, Prs!syncs
<1>2. closed' \in Seq(Prs!Pr) /\ Prs!Range(closed') = Prs!Range(closed) \cup {p}
  BY <1>1, ClosesFirst DEF PrInv
<1>3. p \notin mergedPrs /\ p \in Nat /\ mergedPrs \subseteq Nat
  BY <1>1 DEF PrInv, PrTypes, Prs!Pr
<1>4. p \notin overtaken' => ~Prs!IsOvertaken(p)
  BY DEF Prs!MergeOnGithub
(* What is merged and greater is neither behind the watermark nor listed. *)
<1>5. ASSUME p \notin overtaken', NEW q \in mergedPrs, NEW s \in Sync,
             q <= mark \/ (sPc[s] = "listing" /\ page[s] > 0)
             \/ (sPc[s] \in {"published", "advance"} /\ q \in listed[s])
      PROVE  q < p
  <2>1. ~(q > p)
    BY <1>4, <1>5 DEF Prs!IsOvertaken, Prs!Reading
  <2>2. q \in Nat /\ q # p
    BY <1>3
  <2>3. QED BY <1>3, <2>1, <2>2
<1>6. p \notin overtaken' => mark < p
  <2>1. CASE mark = 0
    BY <2>1 DEF Prs!Pr
  <2>2. CASE mark # 0
    <3>1. mark \in mergedPrs /\ mark \in Nat
      BY <2>2 DEF PrInv, PrTypes, Behind
    <3>2. p \notin overtaken' => ~(mark > p)
      BY <1>4, <3>1 DEF Prs!IsOvertaken
    <3>3. QED BY <1>3, <3>1, <3>2
  <2>3. QED BY <2>1, <2>2
<1>7. PrTypes' /\ Behind'
  BY <1>1, <1>2 DEF PrInv, PrTypes, Behind
<1>8. ListsRead'
  <2> SUFFICES ASSUME NEW s \in Sync, sPc[s] \in {"published", "advance"},
                      NEW r \in mergedPrs' \ (overtaken' \cup slipped \cup listed[s] \cup judged),
                      NEW q \in listed[s]
               PROVE  q < r
    BY <1>1 DEF PrInv, ListsRead
  <2>1. CASE r = p
    BY <1>5, <2>1 DEF PrInv, Behind
  <2>2. CASE r # p
    BY <1>1, <2>2 DEF PrInv, ListsRead
  <2>3. QED BY <2>1, <2>2
<1>9. MarkIsHonest'
  <2> SUFFICES ASSUME NEW r \in mergedPrs' \ (overtaken' \cup slipped), r <= mark
               PROVE  r \in judged
    BY <1>1 DEF MarkIsHonest, Prs!MarkIsHonest
  <2>1. CASE r = p
    BY <1>3, <1>6, <2>1 DEF PrInv, PrTypes
  <2>2. CASE r # p
    BY <1>1, <2>2 DEF PrInv, MarkIsHonest, Prs!MarkIsHonest
  <2>3. QED BY <2>1, <2>2
<1>10. PagesRead'
  <2>1. p \notin overtaken' =>
           \A s \in Sync : sPc[s] = "listing" /\ page[s] > 0 => \A q \in mergedPrs : q < p
    BY <1>5
  <2>2. QED BY <1>1, <2>1, PagesBelow
<1>11. QED BY <1>7, <1>8, <1>9, <1>10 DEF PrInv

(* A touched pull request comes first; where a page was read before, it was listed or it *)
(* slipped.                                                                                 *)
LEMMA TouchKeeps ==
    ASSUME PrInv, NEW p \in Prs!Pr, Prs!Touch(p)
    PROVE  PrInv'
<1>1. PICK m \in DOMAIN closed :
              /\ closed' \in Seq(Prs!Pr) /\ DOMAIN closed' = DOMAIN closed
              /\ closed'[1] = p /\ closed[m] = p
              /\ \A i \in DOMAIN closed : i > 1 /\ i <= m => closed'[i] = closed[i - 1]
              /\ \A i \in DOMAIN closed : i > m => closed'[i] = closed[i]
  BY TouchMoves DEF PrInv
<1>2. /\ mark' = mark /\ sPc' = sPc /\ listed' = listed /\ since' = since /\ page' = page
      /\ overtaken' = overtaken /\ judged' = judged /\ slipped \subseteq slipped'
      /\ mergedPrs' = mergedPrs
      /\ p \in mergedPrs \ slipped' =>
            \A s \in Sync : sPc[s] = "listing" /\ page[s] > 0 => p \in listed[s]
  BY DEF Prs!Touch, Prs!Reading, Prs!syncs
<1>3. DOMAIN closed = 1..Len(closed) /\ Len(closed) \in Nat /\ m \in Nat
  BY DEF PrInv, PrTypes
<1>4. \A i \in DOMAIN closed : i > 1 => \E k \in DOMAIN closed : closed'[i] = closed[k] /\ k <= i /\ (IF i <= m THEN k = i - 1 ELSE k = i)
  <2> SUFFICES ASSUME NEW i \in DOMAIN closed, i > 1
               PROVE  \E k \in DOMAIN closed : closed'[i] = closed[k] /\ k <= i /\ (IF i <= m THEN k = i - 1 ELSE k = i)
    OBVIOUS
  <2>1. CASE i <= m
    BY <1>1, <1>3, <2>1
  <2>2. CASE i > m
    BY <1>1, <1>3, <2>2
  <2>3. QED BY <1>3, <2>1, <2>2
<1>5. Prs!Range(closed') = Prs!Range(closed)
  <2>1. ASSUME NEW q \in Prs!Range(closed') PROVE q \in Prs!Range(closed)
    BY <1>1, <1>3, <1>4 DEF Prs!Range
  <2>2. ASSUME NEW q \in Prs!Range(closed) PROVE q \in Prs!Range(closed')
    <3>1. PICK i \in DOMAIN closed : q = closed[i]
      BY DEF Prs!Range
    <3>2. \E k \in DOMAIN closed' : q = closed'[k]
      <4>1. CASE i < m
        <5>1. i + 1 \in DOMAIN closed /\ i + 1 > 1 /\ i + 1 <= m /\ i + 1 - 1 = i
          BY <1>3, <4>1
        <5>2. QED BY <1>1, <3>1, <5>1
      <4>2. CASE i = m
        BY <1>1, <1>3, <3>1, <4>2
      <4>3. CASE i > m
        BY <1>1, <3>1, <4>3
      <4>4. QED BY <1>3, <4>1, <4>2, <4>3
    <3>3. QED BY <3>2 DEF Prs!Range
  <2>3. QED BY <2>1, <2>2
<1>6. PrTypes'
  BY <1>1, <1>2, <1>5 DEF PrInv, PrTypes
<1>7. Behind' /\ ListsRead'
  BY <1>2 DEF PrInv, Behind, ListsRead
<1>8. MarkIsHonest'
  BY <1>2 DEF PrInv, MarkIsHonest, Prs!MarkIsHonest
<1>9. PagesRead'
  <2> SUFFICES ASSUME NEW s \in Sync, sPc[s] = "listing", NEW i \in DOMAIN closed',
                      i <= page[s] * PageSize, closed'[i] \in mergedPrs, closed'[i] > since[s],
                      closed'[i] \notin overtaken \cup slipped' \cup listed[s]
               PROVE  Greatest(s, i)'
    BY <1>2 DEF PagesRead
  <2>1. page[s] > 0 /\ page[s] * PageSize \in Nat
    <3>1. page[s] * PageSize \in Nat /\ page[s] \in Nat
      BY PageAssumption DEF PrInv, PrTypes
    <3>2. page[s] = 0 => page[s] * PageSize = 0
      BY PageAssumption
    <3>3. QED BY <1>1, <1>3, <3>1, <3>2
  <2>2. i > 1
    BY <1>1, <1>2, <1>3, <2>1
  <2>3. PICK k \in DOMAIN closed : closed'[i] = closed[k] /\ k <= i /\ (IF i <= m THEN k = i - 1 ELSE k = i)
    BY <1>1, <1>4, <2>2
  <2>4. Greatest(s, k)
    <3>1. k <= page[s] * PageSize
      BY <1>1, <1>3, <2>1, <2>3
    <3>2. QED BY <1>2, <2>3, <3>1 DEF PrInv, PagesRead
  <2>5. ASSUME NEW j \in DOMAIN closed', j > i, closed'[j] \in mergedPrs
        PROVE  closed'[j] < closed'[i]
    <3>1. PICK l \in DOMAIN closed : closed'[j] = closed[l] /\ l <= j /\ (IF j <= m THEN l = j - 1 ELSE l = j)
      BY <1>1, <1>3, <1>4, <2>2, <2>5
    <3>2. l > k
      BY <1>1, <1>3, <2>3, <2>5, <3>1
    <3>3. QED BY <2>3, <2>4, <2>5, <3>1, <3>2 DEF Greatest
  <2>6. QED BY <1>2, <2>3, <2>4, <2>5 DEF Greatest
<1>10. QED BY <1>6, <1>7, <1>8, <1>9 DEF PrInv

(* One that is open again leaves its place, and what was behind it moves up. *)
LEMMA ReopenMoves ==
    ASSUME PrTypes, NEW p \in Prs!Pr, NEW m \in DOMAIN closed, closed[m] = p,
           closed' = Prs!RemoveAt(closed, m)
    PROVE  /\ closed' \in Seq(Prs!Pr) /\ DOMAIN closed' = 1..(Len(closed) - 1)
           /\ \A i \in DOMAIN closed' :
                 closed'[i] = IF i < m THEN closed[i] ELSE closed[i + 1]
           /\ Prs!Range(closed) \ {p} \subseteq Prs!Range(closed')
<1>1. closed \in Seq(Prs!Pr) /\ m \in 1..Len(closed) /\ Len(closed) \in Nat
  BY DEF PrTypes
<1> DEFINE ahead == SubSeq(closed, 1, m - 1)
           behind == SubSeq(closed, m + 1, Len(closed))
<1>2. /\ ahead \in Seq(Prs!Pr) /\ Len(ahead) = m - 1
      /\ \A i \in 1..(m - 1) : ahead[i] = closed[i]
  BY <1>1
<1>3. /\ behind \in Seq(Prs!Pr) /\ Len(behind) = Len(closed) - m
      /\ \A i \in 1..(Len(closed) - m) : behind[i] = closed[m + i]
  BY <1>1
<1>4. closed' = ahead \o behind
  BY DEF Prs!RemoveAt
<1> HIDE DEF ahead, behind
<1>5. closed' \in Seq(Prs!Pr) /\ Len(closed') = Len(closed) - 1
  BY <1>1, <1>2, <1>3, <1>4
<1>6. DOMAIN closed' = 1..(Len(closed) - 1)
  BY <1>5
<1>7. ASSUME NEW i \in 1..(Len(closed) - 1)
      PROVE  closed'[i] = IF i < m THEN closed[i] ELSE closed[i + 1]
  <2>1. CASE i < m
    <3>1. i \in 1..(m - 1) /\ closed'[i] = ahead[i]
      BY <1>1, <1>2, <1>3, <1>4, <2>1
    <3>2. QED BY <1>2, <2>1, <3>1
  <2>2. CASE i >= m
    <3>1. closed'[i] = behind[i - (m - 1)]
      BY <1>1, <1>2, <1>3, <1>4, <2>2
    <3>2. i - (m - 1) \in 1..(Len(closed) - m) /\ m + (i - (m - 1)) = i + 1
      BY <1>1, <2>2
    <3>3. QED BY <1>1, <1>3, <2>2, <3>1, <3>2
  <2>3. QED BY <1>1, <2>1, <2>2
<1>8. ASSUME NEW q \in Prs!Range(closed) \ {p} PROVE q \in Prs!Range(closed')
  <2>1. PICK i \in 1..Len(closed) : q = closed[i]
    BY <1>1 DEF Prs!Range
  <2>2. i # m
    BY <2>1
  <2>3. CASE i < m
    <3>1. i \in 1..(Len(closed) - 1) /\ closed'[i] = q
      BY <1>1, <1>7, <2>1, <2>3
    <3>2. QED BY <1>6, <3>1 DEF Prs!Range
  <2>4. CASE i > m
    <3>1. i - 1 \in 1..(Len(closed) - 1) /\ ~(i - 1 < m) /\ (i - 1) + 1 = i
      BY <1>1, <2>4
    <3>2. closed'[i - 1] = q
      BY <1>7, <2>1, <3>1
    <3>3. QED BY <1>6, <3>1, <3>2 DEF Prs!Range
  <2>5. QED BY <1>1, <2>2, <2>3, <2>4
<1>9. QED BY <1>5, <1>6, <1>7, <1>8

(* What moves to a page that was read, because one before it is open again, was listed or *)
(* slipped.                                                                                  *)
LEMMA ReopenKeeps ==
    ASSUME PrInv, NEW p \in Prs!Pr, Prs!Reopen(p)
    PROVE  PrInv'
<1>1. PICK m \in DOMAIN closed :
         /\ closed[m] = p /\ closed' = Prs!RemoveAt(closed, m)
         /\ slipped' = slipped \cup
                {q \in mergedPrs : \E s \in Sync : /\ Prs!Reading(s) /\ q \notin listed[s] /\ m <= Prs!Read(s)
                                             /\ Prs!Read(s) < Len(closed) /\ q = closed[Prs!Read(s) + 1]}
  BY DEF Prs!Reopen
<1>2. /\ mark' = mark /\ sPc' = sPc /\ listed' = listed /\ since' = since /\ page' = page
      /\ overtaken' = overtaken /\ judged' = judged /\ slipped \subseteq slipped'
      /\ mergedPrs' = mergedPrs /\ p \notin mergedPrs
  BY <1>1 DEF Prs!Reopen, Prs!syncs
<1>3. /\ closed' \in Seq(Prs!Pr) /\ DOMAIN closed' = 1..(Len(closed) - 1)
      /\ \A i \in DOMAIN closed' : closed'[i] = IF i < m THEN closed[i] ELSE closed[i + 1]
      /\ Prs!Range(closed) \ {p} \subseteq Prs!Range(closed')
  BY <1>1, ReopenMoves DEF PrInv
<1>4. DOMAIN closed = 1..Len(closed) /\ Len(closed) \in Nat /\ m \in Nat
  BY DEF PrInv, PrTypes
<1>5. PrTypes'
  BY <1>2, <1>3 DEF PrInv, PrTypes
<1>6. Behind' /\ ListsRead' /\ MarkIsHonest'
  BY <1>2 DEF PrInv, Behind, ListsRead, MarkIsHonest, Prs!MarkIsHonest
<1>7. PagesRead'
  <2> SUFFICES ASSUME NEW s \in Sync, sPc[s] = "listing", NEW i \in DOMAIN closed',
                      i <= page[s] * PageSize, closed'[i] \in mergedPrs, closed'[i] > since[s],
                      closed'[i] \notin overtaken \cup slipped' \cup listed[s]
               PROVE  Greatest(s, i)'
    BY <1>2 DEF PagesRead
  <2> DEFINE k == IF i < m THEN i ELSE i + 1
  <2>1. k \in DOMAIN closed /\ closed'[i] = closed[k]
    BY <1>3, <1>4
  <2>2. page[s] \in Nat /\ page[s] * PageSize \in Nat /\ (page[s] = 0 => page[s] * PageSize = 0)
    BY PageAssumption DEF PrInv, PrTypes
  <2>3. i \in Nat /\ i >= 1
    BY <1>3, <1>4
  <2>4. k <= page[s] * PageSize
    <3> SUFFICES ASSUME k > page[s] * PageSize PROVE FALSE
      BY <2>2, <2>3
    <3>1. i >= m /\ k = page[s] * PageSize + 1 /\ m <= page[s] * PageSize /\ page[s] > 0
      BY <1>4, <2>2, <2>3
    <3>2. Prs!Reading(s) /\ Prs!Read(s) = page[s] * PageSize
      BY <3>1 DEF Prs!Reading, Prs!Read
    <3>3. Prs!Read(s) < Len(closed) /\ closed[k] = closed[Prs!Read(s) + 1]
      BY <1>4, <2>1, <2>2, <3>1, <3>2
    <3>4. closed[k] \in slipped'
      BY <1>1, <2>1, <3>1, <3>2, <3>3
    <3>5. QED BY <2>1, <3>4
  <2>5. Greatest(s, k)
    BY <1>2, <2>1, <2>4 DEF PrInv, PagesRead
  <2>6. ASSUME NEW j \in DOMAIN closed', j > i, closed'[j] \in mergedPrs
        PROVE  closed'[j] < closed'[i]
    <3>1. PICK l \in DOMAIN closed : closed'[j] = closed[l] /\ l = IF j < m THEN j ELSE j + 1
      BY <1>3, <1>4
    <3>2. l > k
      BY <1>3, <1>4, <2>3, <2>6, <3>1
    <3>3. QED BY <2>1, <2>5, <2>6, <3>1, <3>2 DEF Greatest
  <2>7. QED BY <1>2, <2>1, <2>5, <2>6 DEF Greatest
<1>8. QED BY <1>5, <1>6, <1>7 DEF PrInv

(* A page more: what is listed from it is smaller than what the pages before it left out. *)
LEMMA PageKeeps ==
    ASSUME PrInv, NEW s \in Sync, Prs!CollectMergedPrs(s)
    PROVE  PrInv'
<1> DEFINE shown == Prs!Range(Prs!PageOf(s))
           prs == listed[s] \cup {p \in shown \cap mergedPrs : p > since[s]}
           k == page[s] * PageSize
<1>1. /\ k \in Nat /\ (page[s] + 1) * PageSize = k + PageSize
      /\ \A i \in DOMAIN closed : i > k /\ i <= k + PageSize => closed[i] \in shown
      /\ \A q \in shown : \E i \in DOMAIN closed : i > k /\ q = closed[i]
      /\ Len(Prs!PageOf(s)) < PageSize => Len(closed) < k + PageSize
  BY PageHas DEF PrInv
<1>2. /\ closed' = closed /\ overtaken' = overtaken /\ slipped' = slipped
      /\ mark' = mark /\ judged' = judged /\ sPc[s] = "listing" /\ mergedPrs' = mergedPrs
  BY DEF Prs!CollectMergedPrs, Prs!github
<1>3. /\ closed \in Seq(Prs!Pr) /\ DOMAIN closed = 1..Len(closed) /\ Len(closed) \in Nat
      /\ \A i \in DOMAIN closed : closed[i] \in Prs!Pr
  BY DEF PrInv, PrTypes
<1>4. prs \in SUBSET Prs!Pr /\ prs \subseteq mergedPrs /\ \A q \in prs : q \in Nat
  <2>1. listed[s] \subseteq Prs!Pr /\ listed[s] \subseteq mergedPrs /\ mergedPrs \subseteq Prs!Pr
    BY DEF PrInv, PrTypes, Behind
  <2>2. \A q \in Prs!Pr : q \in Nat
    BY DEF Prs!Pr
  <2>3. QED BY <2>1, <2>2
(* What the pages up to this one leave out is greatest. *)
<1>5. ASSUME NEW i \in DOMAIN closed, i <= k + PageSize, closed[i] \in mergedPrs,
             closed[i] > since[s], closed[i] \notin overtaken \cup slipped \cup prs
      PROVE  /\ \A q \in prs : q < closed[i]
             /\ \A j \in DOMAIN closed : j > i /\ closed[j] \in mergedPrs => closed[j] < closed[i]
  <2>1. i <= k
    BY <1>1, <1>3, <1>5
  <2>2. Greatest(s, i)
    BY <1>2, <1>5, <2>1 DEF PrInv, PagesRead
  <2>3. ASSUME NEW q \in shown \cap mergedPrs PROVE q < closed[i]
    <3>1. PICK j \in DOMAIN closed : j > k /\ q = closed[j]
      BY <1>1
    <3>2. j > i
      BY <1>1, <1>3, <2>1, <3>1
    <3>3. QED BY <2>2, <2>3, <3>1, <3>2 DEF Greatest
  <2>4. QED BY <2>2, <2>3 DEF Greatest
<1> HIDE DEF shown, k, prs
<1>6. CASE Len(Prs!PageOf(s)) = PageSize /\ listed' = [listed EXCEPT ![s] = prs]
           /\ page' = [page EXCEPT ![s] = @ + 1] /\ sPc' = sPc /\ since' = since
  <2>1. PrTypes'
    BY <1>2, <1>4, <1>6 DEF PrInv, PrTypes
  <2>2. Behind'
    BY <1>2, <1>4, <1>6 DEF PrInv, PrTypes, Behind
  <2>3. ListsRead' /\ MarkIsHonest'
    BY <1>2, <1>6 DEF PrInv, PrTypes, ListsRead, MarkIsHonest, Prs!MarkIsHonest
  <2>4. PagesRead'
    <3> SUFFICES ASSUME NEW r \in Sync, sPc[r] = "listing", NEW i \in DOMAIN closed,
                        i <= page'[r] * PageSize, closed[i] \in mergedPrs, closed[i] > since[r],
                        closed[i] \notin overtaken \cup slipped \cup listed'[r]
                 PROVE  /\ \A q \in listed'[r] : q < closed[i]
                        /\ \A j \in DOMAIN closed :
                              j > i /\ closed[j] \in mergedPrs => closed[j] < closed[i]
      BY <1>2, <1>6 DEF PagesRead, Greatest
    <3>1. CASE r = s
      <4>1. listed'[r] = prs /\ page'[r] * PageSize = k + PageSize
        BY <1>1, <1>6, <3>1 DEF PrInv, PrTypes, k
      <4>2. QED BY <1>5, <3>1, <4>1
    <3>2. CASE r # s
      <4>1. listed'[r] = listed[r] /\ page'[r] = page[r]
        BY <1>6, <3>2 DEF PrInv, PrTypes
      <4>2. QED BY <4>1 DEF PrInv, PagesRead, Greatest
    <3>3. QED BY <3>1, <3>2
  <2>5. QED BY <2>1, <2>2, <2>3, <2>4 DEF PrInv
<1>7. ASSUME NEW done, (done = prs /\ Len(Prs!PageOf(s)) < PageSize) \/ done = {},
             Prs!Listed(s, done)
      PROVE  PrInv'
  <2>1. /\ listed' = [listed EXCEPT ![s] = done] /\ page' = [page EXCEPT ![s] = 0]
        /\ since' = [since EXCEPT ![s] = 0] /\ sPc' = [sPc EXCEPT ![s] = "published"]
    BY <1>7 DEF Prs!Listed, Prs!Goto
  <2>2. done \in SUBSET Prs!Pr /\ done \subseteq mergedPrs
    BY <1>4, <1>7
  <2>3. PrTypes'
    BY <1>2, <2>1, <2>2 DEF PrInv, PrTypes, SyncPc
  <2>4. Behind'
    <3>1. mark \in mergedPrs \cup {0} /\ mark \in Nat
      BY DEF PrInv, PrTypes, Behind
    <3>2. ASSUME NEW r \in Sync
          PROVE  /\ listed'[r] \subseteq mergedPrs /\ since'[r] <= mark
                 /\ sPc'[r] = "idle" => page'[r] = 0 /\ listed'[r] = {}
      <4>1. CASE r = s
        <5>1. listed'[r] = done /\ since'[r] = 0 /\ sPc'[r] = "published"
          BY <2>1, <4>1 DEF PrInv, PrTypes
        <5>2. QED BY <2>2, <3>1, <5>1
      <4>2. CASE r # s
        <5>1. listed'[r] = listed[r] /\ since'[r] = since[r] /\ sPc'[r] = sPc[r] /\ page'[r] = page[r]
          BY <2>1, <4>2 DEF PrInv, PrTypes
        <5>2. QED BY <5>1 DEF PrInv, Behind
      <4>3. QED BY <4>1, <4>2
    <3>3. QED BY <1>2, <3>1, <3>2 DEF Behind
  <2>5. PagesRead' /\ MarkIsHonest'
    BY <1>2, <2>1 DEF PrInv, PrTypes, PagesRead, Greatest, MarkIsHonest, Prs!MarkIsHonest
  <2>6. ListsRead'
    <3> SUFFICES ASSUME NEW r \in Sync, sPc'[r] \in {"published", "advance"},
                        NEW p \in mergedPrs \ (overtaken \cup slipped \cup listed'[r] \cup judged),
                        NEW q \in listed'[r]
                 PROVE  q < p
      BY <1>2, <2>1 DEF PrInv, PrTypes, ListsRead
    <3>1. CASE r = s
      <4>1. listed'[r] = done /\ done = prs /\ Len(Prs!PageOf(s)) < PageSize
        BY <1>7, <2>1, <3>1 DEF PrInv, PrTypes
      <4>2. PICK i \in DOMAIN closed : p = closed[i]
        BY DEF PrInv, PrTypes, Prs!Range
      <4>3. i <= k + PageSize
        BY <1>1, <1>3, <4>1, PageAssumption DEF k
      <4>4. closed[i] > since[s]
        <5>1. ~(p <= mark)
          BY DEF PrInv, MarkIsHonest, Prs!MarkIsHonest
        <5>2. p \in Nat /\ mark \in Nat /\ since[s] \in Nat /\ since[s] <= mark
          BY <1>3, <4>2 DEF PrInv, PrTypes, Behind, Prs!Pr
        <5>3. QED BY <4>2, <5>1, <5>2
      <4>5. QED BY <1>5, <4>1, <4>2, <4>3, <4>4
    <3>2. CASE r # s
      BY <2>1, <3>2 DEF PrInv, PrTypes, ListsRead
    <3>3. QED BY <3>1, <3>2
  <2>7. QED BY <2>3, <2>4, <2>5, <2>6 DEF PrInv
<1>8. QED BY <1>6, <1>7 DEF Prs!CollectMergedPrs, prs, shown

(* The other steps of a sync. *)
LEMMA SyncKeeps ==
    ASSUME PrInv, NEW s \in Sync, Prs!Run(s), ~Prs!CollectMergedPrs(s)
    PROVE  PrInv'
<1>1. closed' = closed /\ overtaken' = overtaken /\ slipped' = slipped /\ mergedPrs' = mergedPrs
  BY DEF Prs!Run, Prs!Work, Prs!ReadMark, Prs!SyncFails, Prs!Reconcile, Prs!AdvanceWatermark,
         Prs!Again, Prs!github
<1> USE <1>1 DEF Prs!Goto, PrInv, PrTypes, SyncPc
<1>2. CASE Prs!ReadMark(s)
  <2>1. mark' = mark /\ judged' = judged /\ listed' = listed /\ page' = page
        /\ sPc' = [sPc EXCEPT ![s] = "listing"] /\ since' \in [Sync -> Nat]
        /\ since'[s] \in {mark, 0} /\ (\A r \in Sync \ {s} : since'[r] = since[r])
        /\ sPc[s] = "idle" /\ page[s] = 0
    BY <1>2 DEF Prs!ReadMark, Behind
  <2>2. PrTypes' /\ Behind'
    BY <2>1 DEF Behind
  <2>3. ListsRead' /\ MarkIsHonest'
    BY <2>1 DEF ListsRead, MarkIsHonest, Prs!MarkIsHonest
  <2>4. PagesRead'
    <3>1. page[s] = 0
      BY ONLY <2>1
    <3>2. 0 * PageSize = 0
      BY ONLY PageAssumption
    <3>3. \A i \in DOMAIN closed : ~(i <= 0)
      OBVIOUS
    <3> SUFFICES ASSUME NEW r \in Sync, sPc'[r] = "listing", NEW i \in DOMAIN closed,
                        i <= page[r] * PageSize, closed[i] \in mergedPrs, closed[i] > since'[r],
                        closed[i] \notin overtaken \cup slipped \cup listed[r]
                 PROVE  Greatest(r, i)
      BY <2>1 DEF PagesRead, Greatest
    <3>4. ASSUME r = s PROVE FALSE
      BY ONLY <3>1, <3>2, <3>3, <3>4, i \in DOMAIN closed, i <= page[r] * PageSize
    <3>5. sPc[r] = "listing" /\ since'[r] = since[r]
      BY <2>1, <3>4
    <3>6. QED BY <3>5 DEF PagesRead
  <2>5. QED BY <2>2, <2>3, <2>4
<1>3. CASE Prs!SyncFails(s)
  <2>1. PrTypes' /\ Behind' /\ ListsRead' /\ MarkIsHonest'
    BY <1>3 DEF Prs!SyncFails, Behind, ListsRead, MarkIsHonest, Prs!MarkIsHonest
  <2>2. PagesRead'
    BY <1>3 DEF Prs!SyncFails, PagesRead, Greatest
  <2>3. QED BY <2>1, <2>2
<1>4. CASE Prs!Reconcile(s)
  <2>1. PrTypes' /\ Behind' /\ MarkIsHonest'
    BY <1>4 DEF Prs!Reconcile, Behind, MarkIsHonest, Prs!MarkIsHonest
  <2>2. ListsRead'
    BY <1>4 DEF Prs!Reconcile, ListsRead
  <2>3. PagesRead'
    BY <1>4 DEF Prs!Reconcile, PagesRead, Greatest
  <2>4. QED BY <2>1, <2>2, <2>3
<1>5. CASE Prs!AdvanceWatermark(s)
  <2>1. /\ listed' = listed /\ since' = since /\ page' = page /\ judged' = judged
        /\ sPc' = [sPc EXCEPT ![s] = "done"] /\ sPc[s] = "advance"
        /\ mark' \in {mark} \cup listed[s] /\ \A p \in {mark} \cup listed[s] : p <= mark'
    BY <1>5, MarkIsGreatest DEF Prs!AdvanceWatermark
  <2>2. mark \in Nat /\ mark' \in Nat /\ mark <= mark' /\ mergedPrs \subseteq Nat
    <3>1. listed[s] \subseteq Prs!Pr /\ mergedPrs \subseteq Prs!Pr /\ mark \in Nat
      OBVIOUS
    <3>2. \A q \in Prs!Pr : q \in Nat
      BY DEF Prs!Pr
    <3>3. QED BY ONLY <2>1, <3>1, <3>2
  <2>3. PrTypes' /\ Behind'
    BY <2>1, <2>2 DEF Behind
  <2>4. ListsRead'
    BY <2>1 DEF ListsRead
  <2>5. PagesRead'
    BY <2>1 DEF PagesRead, Greatest
  <2>6. MarkIsHonest'
    <3> SUFFICES ASSUME NEW p \in mergedPrs \ (overtaken \cup slipped), p <= mark', p \notin judged
                 PROVE  FALSE
      BY <2>1 DEF MarkIsHonest, Prs!MarkIsHonest
    <3>1. mark' \in listed[s]
      BY <2>1 DEF MarkIsHonest, Prs!MarkIsHonest
    <3>2. p \notin listed[s]
      BY <2>1 DEF ListsRead
    <3>3. mark' < p
      BY <2>1, <3>1, <3>2 DEF ListsRead
    <3>4. QED BY <2>2, <3>3
  <2>7. QED BY <2>3, <2>4, <2>5, <2>6
<1>6. CASE Prs!Again(s)
  <2>1. PrTypes' /\ Behind' /\ ListsRead' /\ MarkIsHonest'
    BY <1>6 DEF Prs!Again, Behind, ListsRead, MarkIsHonest, Prs!MarkIsHonest
  <2>2. PagesRead'
    BY <1>6 DEF Prs!Again, PagesRead, Greatest
  <2>3. QED BY <2>1, <2>2
<1>7. QED BY <1>2, <1>3, <1>4, <1>5, <1>6 DEF Prs!Run, Prs!Work

(* Overlapping syncs, merges and closings while a list is read, failed lists, failed model   *)
(* calls and crashes only make the watermark lag: it passes no pull request that was not         *)
(* compared, but those merged when a greater number was listed already and those that a touch     *)
(* or a reopening moved between two pages (pr_actions.py:151-173, repository.py:322-341).           *)
THEOREM MarkAlwaysHonest == Prs!Spec => []MarkIsHonest
<1>1. Prs!Init => PrInv
  <2> SUFFICES ASSUME Prs!Init PROVE PrInv
    OBVIOUS
  <2>1. closed = <<>> /\ mergedPrs = {}
    BY DEF Prs!Init
  <2>2. QED BY <2>1 DEF Prs!Init, PrInv, PrTypes, SyncPc, Behind, PagesRead, ListsRead,
                        MarkIsHonest, Prs!MarkIsHonest
<1>2. PrInv /\ [Prs!Next]_(Prs!vars) => PrInv'
  <2>1. ASSUME PrInv, Prs!Next PROVE PrInv'
    BY <2>1, MergeKeeps, CloseKeeps, TouchKeeps, ReopenKeeps, PageKeeps, SyncKeeps DEF Prs!Next
  <2>2. ASSUME PrInv, UNCHANGED Prs!vars PROVE PrInv'
    BY <2>2 DEF Prs!vars, PrInv, PrTypes, Behind, PagesRead, ListsRead, Greatest,
                MarkIsHonest, Prs!MarkIsHonest
  <2>3. QED BY <2>1, <2>2
<1>3. PrInv => MarkIsHonest
  BY DEF PrInv
<1>4. QED BY <1>1, <1>2, <1>3, PTL DEF Prs!Spec

-----------------------------------------------------------------------------
(* SchemaUpgrade. *)
(* What a row says is possible: a file has its row, a row that has not failed has its  *)
(* file, and a size that is filled in is that of the file.                                *)
Fits(d, r) ==
    /\ d \in file => r.path
    /\ r.path /\ r.status # "failed" => d \in file
    /\ r.size # "null" => r.size = (IF d \in file THEN "of file" ELSE "zero") /\ (r.path <=> d \in file)
DocRows == [Doc -> [status : Schema!Status, path : BOOLEAN, size : Schema!Sizes]]
SchemaTypes ==
    /\ doc \in DocRows /\ work \in BOOLEAN \X DocRows /\ dangling \in BOOLEAN
    /\ stage \in {"down", "runtime", "v8", "v9", "serving"} /\ at \in Nat
    /\ at >= 1 /\ (stage \in DOMAIN Schema!Script => at <= Len(Schema!Script[stage]))
    /\ installed \cap Schema!Special = {}
(* Committed rows and those of the open transaction fit; what is committed stays filled in. *)
RowsFit ==
    \A d \in Doc : /\ Fits(d, doc[d]) /\ Fits(d, work[2][d])
                   /\ work[2][d].status = doc[d].status
                   /\ doc[d].size # "null" => work[2][d].size # "null"
(* The statements of v9 before the present one have had their effect. *)
V9Progress ==
    stage = "v9" =>
        /\ \A i \in 1..(at - 1) : Schema!V9Script[i] \in installed \cup Schema!Special
        /\ at > 11 => \A d \in Doc : work[2][d].size # "null"
Served ==
    stage = "serving" =>
        /\ Schema!V9Objects \subseteq installed /\ active = "published"
        /\ work = <<dangling, doc>> /\ \A d \in Doc : doc[d].size # "null"
SchemaInv == SchemaTypes /\ RowsFit /\ V9Progress /\ Served

(* Where the statements are that have no object of their own. *)
LEMMA Scripts ==
    /\ DOMAIN Schema!Script = {"runtime", "v8", "v9"}
    /\ Schema!Script["v9"] = Schema!V9Script /\ Len(Schema!V9Script) = 19
    /\ Len(Schema!Script["runtime"]) = 7 /\ Len(Schema!Script["v8"]) = 3
    /\ \A i \in 1..19 : /\ Schema!V9Script[i] = "backfill" <=> i = 11
                        /\ Schema!V9Script[i] = "published_view" <=> i = 19
                        /\ Schema!V9Script[i] \notin {"raw_view", "clear_dangling"}
    /\ \A n \in {"runtime", "v8"} : \A i \in 1..Len(Schema!Script[n]) :
          Schema!Script[n][i] \notin {"backfill", "published_view"}
<1>1. /\ DOMAIN Schema!Script = {"runtime", "v8", "v9"}
      /\ Schema!Script["runtime"] = Schema!RuntimeScript
      /\ Schema!Script["v8"] = Schema!V8Script
      /\ Schema!Script["v9"] = Schema!V9Script
  BY DEF Schema!Script
<1>2. /\ Len(Schema!V9Script) = 19
      /\ \A i \in 1..19 : /\ Schema!V9Script[i] = "backfill" <=> i = 11
                          /\ Schema!V9Script[i] = "published_view" <=> i = 19
                          /\ Schema!V9Script[i] \notin {"raw_view", "clear_dangling"}
  BY DEF Schema!V9Script
<1>3. Len(Schema!V8Script) = 3 /\ \A i \in 1..3 : Schema!V8Script[i] \notin {"backfill", "published_view"}
  BY DEF Schema!V8Script
<1>4. Len(Schema!RuntimeScript) = 7 /\ \A i \in 1..7 : Schema!RuntimeScript[i] \notin {"backfill", "published_view"}
  BY DEF Schema!RuntimeScript
<1>5. QED BY <1>1, <1>2, <1>3, <1>4

LEMMA Followings ==
    Schema!Following["runtime"] = "v8" /\ Schema!Following["v8"] = "v9"
    /\ Schema!Following["v9"] = "serving"
BY DEF Schema!Following

(* A statement that is done: the next one runs, or after the last one the next function, *)
(* or requests are served.                                                                  *)
LEMMA AdvanceKeeps ==
    ASSUME SchemaInv, NEW s, Schema!At(s), Schema!Advance, SchemaTypes',
           installed \subseteq installed', s \in installed' \cup Schema!Special,
           \A d \in Doc : work[2][d].size # "null" \/ s = "backfill" => work'[2][d].size # "null",
           s = "published_view" => active' = "published",
           stage = "v9" /\ Schema!AtEnd => dangling' = work'[1] /\ doc' = work'[2]
    PROVE  V9Progress' /\ Served'
<1>1. stage \in DOMAIN Schema!Script /\ Schema!Script[stage][at] = s /\ at \in 1..Len(Schema!Script[stage])
  BY DEF Schema!At, SchemaInv, SchemaTypes
<1>2. CASE stage # "v9"
  <2>1. stage' # "serving" /\ (stage' = "v9" => at' = 1)
    BY <1>1, <1>2, Scripts, Followings DEF Schema!Advance
  <2>2. QED BY <2>1 DEF V9Progress, Served
<1>3. CASE stage = "v9" /\ at < 19
  <2>1. stage' = "v9" /\ at' = at + 1 /\ at \in 1..18 /\ Schema!V9Script[at] = s
    BY <1>1, <1>3, Scripts DEF Schema!Advance
  <2>2. \A i \in 1..at : Schema!V9Script[i] \in installed' \cup Schema!Special
    BY <1>3, <2>1 DEF SchemaInv, V9Progress
  <2>3. at' > 11 => \A d \in Doc : work'[2][d].size # "null"
    BY <1>3, <2>1, Scripts DEF SchemaInv, V9Progress
  <2>4. QED BY <2>1, <2>2, <2>3 DEF V9Progress, Served
<1>4. CASE stage = "v9" /\ at = 19
  <2>1. stage' = "serving" /\ s = "published_view" /\ Schema!AtEnd
    BY <1>1, <1>4, Scripts, Followings DEF Schema!Advance, Schema!AtEnd
  <2>2. active' = "published" /\ dangling' = work'[1] /\ doc' = work'[2]
    BY <1>4, <2>1
  <2>3. work' = <<dangling', doc'>>
    BY <2>2 DEF SchemaTypes
  <2>4. \A i \in 1..18 : Schema!V9Script[i] \in installed' \cup Schema!Special
    BY <1>4 DEF SchemaInv, V9Progress
  <2>5. (Schema!V9Objects \subseteq installed)'
    <3>1. DOMAIN Schema!V9Script = 1..19
      BY DEF Schema!V9Script
    <3>2. QED BY <2>4, <3>1, Scripts DEF Schema!V9Objects, Schema!Range, Schema!Special
  <2>6. \A d \in Doc : doc'[d].size # "null"
    BY <1>4, <2>2 DEF SchemaInv, V9Progress
  <2>7. QED BY <2>1, <2>2, <2>3, <2>5, <2>6 DEF V9Progress, Served
<1>5. stage = "v9" => at \in 1..19
  BY <1>1, Scripts
<1>6. QED BY <1>2, <1>3, <1>4, <1>5

(* Where the script goes on from a statement. *)
LEMMA AdvanceTypes ==
    ASSUME SchemaTypes, NEW s, Schema!At(s), Schema!Advance
    PROVE  /\ stage' \in {"down", "runtime", "v8", "v9", "serving"} /\ at' \in Nat /\ at' >= 1
           /\ stage' \in DOMAIN Schema!Script => at' <= Len(Schema!Script[stage'])
<1>1. stage \in {"runtime", "v8", "v9"}
  BY Scripts DEF Schema!At
<1>2. CASE at < Len(Schema!Script[stage])
  <2>1. at' = at + 1 /\ stage' = stage /\ Len(Schema!Script[stage]) \in Nat
    BY <1>1, <1>2, Scripts DEF Schema!Advance
  <2>2. at \in Nat /\ stage' \in {"runtime", "v8", "v9"}
    BY <1>1, <2>1 DEF SchemaTypes
  <2>3. at' \in Nat /\ at' >= 1 /\ at' <= Len(Schema!Script[stage])
    BY <1>2, <2>1, <2>2
  <2>4. stage' = stage
    BY <2>1
  <2>5. QED BY <2>2, <2>3, <2>4
<1>3. CASE ~(at < Len(Schema!Script[stage]))
  <2>1. at' = 1 /\ stage' = Schema!Following[stage]
    BY <1>3 DEF Schema!Advance
  <2>2. CASE stage = "runtime"
    <3>1. stage' = "v8" /\ Len(Schema!Script[stage']) = 3
      BY <2>1, <2>2, Scripts, Followings
    <3>2. QED BY <2>1, <3>1
  <2>3. CASE stage = "v8"
    BY <2>1, <2>3, Scripts, Followings
  <2>4. CASE stage = "v9"
    BY <2>1, <2>4, Scripts, Followings
  <2>5. QED BY <1>1, <2>2, <2>3, <2>4
<1>4. QED BY <1>2, <1>3

LEMMA SecondOfPair ==
    ASSUME NEW a, NEW b, NEW c
    PROVE  [<<a, b>> EXCEPT ![2] = c] = <<a, c>>
OBVIOUS

(* One row more is filled in, in the open transaction. *)
LEMMA RowFilled ==
    ASSUME SchemaInv, NEW d \in Doc, NEW size \in Schema!Sizes, NEW path \in BOOLEAN,
           Schema!Sized(d, size, path)
    PROVE  /\ work'[1] = work[1] /\ work' \in BOOLEAN \X DocRows
           /\ \A e \in Doc \ {d} : work'[2][e] = work[2][e]
           /\ work'[2][d] = [status |-> work[2][d].status, path |-> path, size |-> size]
<1>1. work \in BOOLEAN \X DocRows
  BY DEF SchemaInv, SchemaTypes
<1>2. work' = [work EXCEPT ![2] = [[@ EXCEPT ![d].size = size] EXCEPT ![d].path = path]]
  BY DEF Schema!Sized
<1> DEFINE rows == work[2]
           filled == [[rows EXCEPT ![d].size = size] EXCEPT ![d].path = path]
<1>3. work = <<work[1], rows>> /\ work[1] \in BOOLEAN /\ rows \in DocRows
  BY <1>1
<1>4. work' = [work EXCEPT ![2] = filled]
  BY <1>2
<1>5. /\ filled \in DocRows /\ \A e \in Doc \ {d} : filled[e] = rows[e]
      /\ filled[d] = [status |-> rows[d].status, path |-> path, size |-> size]
  BY <1>3 DEF DocRows
<1> HIDE DEF filled
<1>6. work' = <<work[1], filled>>
  BY ONLY <1>3, <1>4, SecondOfPair
<1> HIDE DEF rows
<1>7. work'[1] = work[1] /\ work'[2] = filled /\ work' \in BOOLEAN \X DocRows
  BY <1>3, <1>5, <1>6
<1>8. QED BY <1>5, <1>7 DEF rows

(* The backfill takes the first row whose size is not filled in. *)
LEMMA FirstUnsized ==
    ASSUME Schema!Unsized # {}
    PROVE  (CHOOSE d \in Schema!Unsized : \A e \in Schema!Unsized : d <= e) \in Schema!Unsized
<1>1. Schema!Unsized \in SUBSET Nat
  BY DocAssumption DEF Schema!Unsized
<1>2. QED BY <1>1, LeastNumber

(* A change of the schema commits what the open transaction wrote. *)
LEMMA CommitFits ==
    ASSUME SchemaInv, Schema!Commit, work' = work, file' = file
    PROVE  RowsFit' /\ doc' \in DocRows /\ dangling' \in BOOLEAN /\ work' \in BOOLEAN \X DocRows
<1>1. dangling' = work[1] /\ doc' = work[2]
  BY DEF Schema!Commit
<1>2. work \in BOOLEAN \X DocRows
  BY DEF SchemaInv, SchemaTypes
<1>3. \A d \in Doc : Fits(d, work[2][d])' <=> Fits(d, work[2][d])
  BY DEF Fits
<1>4. \A d \in Doc : Fits(d, doc[d])' <=> Fits(d, work[2][d])
  BY <1>1 DEF Fits
<1>5. QED BY <1>1, <1>2, <1>3, <1>4 DEF SchemaInv, RowsFit

(* A transaction that is given up leaves what is committed. *)
LEMMA RollbackFits ==
    ASSUME SchemaInv, Schema!Rollback, file' = file
    PROVE  /\ RowsFit' /\ doc' \in DocRows /\ dangling' \in BOOLEAN /\ work' \in BOOLEAN \X DocRows
           /\ work' = <<dangling', doc'>>
<1>1. work' = <<dangling, doc>> /\ dangling' = dangling /\ doc' = doc
  BY DEF Schema!Rollback, Schema!Keep
<1>2. work'[2] = doc /\ work' \in BOOLEAN \X DocRows
  BY <1>1 DEF SchemaInv, SchemaTypes
<1>3. \A d \in Doc : Fits(d, work[2][d])' <=> Fits(d, doc[d])
  BY <1>2 DEF Fits
<1>4. \A d \in Doc : Fits(d, doc[d])' <=> Fits(d, doc[d])
  BY <1>1 DEF Fits
<1>5. QED BY <1>1, <1>2, <1>3, <1>4 DEF SchemaInv, SchemaTypes, RowsFit

LEMMA SkipKeeps ==
    ASSUME SchemaInv, Schema!Skip
    PROVE  SchemaInv'
<1>1. PICK s \in installed : Schema!At(s)
  BY DEF Schema!Skip
<1>2. /\ Schema!Advance /\ work' = work /\ installed' = installed /\ file' = file
      /\ IF Schema!AtEnd THEN Schema!Commit ELSE Schema!Keep
  BY DEF Schema!Skip
<1>3. RowsFit' /\ doc' \in DocRows /\ dangling' \in BOOLEAN /\ work' \in BOOLEAN \X DocRows
  <2>1. CASE Schema!AtEnd
    BY <1>2, <2>1, CommitFits
  <2>2. CASE ~Schema!AtEnd
    <3>1. doc' = doc /\ dangling' = dangling
      BY <1>2, <2>2 DEF Schema!Keep
    <3>2. QED BY <1>2, <3>1 DEF SchemaInv, SchemaTypes, RowsFit, Fits
  <2>3. QED BY <2>1, <2>2
<1>4. SchemaTypes'
  BY <1>1, <1>2, <1>3, AdvanceTypes DEF SchemaInv, SchemaTypes
<1>5. s \notin Schema!Special
  BY DEF SchemaInv, SchemaTypes
<1>6. V9Progress' /\ Served'
  BY <1>1, <1>2, <1>4, <1>5, AdvanceKeeps DEF Schema!Commit, Schema!Special
<1>7. QED BY <1>3, <1>4, <1>6 DEF SchemaInv

LEMMA InstallKeeps ==
    ASSUME SchemaInv, Schema!Install
    PROVE  SchemaInv'
<1> DEFINE s == Schema!Script[stage][at]
<1>1. Schema!At(s) /\ s \notin Schema!Special /\ installed' = installed \cup {s}
  BY DEF Schema!Install, Schema!At
<1>2. Schema!Advance /\ work' = work /\ file' = file /\ Schema!Commit
  BY DEF Schema!Install
<1> HIDE DEF s
<1>3. RowsFit' /\ doc' \in DocRows /\ dangling' \in BOOLEAN /\ work' \in BOOLEAN \X DocRows
  BY <1>2, CommitFits
<1>4. SchemaTypes'
  BY <1>1, <1>2, <1>3, AdvanceTypes DEF SchemaInv, SchemaTypes
<1>5. V9Progress' /\ Served'
  BY <1>1, <1>2, <1>4, AdvanceKeeps DEF Schema!Commit, Schema!Special
<1>6. QED BY <1>3, <1>4, <1>5 DEF SchemaInv

LEMMA ViewKeeps ==
    ASSUME SchemaInv, Schema!ReplaceView("raw_view", "raw")
                      \/ Schema!ReplaceView("published_view", "published")
    PROVE  SchemaInv'
<1>1. PICK s \in {"raw_view", "published_view"} :
          Schema!At(s) /\ (s = "published_view" => active' = "published")
  BY DEF Schema!ReplaceView
<1>2. Schema!Advance /\ work' = work /\ file' = file /\ Schema!Commit /\ installed' = installed
  BY DEF Schema!ReplaceView
<1>3. RowsFit' /\ doc' \in DocRows /\ dangling' \in BOOLEAN /\ work' \in BOOLEAN \X DocRows
  BY <1>2, CommitFits
<1>4. SchemaTypes'
  BY <1>1, <1>2, <1>3, AdvanceTypes DEF SchemaInv, SchemaTypes
<1>5. V9Progress' /\ Served'
  BY <1>1, <1>2, <1>4, AdvanceKeeps DEF Schema!Commit, Schema!Special
<1>6. QED BY <1>3, <1>4, <1>5 DEF SchemaInv

LEMMA ClearKeeps ==
    ASSUME SchemaInv, Schema!ClearDangling
    PROVE  SchemaInv'
<1>1. /\ Schema!At("clear_dangling") /\ Schema!Advance /\ doc' = doc /\ dangling' = dangling
      /\ work' \in {work, <<FALSE, work[2]>>} /\ installed' = installed /\ file' = file
  BY DEF Schema!ClearDangling, Schema!Keep
<1>2. work' \in BOOLEAN \X DocRows /\ work'[2] = work[2]
  <2>1. work \in BOOLEAN \X DocRows /\ work[2] \in DocRows
    BY DEF SchemaInv, SchemaTypes
  <2>2. CASE work' = work
    BY <2>1, <2>2
  <2>3. CASE work' = <<FALSE, work[2]>>
    BY <2>1, <2>3
  <2>4. QED BY <1>1, <2>2, <2>3
<1>3. SchemaTypes'
  BY <1>1, <1>2, AdvanceTypes DEF SchemaInv, SchemaTypes
<1>4. RowsFit'
  BY <1>1, <1>2 DEF SchemaInv, RowsFit, Fits
<1>5. stage # "v9"
  <2> SUFFICES ASSUME stage = "v9" PROVE FALSE
    OBVIOUS
  <2>1. Len(Schema!Script[stage]) = 19 /\ Schema!Script[stage] = Schema!V9Script
    BY Scripts
  <2>2. at \in 1..19 /\ Schema!V9Script[at] = "clear_dangling"
    BY <1>1, <2>1 DEF Schema!At, SchemaInv, SchemaTypes
  <2>3. QED BY <2>2, Scripts
<1>6. V9Progress' /\ Served'
  BY <1>1, <1>2, <1>3, <1>5, AdvanceKeeps DEF Schema!Special
<1>7. QED BY <1>3, <1>4, <1>6 DEF SchemaInv

LEMMA BackfilledKeeps ==
    ASSUME SchemaInv, Schema!Backfilled
    PROVE  SchemaInv'
<1>1. /\ Schema!At("backfill") /\ Schema!Advance /\ doc' = doc /\ dangling' = dangling
      /\ work' = work /\ installed' = installed /\ file' = file
      /\ \A d \in Doc : work[2][d].size # "null"
  BY DEF Schema!Backfilled, Schema!Keep, Schema!Unsized
<1>2. SchemaTypes'
  BY <1>1, AdvanceTypes DEF SchemaInv, SchemaTypes
<1>3. RowsFit'
  BY <1>1 DEF SchemaInv, RowsFit, Fits
<1>4. ~(stage = "v9" /\ Schema!AtEnd)
  <2> SUFFICES ASSUME stage = "v9" PROVE at # Len(Schema!Script[stage])
    BY DEF Schema!AtEnd
  <2>1. Len(Schema!Script[stage]) = 19 /\ at \in 1..19 /\ Schema!V9Script[at] = "backfill"
    BY <1>1, Scripts DEF Schema!At, SchemaInv, SchemaTypes
  <2>2. QED BY <2>1, Scripts
<1>5. V9Progress' /\ Served'
  BY <1>1, <1>2, <1>4, AdvanceKeeps DEF Schema!Special
<1>6. QED BY <1>2, <1>3, <1>5 DEF SchemaInv

(* The row that is filled in fits its file, deleted or not; no other row loses its file. *)
LEMMA BackfillKeeps ==
    ASSUME SchemaInv, Schema!BackfillNext
    PROVE  SchemaInv'
<1>1. PICK d \in Schema!Unsized : Schema!Backfill(d)
  BY FirstUnsized DEF Schema!BackfillNext
<1>2. /\ doc' = doc /\ dangling' = dangling /\ installed' = installed /\ active' = active
      /\ stage' = stage /\ at' = at /\ Schema!At("backfill")
  BY DEF Schema!BackfillNext, Schema!Keep
<1>3. d \in Doc /\ work[2][d].size = "null" /\ doc[d].size = "null" /\ doc \in DocRows
      /\ work[2] \in DocRows
  <2>1. d \in Doc /\ work[2][d].size = "null"
    BY DEF Schema!Unsized
  <2>2. QED BY <2>1 DEF SchemaInv, SchemaTypes, RowsFit
<1>4. /\ \/ d \in file' /\ Schema!Sized(d, "of file", TRUE)
         \/ d \notin file' /\ Schema!Sized(d, "zero", FALSE)
      /\ file' \subseteq file /\ \A e \in Doc \ {d} : e \in file' <=> e \in file
      /\ work[2][d].status # "failed" => (d \in file' <=> d \in file)
  <2>1. CASE work[2][d].status = "failed"
    <3>1. file' = file \ {d} /\ Schema!Sized(d, "zero", FALSE)
      BY <1>1, <2>1 DEF Schema!Backfill
    <3>2. QED BY <2>1, <3>1
  <2>2. CASE work[2][d].status # "failed"
    <3>1. /\ work[2][d].path => d \in file
          /\ Schema!Sized(d, IF work[2][d].path THEN "of file" ELSE "zero", work[2][d].path)
          /\ file' = file
      BY <1>1, <2>2 DEF Schema!Backfill
    <3>2. work[2][d].path \in BOOLEAN /\ (d \in file => work[2][d].path)
      BY <1>3 DEF SchemaInv, RowsFit, Fits, DocRows
    <3>3. CASE work[2][d].path = TRUE
      <4>1. d \in file /\ Schema!Sized(d, "of file", TRUE)
        BY <3>1, <3>3
      <4>2. QED BY <3>1, <4>1
    <3>4. CASE work[2][d].path = FALSE
      <4>1. d \notin file /\ Schema!Sized(d, "zero", FALSE)
        BY <3>1, <3>2, <3>4
      <4>2. QED BY <3>1, <4>1
    <3>5. QED BY <3>2, <3>3, <3>4
  <2>3. QED BY <2>1, <2>2
<1>5. /\ work' \in BOOLEAN \X DocRows
      /\ \A e \in Doc \ {d} : work'[2][e] = work[2][e]
      /\ work'[2][d].status = work[2][d].status
      /\ \/ d \in file' /\ work'[2][d].size = "of file" /\ work'[2][d].path = TRUE
         \/ d \notin file' /\ work'[2][d].size = "zero" /\ work'[2][d].path = FALSE
  <2>1. CASE d \in file' /\ Schema!Sized(d, "of file", TRUE)
    <3>1. "of file" \in Schema!Sizes /\ Schema!Sized(d, "of file", TRUE)
      BY <2>1 DEF Schema!Sizes
    <3>2. /\ work' \in BOOLEAN \X DocRows
          /\ \A e \in Doc \ {d} : work'[2][e] = work[2][e]
          /\ work'[2][d] = [status |-> work[2][d].status, path |-> TRUE, size |-> "of file"]
      BY <1>3, <3>1, RowFilled
    <3>3. /\ work'[2][d].status = work[2][d].status
          /\ work'[2][d].size = "of file" /\ work'[2][d].path = TRUE
      <4> DEFINE r == work'[2][d]
                 st == work[2][d].status
      <4>1. r = [status |-> st, path |-> TRUE, size |-> "of file"]
        BY <3>2
      <4> HIDE DEF r, st
      <4>2. r.status = st
        BY <4>1
      <4>3. r.size = "of file"
        BY <4>1
      <4>4. r.path = TRUE
        BY <4>1
      <4>5. QED BY <4>2, <4>3, <4>4 DEF r, st
    <3>4. QED BY <2>1, <3>2, <3>3, Zenon
  <2>2. CASE d \notin file' /\ Schema!Sized(d, "zero", FALSE)
    <3>1. "zero" \in Schema!Sizes /\ Schema!Sized(d, "zero", FALSE)
      BY <2>2 DEF Schema!Sizes
    <3>2. /\ work' \in BOOLEAN \X DocRows
          /\ \A e \in Doc \ {d} : work'[2][e] = work[2][e]
          /\ work'[2][d] = [status |-> work[2][d].status, path |-> FALSE, size |-> "zero"]
      BY <1>3, <3>1, RowFilled
    <3>3. QED BY <2>2, <3>2
  <2> HIDE DEF DocRows
  <2>3. QED BY ONLY <1>4, <2>1, <2>2, Zenon
<1>6. SchemaTypes'
  BY <1>2, <1>5 DEF SchemaInv, SchemaTypes
<1>7. RowsFit'
  <2> SUFFICES ASSUME NEW e \in Doc
               PROVE  /\ Fits(e, doc[e])' /\ Fits(e, work[2][e])'
                      /\ work'[2][e].status = doc'[e].status
                      /\ doc'[e].size # "null" => work'[2][e].size # "null"
    BY DEF RowsFit
  <2>1. /\ Fits(e, doc[e]) /\ Fits(e, work[2][e]) /\ doc'[e] = doc[e]
        /\ work[2][e].status = doc[e].status
        /\ doc[e].size # "null" => work[2][e].size # "null"
    BY <1>2 DEF SchemaInv, RowsFit
  <2>2. CASE e = d
    <3>1. Fits(e, work[2][e])'
      BY <1>5, <2>2 DEF Fits
    <3>2. /\ doc'[e].size = "null" /\ work'[2][e].status = doc'[e].status
          /\ doc'[e].status # "failed" => (e \in file' <=> e \in file)
          /\ e \in file' => e \in file
      BY <1>3, <1>4, <1>5, <2>1, <2>2
    <3>3. Fits(e, doc[e])'
      BY <2>1, <3>2 DEF Fits
    <3>4. QED BY <3>1, <3>2, <3>3
  <2>3. CASE e # d
    <3>1. work'[2][e] = work[2][e] /\ (e \in file' <=> e \in file)
      BY <1>4, <1>5, <2>3
    <3>2. Fits(e, doc[e])' /\ Fits(e, work[2][e])'
      BY <2>1, <3>1 DEF Fits
    <3>3. QED BY <2>1, <3>1, <3>2
  <2>4. QED BY <2>2, <2>3
<1>8. ~(stage = "v9" /\ at > 11) /\ stage # "serving"
  <2>1. stage # "serving"
    BY <1>2, Scripts DEF Schema!At
  <2>2. ASSUME stage = "v9" PROVE at = 11
    BY <1>2, <2>2, Scripts DEF Schema!At, SchemaInv, SchemaTypes
  <2>3. QED BY <2>1, <2>2
<1>9. V9Progress' /\ Served'
  BY <1>2, <1>8 DEF SchemaInv, V9Progress, Served
<1>10. QED BY <1>6, <1>7, <1>9 DEF SchemaInv

(* Whatever fails or dies, what was committed stays, and the function starts over. *)
LEMMA StopKeeps ==
    ASSUME SchemaInv, Schema!Refused \/ Schema!Fails \/ Schema!Dies
    PROVE  SchemaInv'
<1>1. /\ Schema!Rollback /\ installed' = installed /\ file' = file /\ at' = 1
      /\ stage' \in {"down", "v8", "v9"}
  <2>1. CASE Schema!Abandon
    <3>1. stage \in {"runtime", "v8", "v9"}
      BY <2>1, Scripts DEF Schema!Abandon
    <3>2. QED BY <2>1, <3>1, Followings DEF Schema!Abandon
  <2>2. CASE Schema!Dies
    BY <2>2 DEF Schema!Dies
  <2>3. QED BY <2>1, <2>2 DEF Schema!Refused, Schema!Fails
<1>2. RowsFit' /\ doc' \in DocRows /\ dangling' \in BOOLEAN /\ work' \in BOOLEAN \X DocRows
  BY <1>1, RollbackFits
<1>3. stage' \in DOMAIN Schema!Script => Len(Schema!Script[stage']) \in {3, 7, 19}
  BY <1>1, Scripts
<1>4. installed' \cap Schema!Special = {}
  BY <1>1 DEF SchemaInv, SchemaTypes
<1>5. SchemaTypes'
  <2>1. at' \in Nat /\ at' >= 1
    BY <1>1
  <2>2. stage' \in DOMAIN Schema!Script => at' <= Len(Schema!Script[stage'])
    <3> DEFINE n == Len(Schema!Script[stage'])
    <3> SUFFICES ASSUME n \in {3, 7, 19} PROVE at' <= n
      BY <1>3, Zenon
    <3> HIDE DEF n
    <3>1. at' = 1
      BY <1>1
    <3>2. QED BY ONLY <3>1, n \in {3, 7, 19}
  <2>3. QED BY <1>1, <1>2, <1>4, <2>1, <2>2 DEF SchemaTypes
<1>6. V9Progress' /\ Served'
  BY <1>1 DEF V9Progress, Served
<1>7. QED BY <1>2, <1>5, <1>6 DEF SchemaInv

LEMMA StartKeeps ==
    ASSUME SchemaInv, Schema!Start
    PROVE  SchemaInv'
<1>1. /\ installed' = installed /\ file' = file /\ work' = work /\ doc' = doc
      /\ dangling' = dangling /\ stage' = "runtime" /\ at' = 1
  BY DEF Schema!Start
<1>2. SchemaTypes'
  BY <1>1, Scripts DEF SchemaInv, SchemaTypes
<1>3. RowsFit'
  BY <1>1 DEF SchemaInv, RowsFit, Fits
<1>4. V9Progress' /\ Served'
  BY <1>1 DEF V9Progress, Served
<1>5. QED BY <1>2, <1>3, <1>4 DEF SchemaInv

LEMMA SchemaStart == Schema!Init => SchemaInv
<1> SUFFICES ASSUME Schema!Init PROVE SchemaInv
  OBVIOUS
<1>1. stage = "down" /\ at = 1 /\ work = <<dangling, doc>> /\ doc \in DocRows /\ dangling \in BOOLEAN
  BY DEF Schema!Init, DocRows
<1>2. installed \cap Schema!Special = {}
  <2>1. Schema!Range(Schema!RuntimeScript) \cap Schema!Special = {}
    BY DEF Schema!RuntimeScript, Schema!Special, Schema!Range
  <2>2. Schema!V9Objects \cap Schema!Special = {}
    <3>1. DOMAIN Schema!V9Script = 1..19
      BY DEF Schema!V9Script
    <3>2. QED BY <3>1, Scripts DEF Schema!V9Objects, Schema!Range, Schema!Special
  <2>3. "fk_superseded_by" \notin Schema!Special
    BY DEF Schema!Special
  <2>4. QED BY <2>1, <2>2, <2>3 DEF Schema!Init
<1>3. SchemaTypes
  BY <1>1, <1>2, Scripts DEF SchemaTypes
<1>4. \A d \in Doc : Fits(d, doc[d])
  BY <1>1 DEF Schema!Init, Fits, DocRows
<1>5. RowsFit
  BY <1>1, <1>4 DEF RowsFit
<1>6. QED BY <1>1, <1>3, <1>5 DEF SchemaInv, V9Progress, Served

(* Requests are served on the whole v9 schema only, with every document charged for the  *)
(* file it has, whichever statements of earlier starts failed or were cut short              *)
(* (startup.py:154, main.py:143-146).                                                           *)
THEOREM AlwaysServedWhole == Schema!Spec => []ServedWhole
<1>1. SchemaInv /\ [Schema!Next]_(Schema!vars) => SchemaInv'
  <2>1. ASSUME SchemaInv, Schema!Next PROVE SchemaInv'
    BY <2>1, SkipKeeps, InstallKeeps, ViewKeeps, ClearKeeps, BackfilledKeeps, BackfillKeeps,
       StopKeeps, StartKeeps DEF Schema!Next, Schema!Run
  <2>2. ASSUME SchemaInv, UNCHANGED Schema!vars PROVE SchemaInv'
    BY <2>2 DEF Schema!vars, SchemaInv, SchemaTypes, RowsFit, Fits, V9Progress, Served
  <2>3. QED BY <2>1, <2>2
<1>2. SchemaInv => ServedWhole
  <2> SUFFICES ASSUME SchemaInv PROVE ServedWhole
    OBVIOUS
  <2>1. ASSUME NEW d \in Doc
        PROVE  /\ d \in file => doc[d].path
               /\ doc[d].path /\ doc[d].status # "failed" => d \in file
               /\ stage = "serving" => /\ doc[d].size = IF d \in file THEN "of file" ELSE "zero"
                                       /\ doc[d].path = (d \in file)
    <3>1. Fits(d, doc[d]) /\ doc[d].path \in BOOLEAN
      BY DEF SchemaInv, SchemaTypes, DocRows, RowsFit
    <3>2. stage = "serving" => doc[d].size # "null"
      BY DEF SchemaInv, Served
    <3>3. CASE d \in file
      BY <3>1, <3>2, <3>3 DEF Fits
    <3>4. CASE d \notin file
      BY <3>1, <3>2, <3>4 DEF Fits
    <3>5. QED BY <3>3, <3>4
  <2>2. stage = "serving" => Schema!V9Objects \subseteq installed /\ active = "published"
    BY DEF SchemaInv, Served
  <2>3. QED BY <2>1, <2>2 DEF ServedWhole, Schema!ServedWhole
<1>3. QED BY <1>1, <1>2, SchemaStart, PTL DEF Schema!Spec
=============================================================================
