--------------------------- MODULE RequestsProofs ---------------------------
(* Theorems about what requests do to each other: the deletion of a project, for every *)
(* finite set of uploads and users, and the instances of Requests one after the other,     *)
(* each for every value of its constants.  What is said of the suggestions comes from          *)
(* SuggestionsProofs.                                                                    *)
EXTENDS Requests, Numbers, SequenceTheorems

DocStatus == {"absent", "reserved", "processing", "indexed", "failed", "deleted"}
LockTypes ==
    /\ exists \in BOOLEAN /\ doc \in [Doc -> DocStatus]
    /\ pending \subseteq Doc /\ files \subseteq Doc /\ vectors \subseteq Doc /\ memory \subseteq Doc
    /\ op \in [Thread -> UploadOps \cup {"idle", "delete", "files"}]
    /\ \A d \in Doc : /\ op[Up(d)] \in UploadOps \cup {"idle"}
                      /\ op[Rm(d)] \in {"transfer", "idle"}
    /\ op[Del] \in {"idle", "delete", "files"}
    /\ has \in [Thread -> Nat]
    /\ op[Del] = "idle" => has[Del] = 0
    /\ \A t \in Thread \ {Del} : op[t] # "idle" => has[t] >= 1
    /\ known \subseteq ToSet(Users) /\ IsFiniteSet(known)
    /\ faults \in Nat

(* The deletion holds the users and k locks more, or already deletes. *)
DeletionHas(k) == op[Del] # "idle" /\ has[Del] >= Cardinality(known) + k
(* Under its project lock every other transaction is still at its first lock; under *)
(* the locks of the documents none ingests.                                            *)
LocksExclude ==
    /\ DeletionHas(1) => \A t \in Thread \ {Del} : op[t] = "idle" \/ has[t] <= 1
    /\ DeletionHas(2) => exists /\ \A d \in Doc : op[Up(d)] # "ingest"

(* Each file has a row or a ledger entry to remove it by; a document that is processed *)
(* has its file; what a transaction read before its locks still holds; and a deletion  *)
(* that emptied the vector store finds nothing under way.                               *)
RowsAgree ==
    /\ op[Del] = "files" =>
         has[Del] = Cardinality(known) + 2 /\ exists /\ vectors = {} /\ ~Busy
    /\ \A d \in Doc :
         /\ d \in files => d \in pending \/ doc[d] \in {"reserved", "processing", "indexed", "failed"}
         /\ d \in pending => doc[d] \in {"failed", "deleted"}
         /\ doc[d] = "processing" => d \in files
         /\ op[Up(d)] = "reserve" => doc[d] = "absent" \/ ~exists
         /\ op[Up(d)] \in {"finalize", "abandon"} => doc[d] = "reserved" /\ d \in files
ProjectInv == LockTypes /\ LocksExclude /\ RowsAgree /\ ProjectWhole

-----------------------------------------------------------------------------
(* Threads and rows are told apart. *)
LEMMA Distinct ==
    /\ \A d, e \in Doc : Up(d) # Rm(e) /\ (Up(d) = Up(e) => d = e) /\ (Rm(d) = Rm(e) => d = e)
    /\ \A d \in Doc : Up(d) # Del /\ Rm(d) # Del
    /\ \A d \in Doc : Up(d)[2] = d /\ Rm(d)[2] = d
    /\ \A d \in Doc : Up(d) \in Thread /\ Rm(d) \in Thread
    /\ Del \in Thread
    /\ \A t \in Thread \ {Del} : \E d \in Doc : t = Up(d) \/ t = Rm(d)
<1>1. \A d, e \in Doc : Up(d) # Rm(e) /\ (Up(d) = Up(e) => d = e) /\ (Rm(d) = Rm(e) => d = e)
  BY DEF Up, Rm
<1>2. \A d \in Doc : Up(d) # Del /\ Rm(d) # Del
  BY DEF Up, Rm, Del
<1>3. \A d \in Doc : Up(d)[2] = d /\ Rm(d)[2] = d
  BY DEF Up, Rm
<1>4. QED BY <1>1, <1>2, <1>3 DEF Thread

(* The end of a sequence to which two elements were appended. *)
LEMMA TwoAppended ==
    ASSUME NEW S, NEW a \in Seq(S), NEW b \in Seq(S), Len(b) = 2
    PROVE  /\ Len(a \o b) = Len(a) + 2
           /\ (a \o b)[Len(a) + 1] = b[1] /\ (a \o b)[Len(a) + 2] = b[2]
<1>1. Len(a) \in Nat
  OBVIOUS
<1>2. /\ Len(a \o b) = Len(a) + Len(b)
      /\ \A i \in 1..Len(a) + Len(b) : (a \o b)[i] =
              IF i <= Len(a) THEN a[i] ELSE b[i - Len(a)]
  BY ConcatProperties
<1>3. QED BY <1>1, <1>2

(* The deletion locks its users, then the project, then every document. *)
LEMMA DeletionOrder ==
    ASSUME NEW K \in SUBSET ToSet(Users), IsFiniteSet(K)
    PROVE  /\ Cardinality(K) \in Nat
           /\ Len(DeleteOrder[K]) = Cardinality(K) + 2
           /\ DeleteOrder[K][Cardinality(K) + 1] = {Project}
           /\ DeleteOrder[K][Cardinality(K) + 2] = {<<"doc", d>> : d \in Doc}
<1> DEFINE n == Cardinality(K)
           user(k) == {<<"user", SelectSeq(Users, LAMBDA u : u \in K)[k]>>}
           first == [k \in 1..n |-> user(k)]
           last == <<{Project}, {<<"doc", d>> : d \in Doc}>>
           E == {user(k) : k \in 1..n} \cup {{Project}, {<<"doc", d>> : d \in Doc}}
<1>1. n \in Nat
  BY FS_CardinalityType
<1>2. DeleteOrder[K] = first \o last
  BY DEF DeleteOrder
<1> HIDE DEF n, user
<1>3. first \in Seq(E) /\ Len(first) = n
  BY <1>1
<1>4. last \in Seq(E) /\ Len(last) = 2 /\ last[1] = {Project} /\ last[2] = {<<"doc", d>> : d \in Doc}
  OBVIOUS
<1> HIDE DEF first, last, E
<1>5. /\ Len(first \o last) = n + 2
      /\ (first \o last)[n + 1] = last[1] /\ (first \o last)[n + 2] = last[2]
  BY <1>1, <1>3, <1>4, TwoAppended
<1>6. QED BY <1>1, <1>2, <1>4, <1>5 DEF n

-----------------------------------------------------------------------------
(* What a thread holds. *)
LEMMA DeletionHolds ==
    ASSUME LockTypes
    PROVE  /\ Cardinality(known) \in Nat
           /\ DeletionHas(1) => Holds(Del, Project)
           /\ DeletionHas(2) => \A d \in Doc : Holds(Del, <<"doc", d>>)
<1> DEFINE n == Cardinality(known)
<1>1. /\ n \in Nat
      /\ OrderOf(Del)[n + 1] = {Project}
      /\ OrderOf(Del)[n + 2] = {<<"doc", d>> : d \in Doc}
  BY DeletionOrder DEF LockTypes, OrderOf
<1>2. has[Del] \in Nat
  BY Distinct DEF LockTypes
<1> HIDE DEF n
<1>3. op[Del] # "idle" /\ has[Del] >= n + 1 => Holds(Del, Project)
  BY <1>1, <1>2 DEF Holds
<1>4. op[Del] # "idle" /\ has[Del] >= n + 2 => \A d \in Doc : Holds(Del, <<"doc", d>>)
  BY <1>1, <1>2 DEF Holds
<1>5. QED BY <1>1, <1>3, <1>4 DEF n, DeletionHas

(* The locks of the other transactions. *)
LEMMA ThreadOrder ==
    ASSUME LockTypes, NEW d \in Doc, NEW t \in {Up(d), Rm(d)}, op[t] # "idle"
    PROVE  /\ op[t] \in UploadOps
           /\ OrderOf(t) = Rows(op[t], d)
           /\ OrderOf(t)[2] = {Project}
           /\ Len(OrderOf(t)) = IF op[t] = "transfer" THEN 3 ELSE 2
           /\ op[t] = "ingest" => OrderOf(t)[1] = {<<"doc", d>>}
<1>1. op[t] \in UploadOps /\ t # Del /\ t[2] = d
  BY Distinct DEF LockTypes, UploadOps
<1>2. OrderOf(t) = Rows(op[t], d)
  BY <1>1 DEF OrderOf, Order
<1>3. op[t] \in {"reserve", "finalize", "abandon"} =>
        Rows(op[t], d) = <<{<<"user", OwnerOf[d]>>}, {Project}>>
  BY DEF Rows
<1>4. op[t] = "transfer" =>
        Rows(op[t], d) = <<{<<"user", OwnerOf[d]>>}, {Project}, {<<"doc", d>>}>>
  BY DEF Rows
<1>5. op[t] = "ingest" => Rows(op[t], d) = <<{<<"doc", d>>}, {Project}>>
  BY DEF Rows
<1>6. CASE op[t] \in {"reserve", "finalize", "abandon"}
  <2>1. OrderOf(t) = <<{<<"user", OwnerOf[d]>>}, {Project}>>
    BY <1>2, <1>3, <1>6
  <2>2. op[t] # "transfer" /\ op[t] # "ingest"
    BY <1>6
  <2>3. OrderOf(t)[2] = {Project} /\ Len(OrderOf(t)) = 2
    BY <2>1
  <2>4. QED BY <1>1, <1>2, <2>2, <2>3
<1>7. CASE op[t] = "transfer"
  BY <1>1, <1>2, <1>4, <1>7
<1>8. CASE op[t] = "ingest"
  BY <1>1, <1>2, <1>5, <1>8
<1>9. QED BY <1>1, <1>6, <1>7, <1>8 DEF UploadOps

(* A transaction past its first lock holds the project, an ingest its document. *)
LEMMA ThreadHolds ==
    ASSUME LockTypes, NEW d \in Doc, NEW t \in {Up(d), Rm(d)}, op[t] # "idle"
    PROVE  /\ has[t] >= 2 => Holds(t, Project)
           /\ op[t] = "ingest" => Holds(t, <<"doc", d>>)
<1>1. t \in Thread \ {Del} /\ has[t] \in Nat /\ has[t] >= 1
  BY Distinct DEF LockTypes
<1>2. OrderOf(t)[2] = {Project} /\ (op[t] = "ingest" => OrderOf(t)[1] = {<<"doc", d>>})
  BY ThreadOrder
<1>3. QED BY <1>1, <1>2 DEF Holds

(* Under the project lock of the deletion nobody gets past the first lock. *)
LEMMA ProjectIsTaken ==
    ASSUME LockTypes, DeletionHas(1), NEW d \in Doc, NEW t \in {Up(d), Rm(d)},
           op[t] # "idle", has[t] = 1
    PROVE  Blockers(t) # {}
<1>1. t \in Thread \ {Del} /\ Del \in Thread /\ op[Del] # "ingest"
  BY Distinct DEF LockTypes
<1>2. Holds(Del, Project)
  BY DeletionHolds
<1>3. OrderOf(t)[2] = {Project} /\ Len(OrderOf(t)) # 1
  BY ThreadOrder
<1>4. Conflict(Project, op[t], Del)
  BY <1>1 DEF Conflict
<1>5. Del \in Holders(t, op[t], {Project})
  BY <1>1, <1>2, <1>4 DEF Holders
<1>6. Blockers(t) = Holders(t, op[t], OrderOf(t)[1 + 1])
  BY <1>1, <1>3 DEF Blockers
<1>7. QED BY <1>3, <1>5, <1>6

(* The deletion gets the project lock when the others are at their first. *)
LEMMA ProjectIsFree ==
    ASSUME LockTypes, op[Del] = "delete", has[Del] = Cardinality(known), Blockers(Del) = {}
    PROVE  \A t \in Thread \ {Del} : op[t] = "idle" \/ has[t] <= 1
<1>1. /\ Cardinality(known) \in Nat /\ OrderOf(Del)[Cardinality(known) + 1] = {Project}
      /\ Len(OrderOf(Del)) = Cardinality(known) + 2
  BY DeletionOrder DEF LockTypes, OrderOf
<1>2. Blockers(Del) = Holders(Del, "delete", {Project})
  BY <1>1 DEF Blockers, Past
<1>3. SUFFICES ASSUME NEW t \in Thread \ {Del}, op[t] # "idle", ~(has[t] <= 1)
               PROVE  FALSE
  OBVIOUS
<1>4. PICK d \in Doc : t \in {Up(d), Rm(d)}
  BY Distinct
<1>5. Holds(t, Project)
  <2>1. has[t] \in Nat /\ has[t] >= 2
    BY <1>3 DEF LockTypes
  <2>2. QED BY <2>1, <1>3, <1>4, ThreadHolds
<1>6. t \in Holders(Del, "delete", {Project})
  BY <1>5 DEF Holders, Conflict
<1>7. QED BY <1>2, <1>6

(* It gets the documents when nobody ingests, and nobody starts to afterwards. *)
LEMMA DocumentsAreFree ==
    ASSUME LockTypes, Past(1), exists, NoneProcessing, Blockers(Del) = {}
    PROVE  \A d \in Doc : op[Up(d)] # "ingest"
<1>1. /\ Cardinality(known) \in Nat /\ Len(OrderOf(Del)) = Cardinality(known) + 2
      /\ OrderOf(Del)[Cardinality(known) + 2] = {<<"doc", d>> : d \in Doc}
  BY DeletionOrder DEF LockTypes, OrderOf
<1>2. Blockers(Del) = Holders(Del, "delete", {<<"doc", d>> : d \in Doc})
  <2>1. has[Del] # Len(OrderOf(Del)) /\ op[Del] = "delete"
        /\ OrderOf(Del)[has[Del] + 1] = {<<"doc", d>> : d \in Doc}
    BY <1>1 DEF Past
  <2>2. QED BY <2>1 DEF Blockers
<1>3. SUFFICES ASSUME NEW d \in Doc, op[Up(d)] = "ingest"
               PROVE  FALSE
  OBVIOUS
<1>4. Holds(Up(d), <<"doc", d>>)
  BY <1>3, ThreadHolds
<1>5. <<"doc", d>> # Project
  BY DEF Project
<1>6. Up(d) \in Holders(Del, "delete", {<<"doc", e>> : e \in Doc})
  BY <1>4, <1>5, Distinct DEF Holders, Conflict
<1>7. QED BY <1>2, <1>6

(* Under the deletion's locks of the documents no ingest begins. *)
LEMMA DocumentsAreTaken ==
    ASSUME LockTypes, DeletionHas(2), NEW d \in Doc
    PROVE  ~Begin(Up(d), "ingest")
<1>1. Order["ingest"][Up(d)[2]][1] = {<<"doc", d>>}
  BY Distinct DEF Order, UploadOps, Rows
<1>2. Holds(Del, <<"doc", d>>) /\ <<"doc", d>> # Project
  BY DeletionHolds DEF Project
<1>3. Del \in Holders(Up(d), "ingest", {<<"doc", d>>})
  BY <1>2, Distinct DEF Holders, Conflict
<1>4. QED BY <1>1, <1>3 DEF Begin

(* Nor does anything but an ingest commit. *)
LEMMA NothingCommits ==
    ASSUME LockTypes, LocksExclude, DeletionHas(1), NEW d \in Doc, NEW t \in {Up(d), Rm(d)},
           NEW o \in UploadOps \ {"ingest"}, AtLast(t, o)
    PROVE  FALSE
<1>1. t \in Thread \ {Del} /\ op[t] = o /\ o # "idle" /\ o # "ingest"
  BY Distinct DEF AtLast, UploadOps
<1>2. has[t] <= 1 /\ has[t] >= 1 /\ has[t] \in Nat
  BY <1>1 DEF LockTypes, LocksExclude
<1>3. has[t] = 1 /\ op[t] # "idle"
  BY <1>1, <1>2
<1>4. Blockers(t) # {}
  BY <1>3, ProjectIsTaken
<1>5. QED BY <1>4 DEF AtLast

(* A transaction of an upload or a removal that ends, or begins. *)
LEMMA OtherThread ==
    ASSUME ProjectInv, NEW d \in Doc, NEW t \in {Up(d), Rm(d)}
    PROVE  /\ t \in Thread \ {Del} /\ op[t] \in UploadOps \cup {"idle"}
           /\ End(t) => /\ op' \in [Thread -> UploadOps \cup {"idle", "delete", "files"}]
                        /\ has' \in [Thread -> Nat]
                        /\ op'[t] = "idle" /\ \A u \in Thread \ {t} : op'[u] = op[u] /\ has'[u] = has[u]
           /\ \A o \in UploadOps : Begin(t, o) =>
                        /\ op' \in [Thread -> UploadOps \cup {"idle", "delete", "files"}]
                        /\ has' \in [Thread -> Nat]
                        /\ op'[t] = o /\ has'[t] = 1
                        /\ \A u \in Thread \ {t} : op'[u] = op[u] /\ has'[u] = has[u]
<1>1. t \in Thread \ {Del} /\ op[t] \in UploadOps \cup {"idle"}
  BY Distinct DEF ProjectInv, LockTypes, UploadOps
<1>2. QED BY <1>1 DEF ProjectInv, LockTypes, End, Begin

-----------------------------------------------------------------------------
(* The rows and stores hold values of their types. *)
DataTypes == /\ doc \in [Doc -> DocStatus]
             /\ pending \subseteq Doc /\ files \subseteq Doc
             /\ vectors \subseteq Doc /\ memory \subseteq Doc

(* The end of a transaction keeps the lock invariants. *)
LEMMA LocksAfterEnd ==
    ASSUME ProjectInv, NEW d \in Doc, NEW t \in {Up(d), Rm(d)}, End(t),
           UNCHANGED <<exists, known, faults>>, DataTypes'
    PROVE  LockTypes' /\ LocksExclude'
<1>1. /\ t \in Thread \ {Del}
      /\ op' \in [Thread -> UploadOps \cup {"idle", "delete", "files"}] /\ has' \in [Thread -> Nat]
      /\ op'[t] = "idle" /\ \A u \in Thread \ {t} : op'[u] = op[u] /\ has'[u] = has[u]
  BY OtherThread
<1>2. LockTypes'
  BY <1>1, Distinct DEF ProjectInv, LockTypes, DataTypes
<1>3. LocksExclude'
  BY <1>1, Distinct DEF ProjectInv, LocksExclude, DeletionHas
<1>4. QED BY <1>2, <1>3

(* So does its beginning: under the documents' locks it is not an ingest. *)
LEMMA LocksAfterBegin ==
    ASSUME ProjectInv, NEW d \in Doc, NEW t \in {Up(d), Rm(d)}, NEW o \in UploadOps, Begin(t, o),
           t = Rm(d) => o = "transfer",
           UNCHANGED <<exists, known, faults>>, DataTypes'
    PROVE  LockTypes' /\ LocksExclude'
<1>1. /\ t \in Thread \ {Del}
      /\ op' \in [Thread -> UploadOps \cup {"idle", "delete", "files"}] /\ has' \in [Thread -> Nat]
      /\ op'[t] = o /\ has'[t] = 1
      /\ \A u \in Thread \ {t} : op'[u] = op[u] /\ has'[u] = has[u]
  BY OtherThread
<1>2. LockTypes'
  <2>1. \A e \in Doc : op'[Up(e)] \in UploadOps \cup {"idle"} /\ op'[Rm(e)] \in {"transfer", "idle"}
    BY <1>1, Distinct DEF ProjectInv, LockTypes
  <2>2. QED BY <1>1, <2>1, Distinct DEF ProjectInv, LockTypes, DataTypes
<1>3. LocksExclude'
  <2>1. DeletionHas(1)' => \A u \in Thread \ {Del} : op'[u] = "idle" \/ has'[u] <= 1
    BY <1>1, Distinct DEF ProjectInv, LocksExclude, DeletionHas
  <2>2. ASSUME DeletionHas(2)' PROVE exists' /\ \A e \in Doc : op'[Up(e)] # "ingest"
    <3>1. DeletionHas(2)
      BY <1>1, <2>2, Distinct DEF DeletionHas
    <3>2. ~(t = Up(d) /\ o = "ingest")
      BY <3>1, DocumentsAreTaken DEF ProjectInv
    <3>3. t = Up(d) \/ o # "ingest"
      BY Distinct
    <3>4. QED BY <1>1, <3>1, <3>2, <3>3, Distinct DEF ProjectInv, LocksExclude
  <2>3. QED BY <2>1, <2>2 DEF LocksExclude
<1>4. QED BY <1>2, <1>3

(* Steps of the uploads and removals. *)
LEMMA StartUpKeeps ==
    ASSUME ProjectInv, NEW d \in Doc, StartUp(d)
    PROVE  ProjectInv'
<1>1. PICK o \in UploadOps : Begin(Up(d), o) /\ UNCHANGED <<known, tries, faults>>
  BY DEF StartUp, Start, UploadOps
<1>2. UNCHANGED <<exists, doc, pending, vectors, memory>> /\ files' \in {files, files \cup {d}}
      /\ (files' = files \/ doc[d] = "reserved")
  BY DEF StartUp, data
<1>3. DataTypes'
  BY <1>2 DEF ProjectInv, LockTypes, DataTypes
<1>4. LockTypes' /\ LocksExclude'
  BY <1>1, <1>2, <1>3, Distinct, LocksAfterBegin
<1>5. /\ op'[Up(d)] = o /\ op'[Del] = op[Del] /\ has'[Del] = has[Del]
      /\ \A e \in Doc \ {d} : op'[Up(e)] = op[Up(e)]
  BY <1>1, OtherThread, Distinct
<1>6. /\ o = "reserve" => doc[d] = "absent"
      /\ o \in {"finalize", "abandon"} => doc[d] = "reserved" /\ d \in files'
  <2>1. op'[Up(d)] = o
    BY <1>5
  <2>2. \A q \in UploadOps : Begin(Up(d), q) => q = o
    BY <2>1, OtherThread
  <2>3. QED BY <2>2 DEF StartUp, Start, UploadOps
<1>7. RowsAgree'
  BY <1>1, <1>2, <1>5, <1>6 DEF ProjectInv, RowsAgree, Busy
<1>8. ProjectWhole'
  BY <1>1, <1>2, <1>5 DEF ProjectInv, ProjectWhole
<1>9. QED BY <1>4, <1>7, <1>8 DEF ProjectInv

(* A removal of a document begins (api/documents.py:379). *)
LEMMA StartRmKeeps ==
    ASSUME ProjectInv, NEW d \in Doc, StartRm(d)
    PROVE  ProjectInv'
<1>1. Begin(Rm(d), "transfer") /\ UNCHANGED <<known, tries, faults>> /\ UNCHANGED data
  BY DEF StartRm, Start
<1>2. DataTypes'
  BY <1>1 DEF ProjectInv, LockTypes, DataTypes, data
<1>3. "transfer" \in UploadOps
  BY DEF UploadOps
<1>4. LockTypes' /\ LocksExclude'
  BY <1>1, <1>2, <1>3, LocksAfterBegin DEF data
<1>5. /\ op'[Del] = op[Del] /\ has'[Del] = has[Del]
      /\ \A e \in Doc : op'[Up(e)] = op[Up(e)]
  BY <1>1, <1>3, OtherThread, Distinct
<1>6. RowsAgree' /\ ProjectWhole'
  BY <1>1, <1>5 DEF ProjectInv, RowsAgree, Busy, ProjectWhole, data
<1>7. QED BY <1>4, <1>6 DEF ProjectInv

(* Under its locks an upload is reserved, finalized or given up. *)
LEMMA CommitsKeep ==
    ASSUME ProjectInv, NEW d \in Doc, Reserve(d) \/ Finalize(d) \/ Abandon(d)
    PROVE  ProjectInv'
<1>1. PICK o \in UploadOps \ {"ingest"} :
        /\ AtLast(Up(d), o)
        /\ o \in {"reserve", "finalize", "abandon"}
        /\ o = "reserve" => doc' = IF exists THEN [doc EXCEPT ![d] = "reserved"] ELSE doc
        /\ o = "finalize" => doc' = [doc EXCEPT ![d] = "processing"]
        /\ o = "abandon" => doc' = [doc EXCEPT ![d] = "deleted"]
        /\ pending' = IF o = "abandon" THEN pending \cup {d} ELSE pending
  BY DEF Reserve, Finalize, Abandon, Transaction, Becomes, UploadOps
<1>2. End(Up(d)) /\ UNCHANGED <<exists, known, faults, files, vectors, memory>>
  BY DEF Reserve, Finalize, Abandon, Transaction
<1>3. op[Up(d)] = o
  BY <1>1 DEF AtLast
<1>4. DataTypes'
  BY <1>1, <1>2 DEF ProjectInv, LockTypes, DataTypes, DocStatus
<1>5. LockTypes' /\ LocksExclude'
  BY <1>2, <1>4, LocksAfterEnd
<1>6. /\ op'[Up(d)] = "idle" /\ op'[Del] = op[Del] /\ has'[Del] = has[Del]
      /\ \A e \in Doc \ {d} : op'[Up(e)] = op[Up(e)]
  BY <1>2, OtherThread, Distinct
<1>7. op[Del] # "files"
  <2>1. SUFFICES ASSUME op[Del] = "files" PROVE FALSE
    OBVIOUS
  <2>2. DeletionHas(1)
    BY <2>1, DeletionHolds DEF ProjectInv, RowsAgree, DeletionHas
  <2>3. QED BY <2>2, <1>1, NothingCommits DEF ProjectInv
<1>8. RowsAgree'
  BY <1>1, <1>2, <1>3, <1>6, <1>7 DEF ProjectInv, RowsAgree, LockTypes
<1>9. ProjectWhole'
  BY <1>1, <1>2, <1>3, <1>6, <1>7 DEF ProjectInv, ProjectWhole, RowsAgree, LockTypes
<1>10. QED BY <1>5, <1>8, <1>9 DEF ProjectInv

(* A document is handed to cleanup (backend/quota.py:376). *)
LEMMA TransferKeeps ==
    ASSUME ProjectInv, NEW d \in Doc, NEW t \in {Up(d), Rm(d)}, Transfer(t, d)
    PROVE  ProjectInv'
<1>1. /\ AtLast(t, "transfer") /\ "transfer" \in UploadOps \ {"ingest"}
      /\ End(t) /\ UNCHANGED <<exists, known, faults, files, vectors>>
  BY DEF Transfer, Transaction, UploadOps
<1>2. \/ /\ exists /\ doc[d] \in {"processing", "indexed", "failed"}
         /\ \E status \in {"deleted", "failed"} : doc' = [doc EXCEPT ![d] = status]
         /\ pending' = pending \cup {d} /\ memory' = memory \ {d}
      \/ UNCHANGED <<doc, pending, memory>>
  BY DEF Transfer, Transaction, Becomes
<1>3. DataTypes'
  BY <1>1, <1>2 DEF ProjectInv, LockTypes, DataTypes, DocStatus
<1>4. LockTypes' /\ LocksExclude'
  BY <1>1, <1>3, LocksAfterEnd
<1>5. /\ op'[Del] = op[Del] /\ has'[Del] = has[Del]
      /\ \A e \in Doc : op'[Up(e)] \in {op[Up(e)], "idle"}
  BY <1>1, OtherThread, Distinct
<1>6. op[Del] # "files"
  <2>1. SUFFICES ASSUME op[Del] = "files" PROVE FALSE
    OBVIOUS
  <2>2. DeletionHas(1)
    BY <2>1, DeletionHolds DEF ProjectInv, RowsAgree, DeletionHas
  <2>3. QED BY <2>2, <1>1, NothingCommits DEF ProjectInv
<1>7. RowsAgree'
  BY <1>1, <1>2, <1>5, <1>6 DEF ProjectInv, RowsAgree, LockTypes
<1>8. ProjectWhole'
  BY <1>1, <1>2, <1>5, <1>6 DEF ProjectInv, ProjectWhole, LockTypes
<1>9. QED BY <1>4, <1>7, <1>8 DEF ProjectInv

(* The worker writes the vectors of its document. *)
LEMMA IngestVectorsKeeps ==
    ASSUME ProjectInv, NEW d \in Doc, IngestVectors(d)
    PROVE  ProjectInv'
<1>1. /\ doc[d] = "processing" /\ vectors' = vectors \cup {d}
      /\ UNCHANGED <<exists, doc, pending, files, memory, op, has, known, faults>>
  BY DEF IngestVectors
<1>2. LockTypes' /\ LocksExclude'
  BY <1>1 DEF ProjectInv, LockTypes, LocksExclude, DeletionHas
<1>3. RowsAgree' /\ ProjectWhole'
  BY <1>1 DEF ProjectInv, RowsAgree, Busy, ProjectWhole
<1>4. QED BY <1>2, <1>3 DEF ProjectInv

(* The worker commits its ingest, or fails it. *)
LEMMA IngestEndsKeeps ==
    ASSUME ProjectInv, NEW d \in Doc, IngestEnds(d)
    PROVE  ProjectInv'
<1>1. /\ doc[d] = "processing" /\ d \in vectors /\ End(Up(d))
      /\ doc' \in {doc, [doc EXCEPT ![d] = "indexed"]}
      /\ memory' \in {memory, memory \cup {d}}
      /\ UNCHANGED <<exists, pending, files, vectors, known, faults>>
  BY DEF IngestEnds, Becomes
<1>2. DataTypes'
  BY <1>1 DEF ProjectInv, LockTypes, DataTypes, DocStatus
<1>3. LockTypes' /\ LocksExclude'
  BY <1>1, <1>2, LocksAfterEnd
<1>4. /\ op'[Up(d)] = "idle" /\ op'[Del] = op[Del] /\ has'[Del] = has[Del]
      /\ \A e \in Doc \ {d} : op'[Up(e)] = op[Up(e)]
  BY <1>1, OtherThread, Distinct
<1>5. RowsAgree'
  BY <1>1, <1>4 DEF ProjectInv, RowsAgree, Busy, LockTypes
<1>6. ProjectWhole'
  BY <1>1, <1>4 DEF ProjectInv, ProjectWhole, RowsAgree, Busy, LockTypes
<1>7. QED BY <1>3, <1>5, <1>6 DEF ProjectInv

(* Housekeeping. *)
LEMMA CleanupKeeps ==
    ASSUME ProjectInv, NEW d \in Doc, Cleanup(d)
    PROVE  ProjectInv'
<1>1. /\ d \in pending /\ pending' = pending \ {d}
      /\ files' = files \ {d} /\ vectors' = vectors \ {d}
      /\ UNCHANGED <<exists, doc, memory, op, has, known, faults>>
  BY DEF Cleanup
<1>2. LockTypes' /\ LocksExclude'
  BY <1>1 DEF ProjectInv, LockTypes, LocksExclude, DeletionHas
<1>3. RowsAgree' /\ ProjectWhole'
  BY <1>1 DEF ProjectInv, RowsAgree, Busy, ProjectWhole
<1>4. QED BY <1>2, <1>3 DEF ProjectInv

(* A sync touches none of what the deletion removes with rows and files. *)
LEMMA SyncKeeps ==
    ASSUME ProjectInv, Sync
    PROVE  ProjectInv'
<1>1. UNCHANGED <<exists, doc, pending, files, vectors, memory, op, has, known, faults>>
  BY DEF Sync
<1>2. QED BY <1>1 DEF ProjectInv, LockTypes, LocksExclude, DeletionHas, RowsAgree, Busy,
             ProjectWhole

(* An upload, a worker or a removal takes its next lock. *)
LEMMA AcquireKeeps ==
    ASSUME ProjectInv, NEW t \in Thread \ {Del}, Acquire(t)
    PROVE  ProjectInv'
<1>1. /\ op[t] # "idle" /\ Blockers(t) = {} /\ has' = [has EXCEPT ![t] = @ + 1]
      /\ UNCHANGED <<exists, doc, pending, files, vectors, memory, op, known, faults>>
  BY DEF Acquire, data
<1>2. LockTypes'
  BY <1>1, Distinct DEF ProjectInv, LockTypes
<1>3. ~DeletionHas(1)
  <2>1. PICK d \in Doc : t \in {Up(d), Rm(d)}
    BY Distinct
  <2>2. SUFFICES ASSUME DeletionHas(1) PROVE FALSE
    OBVIOUS
  <2>3. has[t] = 1
    BY <1>1, <2>2 DEF ProjectInv, LockTypes, LocksExclude
  <2>4. QED BY <1>1, <2>1, <2>2, <2>3, ProjectIsTaken DEF ProjectInv
<1>4. has'[Del] = has[Del]
  BY <1>1, Distinct DEF ProjectInv, LockTypes
<1>5. ~DeletionHas(1)' /\ ~DeletionHas(2)'
  <2>1. Cardinality(known) \in Nat /\ has[Del] \in Nat
    BY DeletionHolds, Distinct DEF ProjectInv, LockTypes
  <2>2. QED BY <1>1, <1>3, <1>4, <2>1 DEF DeletionHas
<1>6. LocksExclude'
  BY <1>5 DEF LocksExclude
<1>7. RowsAgree' /\ ProjectWhole'
  BY <1>1, <1>4 DEF ProjectInv, RowsAgree, Busy, ProjectWhole
<1>8. QED BY <1>2, <1>6, <1>7 DEF ProjectInv

(* Only transactions that wait are victims; a deletion that deletes waits for nobody. *)
LEMMA VictimKeeps ==
    ASSUME ProjectInv, NEW t \in Thread, Victim(t)
    PROVE  ProjectInv'
<1>1. /\ End(t) /\ t \in WaitsFor(t, Thread)
      /\ UNCHANGED <<exists, doc, pending, files, vectors, memory, known, faults>>
  BY DEF Victim, data
<1>2. CASE t = Del
  <2>1. op[Del] # "files"
    <3>1. Blockers(Del) # {}
      BY <1>1, <1>2 DEF WaitsFor
    <3>2. Len(OrderOf(Del)) = Cardinality(known) + 2
      BY DeletionOrder DEF ProjectInv, LockTypes, OrderOf
    <3>3. QED BY <3>1, <3>2 DEF Blockers, ProjectInv, RowsAgree
  <2>2. /\ op' = [op EXCEPT ![Del] = "idle"] /\ has' = [has EXCEPT ![Del] = 0] /\ Del \in Thread
        /\ \A d \in Doc : Up(d) \in Thread \ {Del} /\ Rm(d) \in Thread \ {Del}
    BY <1>1, <1>2, Distinct DEF End
  <2>3. LockTypes' /\ LocksExclude'
    BY <1>1, <2>2 DEF ProjectInv, LockTypes, LocksExclude, DeletionHas
  <2>4. RowsAgree' /\ ProjectWhole'
    BY <1>1, <2>1, <2>2 DEF ProjectInv, LockTypes, RowsAgree, ProjectWhole
  <2>5. QED BY <2>3, <2>4 DEF ProjectInv
<1>3. CASE t # Del
  <2>1. PICK d \in Doc : t \in {Up(d), Rm(d)}
    BY <1>3, Distinct
  <2>2. DataTypes'
    BY <1>1 DEF ProjectInv, LockTypes, DataTypes
  <2>3. LockTypes' /\ LocksExclude'
    BY <1>1, <2>1, <2>2, LocksAfterEnd
  <2>4. /\ op'[Del] = op[Del] /\ has'[Del] = has[Del]
        /\ \A e \in Doc : op'[Up(e)] \in {op[Up(e)], "idle"}
    BY <1>1, <2>1, OtherThread, Distinct
  <2>5. RowsAgree' /\ ProjectWhole'
    BY <1>1, <2>4 DEF ProjectInv, RowsAgree, Busy, ProjectWhole
  <2>6. QED BY <2>3, <2>5 DEF ProjectInv
<1>4. QED BY <1>2, <1>3

-----------------------------------------------------------------------------
(* Steps of the deletion. *)
LEMMA UploadersFinite == Uploaders \subseteq ToSet(Users) /\ IsFiniteSet(Uploaders)
<1>1. ToSet(Users) = {Users[i] : i \in 1..Len(Users)} /\ Len(Users) \in Nat
  BY LifecycleAssumption DEF ToSet
<1>2. IsFiniteSet(1..Len(Users))
  BY <1>1, FS_Interval
<1>3. Users \in Surjection(1..Len(Users), ToSet(Users))
  BY <1>1, LifecycleAssumption DEF Surjection, ToSet
<1>4. IsFiniteSet(ToSet(Users))
  BY <1>2, <1>3, FS_Surjection
<1>5. Uploaders \subseteq ToSet(Users)
  BY LifecycleAssumption DEF Uploaders
<1>6. QED BY <1>4, <1>5, FS_Subset

(* The deletion begins with the users it knows (api/project.py:183). *)
LEMMA StartDeleteKeeps ==
    ASSUME ProjectInv, StartDelete
    PROVE  ProjectInv'
<1>1. /\ op[Del] = "idle" /\ op' = [op EXCEPT ![Del] = "delete"] /\ known' = Uploaders
      /\ UNCHANGED <<exists, doc, pending, files, vectors, memory, has, faults>>
  BY DEF StartDelete, Settled, data
<1>2. Uploaders \subseteq ToSet(Users) /\ IsFiniteSet(Uploaders) /\ Cardinality(Uploaders) \in Nat
  BY UploadersFinite, FS_CardinalityType
<1>3. /\ op'[Del] = "delete" /\ has'[Del] = 0
      /\ \A t \in Thread \ {Del} : op'[t] = op[t]
  BY <1>1, Distinct DEF ProjectInv, LockTypes
<1>4. LockTypes'
  BY <1>1, <1>2, <1>3, Distinct DEF ProjectInv, LockTypes
<1>5. LocksExclude'
  BY <1>1, <1>2, <1>3 DEF LocksExclude, DeletionHas
<1>6. RowsAgree' /\ ProjectWhole'
  BY <1>1, <1>3, Distinct DEF ProjectInv, RowsAgree, ProjectWhole
<1>7. QED BY <1>4, <1>5, <1>6 DEF ProjectInv

(* It ends without having deleted: refused, or out of tries. *)
LEMMA DeleteRefused ==
    ASSUME ProjectInv, op[Del] = "delete", DeleteEnds, Settled
    PROVE  ProjectInv'
<1>1. /\ op' = [op EXCEPT ![Del] = "idle"] /\ has' = [has EXCEPT ![Del] = 0] /\ known' = {}
      /\ UNCHANGED <<exists, doc, pending, files, vectors, memory, faults>>
  BY DEF DeleteEnds, End, Settled, data
<1>2. /\ op'[Del] = "idle" /\ has'[Del] = 0
      /\ \A t \in Thread \ {Del} : op'[t] = op[t] /\ has'[t] = has[t]
  BY <1>1, Distinct DEF ProjectInv, LockTypes
<1>3. LockTypes'
  BY <1>1, <1>2, Distinct, FS_EmptySet DEF ProjectInv, LockTypes
<1>4. LocksExclude'
  BY <1>2 DEF LocksExclude, DeletionHas
<1>5. RowsAgree' /\ ProjectWhole'
  BY <1>1, <1>2, Distinct DEF ProjectInv, RowsAgree, ProjectWhole
<1>6. QED BY <1>3, <1>4, <1>5 DEF ProjectInv

(* It locks one row, or all documents, more. *)
LEMMA DeletionLocks ==
    ASSUME ProjectInv, Acquire(Del),
           \/ has[Del] < Cardinality(known) + 1
           \/ Past(1) /\ exists /\ NoneProcessing
    PROVE  ProjectInv'
<1>1. /\ op[Del] # "idle" /\ Blockers(Del) = {} /\ has' = [has EXCEPT ![Del] = @ + 1]
      /\ UNCHANGED <<exists, doc, pending, files, vectors, memory, op, known, faults>>
  BY DEF Acquire, data
<1>2. Cardinality(known) \in Nat /\ has[Del] \in Nat /\ Del \in Thread
  BY DeletionHolds, Distinct DEF ProjectInv, LockTypes
<1>3. has'[Del] = has[Del] + 1 /\ \A t \in Thread \ {Del} : has'[t] = has[t]
  BY <1>1, <1>2 DEF ProjectInv, LockTypes
<1>4. op[Del] = "delete"
  BY <1>1, <1>2 DEF ProjectInv, LockTypes, RowsAgree, Past
<1>5. LockTypes'
  BY <1>1, <1>2, <1>3, <1>4, Distinct DEF ProjectInv, LockTypes
<1>6. DeletionHas(1)' => \A t \in Thread \ {Del} : op[t] = "idle" \/ has[t] <= 1
  <2>1. CASE DeletionHas(1)
    BY <2>1 DEF ProjectInv, LocksExclude
  <2>2. CASE ~DeletionHas(1)
    <3>1. SUFFICES ASSUME DeletionHas(1)' PROVE has[Del] = Cardinality(known)
      BY <1>1, <1>4, ProjectIsFree DEF ProjectInv
    <3>2. QED BY <1>1, <1>2, <1>3, <2>2, <3>1 DEF DeletionHas
  <2>3. QED BY <2>1, <2>2
<1>7. DeletionHas(2)' => exists /\ \A d \in Doc : op[Up(d)] # "ingest"
  <2>1. CASE DeletionHas(2)
    BY <2>1 DEF ProjectInv, LocksExclude
  <2>2. CASE ~DeletionHas(2)
    <3>1. SUFFICES ASSUME DeletionHas(2)' PROVE ~(has[Del] < Cardinality(known) + 1)
      BY <1>1, DocumentsAreFree DEF ProjectInv
    <3>2. QED BY <1>1, <1>2, <1>3, <3>1 DEF DeletionHas
  <2>3. QED BY <2>1, <2>2
<1>8. LocksExclude'
  BY <1>1, <1>3, <1>6, <1>7 DEF LocksExclude
<1>9. RowsAgree' /\ ProjectWhole'
  BY <1>1, <1>4 DEF ProjectInv, RowsAgree, ProjectWhole
<1>10. QED BY <1>5, <1>8, <1>9 DEF ProjectInv

(* A deletion that knew too few users starts over with all of them. *)
LEMMA RetryKeeps ==
    ASSUME ProjectInv, Retry
    PROVE  ProjectInv'
<1>1. op[Del] = "delete" /\ Settled
  BY DEF Retry, Past
<1>2. CASE DeleteEnds
  BY <1>1, <1>2, DeleteRefused
<1>3. CASE /\ has' = [has EXCEPT ![Del] = 0] /\ UNCHANGED op
           /\ known' = known \cup Uploaders
  <2>1. UNCHANGED <<exists, doc, pending, files, vectors, memory, faults>>
    BY <1>1 DEF Settled, data
  <2>2. /\ known \cup Uploaders \subseteq ToSet(Users) /\ IsFiniteSet(known \cup Uploaders)
        /\ Cardinality(known \cup Uploaders) \in Nat
    BY UploadersFinite, FS_Union, FS_CardinalityType DEF ProjectInv, LockTypes
  <2>3. has'[Del] = 0 /\ \A t \in Thread \ {Del} : has'[t] = has[t]
    BY <1>3, Distinct DEF ProjectInv, LockTypes
  <2>4. LockTypes'
    BY <1>1, <1>3, <2>1, <2>2, <2>3, Distinct DEF ProjectInv, LockTypes
  <2>5. LocksExclude'
    BY <1>3, <2>2, <2>3 DEF LocksExclude, DeletionHas
  <2>6. RowsAgree' /\ ProjectWhole'
    BY <1>1, <1>3, <2>1 DEF ProjectInv, RowsAgree, ProjectWhole
  <2>7. QED BY <2>4, <2>5, <2>6 DEF ProjectInv
<1>4. QED BY <1>2, <1>3 DEF Retry

(* The deletion empties the vector store under all of its locks. *)
LEMMA DeleteChromaKeeps ==
    ASSUME ProjectInv, DeleteChroma
    PROVE  ProjectInv'
<1>1. /\ Past(2) /\ ~Busy
      /\ op' = [op EXCEPT ![Del] = "files"] /\ vectors' = {}
      /\ UNCHANGED <<exists, doc, pending, files, memory, has, known, faults>>
  BY DEF DeleteChroma, Checked
<1>2. Cardinality(known) \in Nat /\ Del \in Thread
  BY DeletionHolds, Distinct DEF ProjectInv
<1>3. op'[Del] = "files" /\ \A t \in Thread \ {Del} : op'[t] = op[t]
  BY <1>1, <1>2 DEF ProjectInv, LockTypes
<1>4. LockTypes'
  BY <1>1, <1>2, <1>3, Distinct DEF ProjectInv, LockTypes
<1>5. DeletionHas(1) /\ DeletionHas(2)
  BY <1>1, <1>2 DEF Past, DeletionHas
<1>6. LocksExclude'
  BY <1>1, <1>3, <1>5, Distinct DEF ProjectInv, LocksExclude
<1>7. RowsAgree' /\ ProjectWhole'
  BY <1>1, <1>3, <1>5, Distinct
     DEF ProjectInv, LocksExclude, RowsAgree, Busy, ProjectWhole, Past
<1>8. QED BY <1>4, <1>6, <1>7 DEF ProjectInv

(* The deletion removes files and rows, or one of the two fails. *)
LEMMA DeleteRowsKeeps ==
    ASSUME ProjectInv, DeleteRows
    PROVE  ProjectInv'
<1>1. /\ op[Del] = "files" /\ op' = [op EXCEPT ![Del] = "idle"] /\ has' = [has EXCEPT ![Del] = 0]
      /\ known' = {} /\ UNCHANGED <<pending, vectors>>
  BY DEF DeleteRows, DeleteEnds, End
<1>2. /\ vectors = {} /\ pending = {} /\ exists
      /\ \A d \in Doc : doc[d] \notin {"reserved", "processing"}
  BY <1>1 DEF ProjectInv, RowsAgree, Busy
<1>3. \/ /\ files' = {d \in files : ~HasRow(d)} /\ exists' = FALSE
         /\ doc' = [d \in Doc |-> "deleted"] /\ memory' = {} /\ UNCHANGED faults
      \/ faults' = faults + 1 /\ files' \subseteq files /\ UNCHANGED <<exists, doc, memory>>
  BY DEF DeleteRows
<1>4. /\ op'[Del] = "idle" /\ has'[Del] = 0
      /\ \A t \in Thread \ {Del} : op'[t] = op[t] /\ has'[t] = has[t]
  BY <1>1, Distinct DEF ProjectInv, LockTypes
<1>5. LockTypes'
  <2>1. LockTypes
    BY DEF ProjectInv
  <2>2. /\ exists' \in BOOLEAN /\ doc' \in [Doc -> DocStatus]
        /\ files' \subseteq Doc /\ memory' \subseteq Doc /\ faults' \in Nat
    <3>1. [d \in Doc |-> "deleted"] \in [Doc -> DocStatus]
      BY DEF DocStatus
    <3>2. {d \in files : ~HasRow(d)} \subseteq files /\ FALSE \in BOOLEAN
      OBVIOUS
    <3>3. CASE faults' = faults + 1 /\ files' \subseteq files /\ UNCHANGED <<exists, doc, memory>>
      BY <2>1, <3>3 DEF LockTypes
    <3>4. CASE /\ files' = {d \in files : ~HasRow(d)} /\ exists' = FALSE
               /\ doc' = [d \in Doc |-> "deleted"] /\ memory' = {} /\ UNCHANGED faults
      BY <2>1, <3>1, <3>2, <3>4 DEF LockTypes
    <3>5. QED BY <1>3, <3>3, <3>4
  <2>3. /\ op' \in [Thread -> UploadOps \cup {"idle", "delete", "files"}]
        /\ has' \in [Thread -> Nat]
    BY <1>1, <2>1 DEF LockTypes
  <2>4. /\ \A d \in Doc : op'[Up(d)] = op[Up(d)] /\ op'[Rm(d)] = op[Rm(d)]
        /\ known' \subseteq ToSet(Users) /\ IsFiniteSet(known')
    BY <1>1, <1>4, Distinct, FS_EmptySet
  <2>5. QED BY <1>1, <1>4, <2>1, <2>2, <2>3, <2>4 DEF LockTypes
<1>6. LocksExclude'
  BY <1>4 DEF LocksExclude, DeletionHas
<1>7. CASE faults' = faults + 1 /\ files' \subseteq files /\ UNCHANGED <<exists, doc, memory>>
  <2>1. faults' # 0
    BY <1>7 DEF ProjectInv, LockTypes
  <2>2. RowsAgree'
    BY <1>1, <1>2, <1>4, <1>7, Distinct DEF ProjectInv, RowsAgree
  <2>3. QED BY <1>2, <1>5, <1>6, <1>7, <2>1, <2>2 DEF ProjectInv, ProjectWhole
<1>8. CASE /\ files' = {d \in files : ~HasRow(d)} /\ exists' = FALSE
           /\ doc' = [d \in Doc |-> "deleted"] /\ memory' = {} /\ UNCHANGED faults
  <2>1. files' = {}
    BY <1>2, <1>8 DEF ProjectInv, LockTypes, RowsAgree, HasRow
  <2>2. RowsAgree'
    BY <1>1, <1>2, <1>4, <1>8, <2>1, Distinct DEF ProjectInv, RowsAgree
  <2>3. QED BY <1>1, <1>2, <1>5, <1>6, <1>8, <2>1, <2>2 DEF ProjectInv, ProjectWhole
<1>9. QED BY <1>3, <1>7, <1>8

-----------------------------------------------------------------------------
LEMMA ProjectInvAlways == Spec => []ProjectInv
<1>1. Init => ProjectInv
  <2>1. SUFFICES ASSUME Init PROVE ProjectInv
    OBVIOUS
  <2>2. LockTypes
    BY <2>1, Distinct, FS_EmptySet DEF Init, LockTypes, DocStatus
  <2>3. LocksExclude /\ RowsAgree /\ ProjectWhole
    BY <2>1, Distinct DEF Init, LocksExclude, DeletionHas, RowsAgree, ProjectWhole
  <2>4. QED BY <2>2, <2>3 DEF ProjectInv
<1>2. ProjectInv /\ [Next]_vars => ProjectInv'
  <2>1. ASSUME ProjectInv, Next PROVE ProjectInv'
    <3>1. CASE \E t \in Thread : Victim(t)
      BY <2>1, <3>1, VictimKeeps
    <3>2. CASE \E t \in Thread \ {Del} : Acquire(t)
      BY <2>1, <3>2, AcquireKeeps
    <3>3. CASE has[Del] < Cardinality(known) + 1 /\ Acquire(Del)
      BY <2>1, <3>3, DeletionLocks
    <3>4. CASE LockDocuments
      BY <2>1, <3>4, DeletionLocks DEF LockDocuments
    <3>5. CASE \E d \in Doc : StartUp(d) \/ StartRm(d)
      BY <2>1, <3>5, StartUpKeeps, StartRmKeeps
    <3>6. CASE \E d \in Doc : Reserve(d) \/ Finalize(d) \/ Abandon(d)
      BY <2>1, <3>6, CommitsKeep
    <3>7. CASE \E d \in Doc : Transfer(Up(d), d) \/ Transfer(Rm(d), d)
      BY <2>1, <3>7, TransferKeeps
    <3>8. CASE \E d \in Doc : IngestVectors(d) \/ IngestEnds(d) \/ Cleanup(d)
      BY <2>1, <3>8, IngestVectorsKeeps, IngestEndsKeeps, CleanupKeeps
    <3>9. CASE Sync \/ StartDelete \/ Retry \/ DeleteChroma \/ DeleteRows
      BY <2>1, <3>9, SyncKeeps, StartDeleteKeeps, RetryKeeps, DeleteChromaKeeps, DeleteRowsKeeps
    <3>10. CASE Probe \/ RefuseBusy
      BY <2>1, <3>10, DeleteRefused DEF Probe, RefuseBusy, Checked, Past
    <3>11. QED BY <2>1, <3>1, <3>2, <3>3, <3>4, <3>5, <3>6, <3>7, <3>8, <3>9, <3>10 DEF Next
  <2>2. ASSUME ProjectInv, UNCHANGED vars PROVE ProjectInv'
    <3>1. UNCHANGED <<exists, doc, pending, files, vectors, memory, op, has, known, faults>>
      BY <2>2 DEF vars, data
    <3>2. LockTypes' /\ LocksExclude'
      <4>1. LockTypes /\ LocksExclude
        BY <2>2 DEF ProjectInv
      <4>2. LockTypes'
        BY <4>1, <3>1 DEF LockTypes
      <4>3. LocksExclude'
        BY <4>1, <3>1 DEF LocksExclude, DeletionHas
      <4>4. QED BY <4>2, <4>3
    <3>3. RowsAgree' /\ ProjectWhole'
      BY <2>2, <3>1 DEF ProjectInv, RowsAgree, Busy, ProjectWhole
    <3>4. QED BY <3>2, <3>3 DEF ProjectInv
  <2>3. QED BY <2>1, <2>2
<1>3. QED BY <1>1, <1>2, PTL DEF Spec

(* A project is whole or gone, however uploads, removals and its deletion interleave *)
(* (api/project.py:183-287).                                                            *)
THEOREM ProjectAlwaysWhole == Spec => []ProjectWhole
<1>1. ProjectInv => ProjectWhole
  BY DEF ProjectInv
<1>2. QED BY <1>1, ProjectInvAlways, PTL

-----------------------------------------------------------------------------
(* The deletion in no deadlock.  No transaction but an ingest gets its last lock *)
(* before it ends, and an ingest is of a document that is processed.              *)
LocksBounded ==
    /\ has[Del] <= Cardinality(known) + 2
    /\ \A t \in Thread \ {Del} :
          op[t] # "idle" => has[t] <= (IF op[t] \in {"ingest", "transfer"} THEN 2 ELSE 1)
    /\ \A d \in Doc : op[Up(d)] = "ingest" => doc[d] = "processing"

(* The rows of the users come first in the deletion's order. *)
LEMMA UsersComeFirst ==
    ASSUME NEW K \in SUBSET ToSet(Users), IsFiniteSet(K), NEW k \in 1..Cardinality(K)
    PROVE  \E x : DeleteOrder[K][k] = {<<"user", x>>}
<1> DEFINE n == Cardinality(K)
           user(i) == {<<"user", SelectSeq(Users, LAMBDA u : u \in K)[i]>>}
           first == [i \in 1..n |-> user(i)]
           last == <<{Project}, {<<"doc", d>> : d \in Doc}>>
           E == {user(i) : i \in 1..n} \cup {{Project}, {<<"doc", d>> : d \in Doc}}
<1>1. n \in Nat /\ k \in 1..n
  BY FS_CardinalityType
<1>2. DeleteOrder[K] = first \o last
  BY DEF DeleteOrder
<1>3. first[k] = {<<"user", SelectSeq(Users, LAMBDA u : u \in K)[k]>>}
  BY <1>1
<1> HIDE DEF n, user
<1>4. first \in Seq(E) /\ Len(first) = n /\ last \in Seq(E) /\ Len(last) = 2
  BY <1>1
<1> HIDE DEF first, last, E
<1>5. (first \o last)[k] = first[k]
  BY <1>1, <1>4, ConcatProperties
<1>6. QED BY <1>2, <1>3, <1>5

(* Without the project lock the deletion holds rows of users only. *)
LEMMA DeletionHoldsUsers ==
    ASSUME LockTypes, ~DeletionHas(1)
    PROVE  ~Holds(Del, Project) /\ \A d \in Doc : ~Holds(Del, <<"doc", d>>)
<1>1. /\ Cardinality(known) \in Nat /\ has[Del] \in Nat
      /\ op[Del] # "idle" => has[Del] <= Cardinality(known)
  <2>1. Cardinality(known) \in Nat /\ has[Del] \in Nat
    BY DeletionOrder, Distinct DEF LockTypes
  <2>2. QED BY <2>1 DEF DeletionHas
<1>2. op[Del] # "idle" => \A k \in 1..has[Del] : \E x : OrderOf(Del)[k] = {<<"user", x>>}
  <2>1. SUFFICES ASSUME op[Del] # "idle", NEW k \in 1..has[Del]
                 PROVE  \E x : OrderOf(Del)[k] = {<<"user", x>>}
    OBVIOUS
  <2>2. k \in 1..Cardinality(known)
    BY <1>1, <2>1
  <2>3. known \in SUBSET ToSet(Users) /\ IsFiniteSet(known)
    BY DEF LockTypes
  <2>4. \E x : DeleteOrder[known][k] = {<<"user", x>>}
    BY <2>2, <2>3, UsersComeFirst
  <2>5. QED BY <2>4 DEF OrderOf
<1>3. \A x : Project # <<"user", x>> /\ \A d \in Doc : <<"doc", d>> # <<"user", x>>
  BY DEF Project
<1>4. QED BY <1>2, <1>3 DEF Holds

(* Whoever waits, waits for the project or for a document. *)
LEMMA OthersWaitLater ==
    ASSUME LockTypes, LocksBounded, NEW t \in Thread \ {Del}, Blockers(t) # {}
    PROVE  \E rows : /\ Blockers(t) = Holders(t, op[t], rows)
                     /\ rows = {Project} \/ \E d \in Doc : rows = {<<"doc", d>>}
<1>1. PICK d \in Doc : t \in {Up(d), Rm(d)}
  BY Distinct
<1>2. op[t] # "idle" /\ has[t] # Len(OrderOf(t)) /\ Blockers(t) = Holders(t, op[t], OrderOf(t)[has[t] + 1])
  BY DEF Blockers
<1>3. /\ op[t] \in UploadOps /\ OrderOf(t) = Rows(op[t], d) /\ OrderOf(t)[2] = {Project}
      /\ Len(OrderOf(t)) = IF op[t] = "transfer" THEN 3 ELSE 2
  BY <1>1, <1>2, ThreadOrder
<1>4. has[t] \in 1..2
  BY <1>2 DEF LockTypes, LocksBounded
<1>5. CASE has[t] = 1
  BY <1>2, <1>3, <1>5
<1>6. CASE has[t] = 2
  <2>1. op[t] = "transfer"
    BY <1>2, <1>3, <1>6
  <2>2. OrderOf(t) = <<{<<"user", OwnerOf[d]>>}, {Project}, {<<"doc", d>>}>>
    BY <1>3, <2>1 DEF Rows
  <2>3. QED BY <1>2, <1>6, <2>2
<1>7. QED BY <1>4, <1>5, <1>6

(* Documents are held by ingests and by a deletion that has them all. *)
LEMMA DocumentsHeldByIngests ==
    ASSUME LockTypes, LocksBounded, NEW t \in Thread \ {Del}, NEW d \in Doc, Holds(t, <<"doc", d>>)
    PROVE  \E e \in Doc : doc[e] = "processing"
<1>1. PICK e \in Doc : t \in {Up(e), Rm(e)}
  BY Distinct
<1>2. PICK k \in 1..has[t] : op[t] # "idle" /\ <<"doc", d>> \in OrderOf(t)[k]
  BY DEF Holds
<1>3. k \in 1..2 /\ (op[t] \notin {"ingest", "transfer"} => k = 1)
  BY <1>2 DEF LockTypes, LocksBounded
<1>4. op[t] \in UploadOps /\ OrderOf(t) = Rows(op[t], e) /\ OrderOf(t)[2] = {Project}
  BY <1>1, <1>2, ThreadOrder
<1>5. <<"doc", d>> \notin {Project}
  BY DEF Project
<1>6. k = 1
  BY <1>2, <1>3, <1>4, <1>5
<1>7. op[t] # "ingest" => OrderOf(t)[1] = {<<"user", OwnerOf[e]>>}
  BY <1>4 DEF Rows, UploadOps
<1>8. <<"doc", d>> \notin {<<"user", OwnerOf[e]>>}
  OBVIOUS
<1>9. op[t] = "ingest"
  BY <1>2, <1>6, <1>7, <1>8
<1>10. t = Up(e)
  BY <1>1, <1>9 DEF LockTypes
<1>11. QED BY <1>9, <1>10 DEF LocksBounded

(* As long as the deletion waits, nobody waits for it. *)
LEMMA NobodyWaitsForDeletion ==
    ASSUME LockTypes, LocksBounded, RowsAgree, Blockers(Del) # {}, NEW t \in Thread
    PROVE  Del \notin Blockers(t)
<1>1. ~DeletionHas(1)
  <2>1. SUFFICES ASSUME DeletionHas(1) PROVE FALSE
    OBVIOUS
  <2>2. /\ Cardinality(known) \in Nat /\ has[Del] \in Nat
        /\ Len(OrderOf(Del)) = Cardinality(known) + 2
        /\ OrderOf(Del)[Cardinality(known) + 2] = {<<"doc", d>> : d \in Doc}
    BY DeletionOrder, Distinct DEF LockTypes, OrderOf
  <2>3. op[Del] # "idle" /\ has[Del] # Len(OrderOf(Del)) /\ ~(Past(1) /\ ~(exists /\ NoneProcessing))
        /\ Blockers(Del) = Holders(Del, op[Del], OrderOf(Del)[has[Del] + 1])
    BY DEF Blockers
  <2>4. has[Del] = Cardinality(known) + 1
    BY <2>1, <2>2, <2>3 DEF DeletionHas, LocksBounded
  <2>5. PICK u \in Thread \ {Del}, d \in Doc : Holds(u, <<"doc", d>>)
    BY <2>2, <2>3, <2>4 DEF Holders
  <2>6. ~NoneProcessing
    BY <2>5, DocumentsHeldByIngests DEF NoneProcessing
  <2>7. op[Del] = "files"
    BY <2>3, <2>4, <2>6 DEF Past, LockTypes
  <2>8. QED BY <2>2, <2>4, <2>7 DEF RowsAgree
<1>2. CASE t = Del
  BY <1>2 DEF Blockers, Holders
<1>3. CASE t # Del
  <2>1. SUFFICES ASSUME Blockers(t) # {} PROVE Del \notin Blockers(t)
    OBVIOUS
  <2>2. PICK rows : /\ Blockers(t) = Holders(t, op[t], rows)
                    /\ rows = {Project} \/ \E d \in Doc : rows = {<<"doc", d>>}
    BY <1>3, <2>1, OthersWaitLater
  <2>3. \A r \in rows : ~Holds(Del, r)
    BY <1>1, <2>2, DeletionHoldsUsers
  <2>4. QED BY <2>2, <2>3 DEF Holders
<1>4. QED BY <1>2, <1>3

(* So all but the deletion are a set that holds whom they wait for. *)
LEMMA NoDeadlock ==
    ASSUME LockTypes, LocksBounded, RowsAgree
    PROVE  DeletionNeverDeadlocks
<1> DEFINE waits == UNION {{u} \X (Blockers(u) \cap Thread) : u \in Thread \cup {Del}}
           Others == Thread \ {Del}
<1>1. CASE Blockers(Del) = {}
  BY <1>1 DEF DeletionNeverDeadlocks, WaitsFor
<1>2. CASE Blockers(Del) # {}
  <2>1. \A edge \in waits : edge[1] \in Others \cup {Del} => edge[2] \in Others
    <3>1. SUFFICES ASSUME NEW edge \in waits PROVE edge[2] \in Others
      OBVIOUS
    <3>2. PICK u \in Thread : edge \in {u} \X (Blockers(u) \cap Thread)
      BY <3>1, Distinct
    <3>3. edge[2] \in Blockers(u) \cap Thread
      BY <3>2
    <3>4. QED BY <3>3, <1>2, NobodyWaitsForDeletion
  <2>2. Others \in SUBSET Thread /\ Del \notin Others
    OBVIOUS
  <2>3. WaitsFor(Del, Thread) =
          {u \in Thread : \A S \in SUBSET Thread :
              (\A edge \in waits : edge[1] \in S \cup {Del} => edge[2] \in S) => u \in S}
    BY <1>2 DEF WaitsFor
  <2> HIDE DEF waits, Others
  <2>4. QED BY <2>1, <2>2, <2>3 DEF DeletionNeverDeadlocks
<1>3. QED BY <1>1, <1>2

-----------------------------------------------------------------------------
(* Steps that move no lock and no document. *)
LEMMA BoundsOfSameLocks ==
    ASSUME LocksBounded, UNCHANGED <<doc, op, has, known>>
    PROVE  LocksBounded'
BY DEF LocksBounded

(* Begin and end of a transaction of an upload or a removal. *)
LEMMA BoundsAfterBegin ==
    ASSUME ProjectInv, LocksBounded, NEW d \in Doc, NEW t \in {Up(d), Rm(d)}, NEW o \in UploadOps,
           Begin(t, o), UNCHANGED <<doc, known>>, o = "ingest" => doc[d] = "processing" /\ t = Up(d)
    PROVE  LocksBounded'
<1>1. /\ t \in Thread \ {Del} /\ op'[t] = o /\ has'[t] = 1
      /\ \A u \in Thread \ {t} : op'[u] = op[u] /\ has'[u] = has[u]
  BY OtherThread
<1>2. QED BY <1>1, Distinct DEF LocksBounded

LEMMA BoundsAfterEnd ==
    ASSUME ProjectInv, LocksBounded, NEW d \in Doc, NEW t \in {Up(d), Rm(d)}, End(t), UNCHANGED known,
           \A e \in Doc : doc'[e] = doc[e] \/ op[Up(e)] # "ingest" \/ t = Up(e)
    PROVE  LocksBounded'
<1>1. /\ t \in Thread \ {Del} /\ op'[t] = "idle"
      /\ \A u \in Thread \ {t} : op'[u] = op[u] /\ has'[u] = has[u]
  BY OtherThread
<1>2. \A e \in Doc : op'[Up(e)] = "ingest" => t # Up(e) /\ op[Up(e)] = "ingest"
  BY <1>1, Distinct
<1>3. QED BY <1>1, <1>2, Distinct DEF LocksBounded

(* A document row is not transferred under an ingest that holds it. *)
LEMMA NoTransferUnderIngest ==
    ASSUME ProjectInv, LocksBounded, NEW d \in Doc, NEW t \in {Up(d), Rm(d)}, AtLast(t, "transfer")
    PROVE  op[Up(d)] # "ingest"
<1>1. SUFFICES ASSUME op[Up(d)] = "ingest" PROVE FALSE
  OBVIOUS
<1>2. t = Rm(d) /\ op[t] = "transfer" /\ Blockers(t) = {} /\ has[t] = Len(OrderOf(t)) - 1
  BY <1>1 DEF AtLast
<1>3. t \in Thread \ {Del} /\ Up(d) \in Thread \ {t}
  BY <1>2, Distinct
<1>4. Len(OrderOf(t)) = 3 /\ OrderOf(t) = Rows("transfer", d)
  BY <1>2, ThreadOrder DEF ProjectInv
<1>5. OrderOf(t)[has[t] + 1] = {<<"doc", d>>}
  BY <1>2, <1>4 DEF Rows
<1>6. Blockers(t) = Holders(t, "transfer", {<<"doc", d>>})
  BY <1>2, <1>3, <1>4, <1>5 DEF Blockers
<1>7. Holds(Up(d), <<"doc", d>>)
  BY <1>1, ThreadHolds DEF ProjectInv
<1>8. Up(d) \in Holders(t, "transfer", {<<"doc", d>>})
  BY <1>3, <1>7 DEF Holders, Conflict
<1>9. QED BY <1>2, <1>6, <1>8

(* A transaction gets one lock more, but the last only if it ingests. *)
LEMMA BoundsAfterAcquire ==
    ASSUME ProjectInv, LocksBounded, NEW t \in Thread \ {Del}, Acquire(t)
    PROVE  LocksBounded'
<1>1. PICK d \in Doc : t \in {Up(d), Rm(d)}
  BY Distinct
<1>2. /\ op[t] # "idle" /\ has' = [has EXCEPT ![t] = @ + 1] /\ UNCHANGED <<doc, op, known>>
      /\ has[t] < Len(OrderOf(t)) - (IF op[t] \in {"delete", "ingest"} THEN 0 ELSE 1)
  BY DEF Acquire, data
<1>3. op[t] \in UploadOps /\ Len(OrderOf(t)) = IF op[t] = "transfer" THEN 3 ELSE 2
  BY <1>1, <1>2, ThreadOrder DEF ProjectInv
<1>4. has \in [Thread -> Nat]
  BY DEF ProjectInv, LockTypes
<1>5. has[t] + 1 <= IF op[t] \in {"ingest", "transfer"} THEN 2 ELSE 1
  <2>1. has[t] \in Nat /\ "delete" \notin UploadOps
    BY <1>4 DEF UploadOps
  <2>2. QED BY <1>2, <1>3, <2>1
<1>6. QED BY <1>2, <1>4, <1>5, Distinct DEF LocksBounded

(* Steps of the deletion: it gets a lock, or none. *)
LEMMA BoundsOfDeletion ==
    ASSUME ProjectInv, LocksBounded,
           UNCHANGED doc \/ (op[Del] = "files" /\ doc' = [d \in Doc |-> "deleted"]),
           op' \in [Thread -> UploadOps \cup {"idle", "delete", "files"}], has' \in [Thread -> Nat],
           \A u \in Thread \ {Del} : op'[u] = op[u] /\ has'[u] = has[u],
           has'[Del] <= Cardinality(known') + 2
    PROVE  LocksBounded'
<1>1. op[Del] = "files" => \A d \in Doc : op[Up(d)] # "ingest"
  BY DeletionHolds DEF ProjectInv, RowsAgree, LocksExclude, DeletionHas
<1>2. QED BY <1>1, Distinct DEF LocksBounded

LEMMA BoundsKept ==
    ASSUME ProjectInv, ProjectInv', LocksBounded, Next
    PROVE  LocksBounded'
<1>0. /\ op' \in [Thread -> UploadOps \cup {"idle", "delete", "files"}] /\ has' \in [Thread -> Nat]
      /\ Cardinality(known) \in Nat /\ Cardinality(known') \in Nat /\ has[Del] \in Nat
      /\ op \in [Thread -> UploadOps \cup {"idle", "delete", "files"}] /\ has \in [Thread -> Nat]
  <2>1. IsFiniteSet(known) /\ IsFiniteSet(known')
    BY DEF ProjectInv, LockTypes
  <2>2. Cardinality(known) \in Nat /\ Cardinality(known') \in Nat
    BY <2>1, FS_CardinalityType
  <2>3. QED BY <2>2, Distinct DEF ProjectInv, LockTypes
<1> DEFINE Same == \A u \in Thread \ {Del} : op'[u] = op[u] /\ has'[u] = has[u]
<1>1. CASE \E t \in Thread : Victim(t)
  <2>1. PICK t \in Thread : Victim(t)
    BY <1>1
  <2>2. End(t) /\ UNCHANGED <<doc, known>>
    BY <2>1 DEF Victim, data
  <2>3. CASE t = Del
    <3>1. Same /\ has'[Del] = 0
      BY <1>0, <2>2, <2>3, Distinct DEF End
    <3>2. QED BY <1>0, <2>2, <3>1, BoundsOfDeletion
  <2>4. CASE t # Del
    BY <2>2, <2>4, Distinct, BoundsAfterEnd
  <2>5. QED BY <2>3, <2>4
<1>2. CASE \E t \in Thread \ {Del} : Acquire(t)
  BY <1>2, BoundsAfterAcquire
<1>3. CASE LockDocuments \/ (has[Del] < Cardinality(known) + 1 /\ Acquire(Del))
  <2>1. /\ has[Del] < Cardinality(known) + 2 /\ has' = [has EXCEPT ![Del] = @ + 1]
        /\ UNCHANGED <<doc, op, known>>
    BY <1>0, <1>3 DEF LockDocuments, Past, Acquire, data
  <2>2. Same /\ has'[Del] <= Cardinality(known') + 2
    BY <1>0, <2>1, Distinct
  <2>3. QED BY <1>0, <2>1, <2>2, BoundsOfDeletion
<1>4. CASE \E d \in Doc : StartUp(d) \/ StartRm(d)
  <2>1. PICK d \in Doc : StartUp(d) \/ StartRm(d)
    BY <1>4
  <2>2. PICK t \in {Up(d), Rm(d)}, o \in UploadOps :
          Begin(t, o) /\ (o = "ingest" => doc[d] = "processing" /\ t = Up(d))
    BY <2>1 DEF StartUp, StartRm, Start, UploadOps
  <2>3. UNCHANGED <<doc, known>>
    BY <2>1 DEF StartUp, StartRm, Start, data
  <2>4. QED BY <2>2, <2>3, BoundsAfterBegin
<1>5. CASE \E d \in Doc : Reserve(d) \/ Finalize(d) \/ Abandon(d) \/ IngestEnds(d)
  <2>1. PICK d \in Doc : Reserve(d) \/ Finalize(d) \/ Abandon(d) \/ IngestEnds(d)
    BY <1>5
  <2>2. End(Up(d)) /\ UNCHANGED known /\ \A e \in Doc \ {d} : doc'[e] = doc[e]
    BY <2>1 DEF Reserve, Finalize, Abandon, IngestEnds, Transaction, Becomes, ProjectInv, LockTypes
  <2>3. QED BY <2>2, BoundsAfterEnd
<1>6. CASE \E d \in Doc : Transfer(Up(d), d) \/ Transfer(Rm(d), d)
  <2>1. PICK d \in Doc : \E t \in {Up(d), Rm(d)} : Transfer(t, d)
    BY <1>6
  <2> PICK t \in {Up(d), Rm(d)} : Transfer(t, d)
    BY <2>1
  <2>2. End(t) /\ AtLast(t, "transfer") /\ UNCHANGED known /\ \A e \in Doc \ {d} : doc'[e] = doc[e]
    BY DEF Transfer, Transaction, Becomes, ProjectInv, LockTypes
  <2>3. op[Up(d)] # "ingest"
    BY <2>2, NoTransferUnderIngest
  <2>4. QED BY <2>2, <2>3, BoundsAfterEnd
<1>7. CASE Sync \/ \E d \in Doc : IngestVectors(d) \/ Cleanup(d)
  BY <1>7, BoundsOfSameLocks DEF Sync, IngestVectors, Cleanup
<1>8. CASE StartDelete
  <2>1. op' = [op EXCEPT ![Del] = "delete"] /\ UNCHANGED <<doc, has>> /\ op[Del] = "idle"
    BY <1>8 DEF StartDelete, Settled, data
  <2>2. Same /\ has'[Del] = 0
    BY <1>0, <2>1, Distinct DEF ProjectInv, LockTypes
  <2>3. QED BY <1>0, <2>1, <2>2, BoundsOfDeletion
<1>9. CASE DeleteEnds /\ (UNCHANGED doc \/ (op[Del] = "files" /\ doc' = [d \in Doc |-> "deleted"]))
  <2>1. Same /\ has'[Del] = 0
    BY <1>0, <1>9, Distinct DEF DeleteEnds, End
  <2>2. QED BY <1>0, <1>9, <2>1, BoundsOfDeletion
<1>10. CASE Probe \/ RefuseBusy \/ DeleteRows
  BY <1>9, <1>10 DEF Probe, RefuseBusy, DeleteRows, Settled, data
<1>11. CASE Retry
  <2>1. CASE has' = [has EXCEPT ![Del] = 0] /\ UNCHANGED op
    <3>1. Same /\ has'[Del] = 0 /\ UNCHANGED doc
      BY <1>0, <1>11, <2>1, Distinct DEF Retry, Settled, data
    <3>2. QED BY <1>0, <3>1, BoundsOfDeletion
  <2>2. CASE DeleteEnds
    BY <1>9, <1>11, <2>2 DEF Retry, Settled, data
  <2>3. QED BY <1>11, <2>1, <2>2 DEF Retry
<1>12. CASE DeleteChroma
  <2>1. op' = [op EXCEPT ![Del] = "files"] /\ UNCHANGED <<doc, has, known>>
    BY <1>12 DEF DeleteChroma
  <2>2. Same /\ has'[Del] <= Cardinality(known') + 2
    BY <1>0, <2>1, Distinct DEF LocksBounded
  <2>3. QED BY <1>0, <2>1, <2>2, BoundsOfDeletion
<1>13. QED BY <1>1, <1>2, <1>3, <1>4, <1>5, <1>6, <1>7, <1>8, <1>10, <1>11, <1>12 DEF Next

(* "Waiting for every document here would invert that order and can deadlock"        *)
(* (api/project.py:197): with the probe in its place the deletion is in no deadlock,     *)
(* whatever uploads, ingests and removals wait for each other.                            *)
THEOREM DeletionNeverInDeadlock == Spec => []DeletionNeverDeadlocks
<1>1. Init => LocksBounded
  <2>1. SUFFICES ASSUME Init PROVE LocksBounded
    OBVIOUS
  <2>2. Cardinality(known) = 0
    BY <2>1, FS_EmptySet DEF Init
  <2>3. QED BY <2>1, <2>2, Distinct DEF Init, LocksBounded
<1>2. ProjectInv /\ ProjectInv' /\ LocksBounded /\ [Next]_vars => LocksBounded'
  <2>1. CASE Next
    BY <2>1, BoundsKept
  <2>2. CASE UNCHANGED vars
    BY <2>2, BoundsOfSameLocks DEF vars, data
  <2>3. QED BY <2>1, <2>2
<1>3. ProjectInv /\ LocksBounded => DeletionNeverDeadlocks
  BY NoDeadlock DEF ProjectInv
<1>4. QED BY <1>1, <1>2, <1>3, ProjectInvAlways, PTL DEF Spec

-----------------------------------------------------------------------------
(* GithubSessions: the sessions of the GitHub App.                              *)

GithubReply == {"nothing", "connected", "pending", "error", "gone", "unknown"}
GithubTypeOK ==
    /\ gNow \in Int /\ gConnected \subseteq State
    /\ gCreated \in [State -> Int] /\ gExpired \in [State -> Int] /\ gBorn \in [State -> Int]
    /\ gPc \in [Asker -> {"idle", "prune", "serve", "expire", "drop"}]
    /\ gTarget \in [Asker -> State \cup {Github!None}]
    /\ gStale \in [Asker -> SUBSET State]
    /\ gTold \in [State -> [reply : GithubReply, at : Int]]

(* A session older than Ttl, and one whose grace is over as well. *)
Aged(s) == gBorn[s] # Github!None /\ gBorn[s] + Ttl < gNow
Outlived(s) == gBorn[s] # Github!None /\ gBorn[s] + Ttl + Grace < gNow

(* A thread drops only sessions that are aged, and a thread that prunes for a session *)
(* that has been created does so because it is gone.                                   *)
ThreadsKnow ==
    \A t \in Asker :
       /\ gPc[t] # "idle" => gTarget[t] \in State
       /\ \A x \in gStale[t] : Aged(x)
       /\ gPc[t] \in {"expire", "drop"} => Aged(gTarget[t])
       /\ gPc[t] = "drop" /\ gExpired[gTarget[t]] = Github!None => Outlived(gTarget[t])
       /\ gPc[t] = "prune" /\ gBorn[gTarget[t]] # Github!None
          => gCreated[gTarget[t]] = Github!None
(* One thread creates a session. *)
OneCreator ==
    \A t, u \in Asker :
       t # u /\ gPc[t] # "idle" /\ gPc[u] # "idle" /\ gTarget[t] = gTarget[u]
       => gBorn[gTarget[t]] # Github!None
(* A session that is neither listed nor remembered has outlived its grace. *)
SessionsEnd ==
    \A s \in State :
       /\ gCreated[s] # Github!None => gCreated[s] = gBorn[s]
       /\ gExpired[s] # Github!None =>
             gBorn[s] # Github!None /\ gBorn[s] + Ttl < gExpired[s] /\ gExpired[s] <= gNow
       /\ gBorn[s] # Github!None /\ gCreated[s] = Github!None /\ gExpired[s] = Github!None
          => Outlived(s)
       /\ gTold[s].reply = "nothing" => gBorn[s] = Github!None
       /\ gTold[s].reply \in {"gone", "unknown"} => gBorn[s] # Github!None
GithubInv ==
    /\ GithubTypeOK /\ gNow >= 0
    /\ ThreadsKnow /\ OneCreator /\ SessionsEnd /\ GoneStaysGone

LEMMA GithubInit == Github!Init => GithubInv
BY ClockAssumption DEF Github!Init, GithubInv, GithubTypeOK, ThreadsKnow, OneCreator,
   SessionsEnd,
   GoneStaysGone, Github!GoneStaysGone, Aged, Outlived, Github!None, Github!Nothing, GithubReply

LEMMA GithubTypeKept == GithubInv /\ [Github!Next]_Github!vars => GithubTypeOK'
<1> SUFFICES ASSUME GithubInv, [Github!Next]_Github!vars PROVE GithubTypeOK'
  OBVIOUS
<1> USE DEF GithubInv, GithubTypeOK, Github!None, GithubReply
<1>1. CASE Github!Tick BY <1>1 DEF Github!Tick
<1>2. ASSUME NEW t \in Asker, NEW s \in State, Github!Create(t, s) PROVE GithubTypeOK'
  BY <1>2 DEF Github!Create, Github!BeginPrune, Github!Goto
<1>3. ASSUME NEW t \in Asker, NEW s \in State, Github!Request(t, s) PROVE GithubTypeOK'
  BY <1>3 DEF Github!Request, Github!BeginPrune, Github!Goto
<1>4. ASSUME NEW t \in Asker, NEW r \in GithubReply, Github!Finish(t, r)
      PROVE  /\ gPc' \in [Asker -> {"idle", "prune", "serve", "expire", "drop"}]
             /\ gTarget' \in [Asker -> State \cup {Github!None}]
             /\ gTold' \in [State -> [reply : GithubReply, at : Int]]
  BY <1>4 DEF Github!Finish, Github!Goto
<1>5. ASSUME NEW t \in Asker, Github!Serve(t) PROVE GithubTypeOK'
  BY <1>4, <1>5 DEF Github!Serve, ThreadsKnow
<1>6. ASSUME NEW t \in Asker, Github!Expire(t) PROVE GithubTypeOK'
  BY <1>6 DEF Github!Expire, Github!Goto
<1>7. ASSUME NEW t \in Asker, Github!Drop(t) PROVE GithubTypeOK'
  <2>1. PICK r \in {"error", "gone"} : Github!Finish(t, r)
    BY <1>7 DEF Github!Drop
  <2>2. /\ gPc' \in [Asker -> {"idle", "prune", "serve", "expire", "drop"}]
        /\ gTarget' \in [Asker -> State \cup {Github!None}]
        /\ gTold' \in [State -> [reply : GithubReply, at : Int]]
    BY <1>4, <2>1
  <2>3. /\ gNow' \in Int /\ gConnected' \subseteq State /\ gStale' \in [Asker -> SUBSET State]
        /\ gCreated' \in [State -> Int] /\ gExpired' \in [State -> Int] /\ gBorn' \in [State -> Int]
    BY <1>7 DEF Github!Drop, ThreadsKnow
  <2> QED BY <2>2, <2>3
<1>8. ASSUME NEW t \in Asker, Github!PruneOne(t) PROVE GithubTypeOK'
  BY <1>4, <1>8 DEF Github!PruneOne
<1>9. ASSUME NEW t \in Asker, Github!ListFails(t) PROVE GithubTypeOK'
  BY <1>4, <1>9 DEF Github!ListFails
<1>10. ASSUME NEW t \in Asker, Github!Forget(t) PROVE GithubTypeOK'
  BY <1>4, <1>10 DEF Github!Forget
<1>11. CASE UNCHANGED Github!vars BY <1>11 DEF Github!vars
<1> QED BY <1>1, <1>2, <1>3, <1>5, <1>6, <1>7, <1>8, <1>9, <1>10, <1>11 DEF Github!Next

LEMMA GithubNext == GithubInv /\ [Github!Next]_Github!vars => GithubInv'
<1> SUFFICES ASSUME GithubInv, [Github!Next]_Github!vars PROVE GithubInv'
  OBVIOUS
<1>0. GithubTypeOK'
  BY GithubTypeKept
<1> USE ClockAssumption
    DEF GithubInv, GithubTypeOK, ThreadsKnow, OneCreator, SessionsEnd, GoneStaysGone,
        Github!GoneStaysGone, Aged, Outlived, Github!None
<1>1. CASE Github!Tick BY <1>0, <1>1 DEF Github!Tick
<1>2. ASSUME NEW t \in Asker, NEW s \in State, Github!Create(t, s) PROVE GithubInv'
  BY <1>0, <1>2 DEF Github!Create, Github!BeginPrune, Github!Goto, Github!Old, Github!Nothing
<1>3. ASSUME NEW t \in Asker, NEW s \in State, Github!Request(t, s) PROVE GithubInv'
  BY <1>0, <1>3 DEF Github!Request, Github!BeginPrune, Github!Goto, Github!Old
<1>4. ASSUME NEW t \in Asker, Github!Serve(t) PROVE GithubInv'
  <2>1. gNow' >= 0 /\ ThreadsKnow'
    BY <1>4 DEF Github!Serve, Github!Finish, Github!Goto
  <2>2. OneCreator'
    BY <1>4 DEF Github!Serve, Github!Finish, Github!Goto
  <2>3. SessionsEnd'
    BY <1>4 DEF Github!Serve, Github!Finish, Github!Goto
  <2>4. GoneStaysGone'
    BY <1>4 DEF Github!Serve, Github!Finish, Github!Goto
  <2> QED BY <1>0, <2>1, <2>2, <2>3, <2>4 DEF GithubInv
<1>5. ASSUME NEW t \in Asker, Github!Expire(t) PROVE GithubInv'
  <2>1. gNow' >= 0 /\ ThreadsKnow'
    BY <1>5 DEF Github!Expire, Github!Goto
  <2>2. OneCreator'
    BY <1>5 DEF Github!Expire, Github!Goto
  <2>3. SessionsEnd'
    BY <1>5 DEF Github!Expire, Github!Goto
  <2>4. GoneStaysGone'
    BY <1>5 DEF Github!Expire, Github!Goto
  <2> QED BY <1>0, <2>1, <2>2, <2>3, <2>4 DEF GithubInv
<1>6. ASSUME NEW t \in Asker, Github!Drop(t) PROVE GithubInv'
  <2>1. gNow' >= 0 /\ ThreadsKnow'
    BY <1>6 DEF Github!Drop, Github!Finish, Github!Goto
  <2>2. OneCreator'
    BY <1>6 DEF Github!Drop, Github!Finish, Github!Goto
  <2>3. SessionsEnd'
    BY <1>6 DEF Github!Drop, Github!Finish, Github!Goto
  <2>4. GoneStaysGone'
    BY <1>6 DEF Github!Drop, Github!Finish, Github!Goto
  <2> QED BY <1>0, <2>1, <2>2, <2>3, <2>4 DEF GithubInv
<1>7. ASSUME NEW t \in Asker, Github!PruneOne(t) PROVE GithubInv'
  <2>1. gNow' >= 0 /\ ThreadsKnow'
    BY <1>7 DEF Github!PruneOne, Github!Finish, Github!Goto
  <2>2. OneCreator'
    BY <1>7 DEF Github!PruneOne, Github!Finish, Github!Goto
  <2>3. SessionsEnd'
    <3>1. PICK x \in gStale[t] : /\ gExpired' = [gExpired EXCEPT ![x] = gNow]
                                /\ gCreated' = [gCreated EXCEPT ![x] = Github!None]
      BY <1>7 DEF Github!PruneOne
    <3>2. /\ gTold' = [gTold EXCEPT ![gTarget[t]] = [reply |-> "error", at |-> gNow]] \/ gTold' = gTold
          /\ gBorn' = gBorn /\ gNow' = gNow /\ gTarget[t] \in State /\ Aged(x)
      BY <1>7 DEF Github!PruneOne, Github!Finish
    <3>3. ASSUME NEW s \in State
          PROVE  /\ gTold'[s].reply # "error" => gTold'[s] = gTold[s]
                 /\ s # x => gCreated'[s] = gCreated[s] /\ gExpired'[s] = gExpired[s]
                 /\ s = x => gCreated'[s] = Github!None /\ gExpired'[s] = gNow
                 /\ gBorn'[s] = gBorn[s]
      BY <3>1, <3>2
    <3> QED BY <3>2, <3>3
  <2>4. GoneStaysGone'
    BY <1>7 DEF Github!PruneOne, Github!Finish, Github!Goto
  <2> QED BY <1>0, <2>1, <2>2, <2>3, <2>4 DEF GithubInv
<1>8. ASSUME NEW t \in Asker, Github!ListFails(t) PROVE GithubInv'
  <2>1. gNow' >= 0 /\ ThreadsKnow'
    BY <1>8 DEF Github!ListFails, Github!Finish, Github!Goto
  <2>2. OneCreator'
    BY <1>8 DEF Github!ListFails, Github!Finish, Github!Goto
  <2>3. SessionsEnd'
    BY <1>8 DEF Github!ListFails, Github!Finish, Github!Goto
  <2>4. GoneStaysGone'
    BY <1>8 DEF Github!ListFails, Github!Finish, Github!Goto
  <2> QED BY <1>0, <2>1, <2>2, <2>3, <2>4 DEF GithubInv
<1>9. ASSUME NEW t \in Asker, Github!Forget(t) PROVE GithubInv'
  <2>1. gNow' >= 0 /\ ThreadsKnow'
    <3>1. CASE gBorn[gTarget[t]] = Github!None
      <4>1. /\ gTarget[t] \in State /\ gPc[t] = "prune" /\ gNow' = gNow /\ gStale' = gStale
            /\ gCreated' = [gCreated EXCEPT ![gTarget[t]] = gNow]
            /\ gBorn' = [gBorn EXCEPT ![gTarget[t]] = gNow]
            /\ gExpired' = [s \in State |-> IF Github!Forgotten(s) THEN Github!None ELSE gExpired[s]]
            /\ gPc' = [gPc EXCEPT ![t] = "idle"]
            /\ gTarget' = [gTarget EXCEPT ![t] = Github!None]
        BY <1>9, <3>1 DEF Github!Forget, Github!Finish, Github!Goto
      <4>2. \A u \in Asker \ {t} : gPc[u] # "idle" => gTarget[u] # gTarget[t]
        BY <3>1, <4>1
      <4> QED BY <3>1, <4>1, <4>2 DEF Github!Forgotten
    <3>2. CASE gBorn[gTarget[t]] # Github!None BY <1>9, <3>2
                                                  DEF Github!Forget, Github!Finish,
                                                      Github!Goto, Github!Forgotten
    <3> QED BY <3>1, <3>2
  <2>2. OneCreator'
    <3>1. CASE gBorn[gTarget[t]] = Github!None BY <1>9, <3>1
                                                  DEF Github!Forget, Github!Finish,
                                                      Github!Goto, Github!Forgotten
    <3>2. CASE gBorn[gTarget[t]] # Github!None BY <1>9, <3>2
                                                  DEF Github!Forget, Github!Finish,
                                                      Github!Goto, Github!Forgotten
    <3> QED BY <3>1, <3>2
  <2>3. SessionsEnd'
    <3>1. CASE gBorn[gTarget[t]] = Github!None BY <1>9, <3>1
                                                  DEF Github!Forget, Github!Finish,
                                                      Github!Goto, Github!Forgotten
    <3>2. CASE gBorn[gTarget[t]] # Github!None BY <1>9, <3>2
                                                  DEF Github!Forget, Github!Finish,
                                                      Github!Goto, Github!Forgotten
    <3> QED BY <3>1, <3>2
  <2>4. GoneStaysGone'
    <3>1. CASE gBorn[gTarget[t]] = Github!None BY <1>9, <3>1
                                                  DEF Github!Forget, Github!Finish,
                                                      Github!Goto, Github!Forgotten
    <3>2. CASE gBorn[gTarget[t]] # Github!None BY <1>9, <3>2
                                                  DEF Github!Forget, Github!Finish,
                                                      Github!Goto, Github!Forgotten
    <3> QED BY <3>1, <3>2
  <2> QED BY <1>0, <2>1, <2>2, <2>3, <2>4 DEF GithubInv
<1>10. CASE UNCHANGED Github!vars BY <1>10 DEF Github!vars
<1> QED BY <1>1, <1>2, <1>3, <1>4, <1>5, <1>6, <1>7, <1>8, <1>9, <1>10 DEF Github!Next

(* Whatever threads create, prune, expire and forget sessions at once, a client hears *)
(* "expired" only of a session older than Ttl and "unknown" only when the grace is over *)
(* as well (router.py).                                                                  *)
THEOREM GoneAlwaysStaysGone == Github!Spec => []GoneStaysGone
<1>1. GithubInv => GoneStaysGone
  BY DEF GithubInv
<1> QED BY GithubInit, GithubNext, <1>1, PTL DEF Github!Spec

-----------------------------------------------------------------------------
(* Evidence: what one question collects.                                        *)

EvidenceTypeOK ==
    /\ eRows \subseteq Item /\ eChunks \subseteq Item /\ eRemoved \subseteq Item
    /\ eBy \in [Item -> Item \cup {NoItem}] /\ eByThen \in [Item -> Item \cup {NoItem}]
    /\ eActive \in 0..ItemGens /\ eScope \in 0..ItemGens
    /\ ePc \in {"load", "search", "chunks", "rank", "done"}
    /\ eTopic \subseteq Item /\ eFound \subseteq Item /\ eCorpus \subseteq Item
    /\ eKept \subseteq eCorpus /\ eSince \in BOOLEAN

(* A generation that has been published is complete until its items are removed, and *)
(* what is removed is never stored again.                                              *)
PublishedComplete ==
    /\ eScope <= eActive
    /\ eRemoved \cap eRows = {}
    /\ \A i \in Item : Home[i] \in 0..eActive /\ i \notin eRemoved => i \in eRows \cap eChunks
(* Without a publication an edge is undone only with one of its ends. *)
EdgesUndone ==
    ~eSince => \A i \in Item :
        eByThen[i] # NoItem =>
            \/ eBy[i] = eByThen[i]
            \/ i \in eRemoved
            \/ eByThen[i] \in eRemoved
NothingYet == /\ ePc = "load" => eFound = {} /\ eCorpus = {}
              /\ ePc \notin {"rank", "done"} => eKept = {}
EvidenceInv == EvidenceTypeOK /\ PublishedComplete /\ EdgesUndone /\ NothingYet
               /\ EvidenceFromOneGeneration

LEMMA EvidenceInit == Question!Init => EvidenceInv
<1> SUFFICES ASSUME Question!Init PROVE EvidenceInv
  OBVIOUS
<1> USE EvidenceAssumption DEF Question!Init, Question!Of
<1>1. EvidenceTypeOK
  <2>1. eRows \subseteq Item /\ eChunks \subseteq Item /\ eTopic \subseteq Item
    BY Zenon
  <2>2. eBy \in [Item -> Item \cup {NoItem}] /\ eByThen \in [Item -> Item \cup {NoItem}]
    OBVIOUS
  <2>3. eActive \in 0..ItemGens /\ eScope \in 0..ItemGens
    OBVIOUS
  <2> QED BY <2>1, <2>2, <2>3 DEF EvidenceTypeOK
<1>2. PublishedComplete
  BY DEF PublishedComplete
<1>3. EdgesUndone /\ NothingYet
  BY DEF EdgesUndone, NothingYet
<1>4. EvidenceFromOneGeneration
  BY DEF EvidenceFromOneGeneration, Question!EvidenceFromOneGeneration
<1> QED BY <1>1, <1>2, <1>3, <1>4 DEF EvidenceInv

LEMMA EvidenceNext == EvidenceInv /\ [Question!Next]_Question!vars => EvidenceInv'
<1> SUFFICES ASSUME EvidenceInv, [Question!Next]_Question!vars PROVE EvidenceInv'
  OBVIOUS
<1> USE EvidenceAssumption DEF EvidenceInv
<1> DEFINE Asked == UNCHANGED <<ePc, eScope, eTopic, eFound, eCorpus, eKept, eByThen>>
(* A step of the world keeps what the question has, and adds to what is removed. *)
<1>1. ASSUME Asked, eRemoved \subseteq eRemoved', eSince => eSince'
      PROVE  EvidenceFromOneGeneration' /\ NothingYet'
  <2>1. \A i \in Item : (Question!Visible(i, eScope))' = Question!Visible(i, eScope)
    BY <1>1 DEF Question!Visible
  <2> QED BY <1>1, <2>1 DEF EvidenceFromOneGeneration, Question!EvidenceFromOneGeneration,
         NothingYet, Question!Of, Question!Visible, EvidenceTypeOK
<1>2. ASSUME Question!World, Asked, eSince' = eSince PROVE EvidenceInv'
  <2> USE DEF EvidenceTypeOK, PublishedComplete, EdgesUndone
  <2>1. ASSUME NEW i \in Item, Question!StoreRow(i) PROVE EvidenceInv'
    BY <1>1, <1>2, <2>1 DEF Question!StoreRow, Question!Writable
  <2>2. ASSUME NEW i \in Item, Question!StoreChunk(i) PROVE EvidenceInv'
    BY <1>1, <1>2, <2>2 DEF Question!StoreChunk, Question!Writable
  <2>3. ASSUME NEW i \in Item, Question!DropChunk(i) PROVE EvidenceInv'
    BY <1>1, <1>2, <2>3 DEF Question!DropChunk
  <2>4. ASSUME NEW i \in Item, Question!DeleteDocument(i) PROVE EvidenceInv'
    BY <1>1, <1>2, <2>4 DEF Question!DeleteDocument, Question!Remove, Question!Of
  <2>5. ASSUME NEW i \in Item, NEW j \in Item, Question!Accept(i, j) PROVE EvidenceInv'
    BY <1>1, <1>2, <2>5 DEF Question!Accept
  <2>6. CASE Question!Sweep
    BY <1>1, <1>2, <2>6 DEF Question!Sweep, Question!Of
  <2>7. CASE Question!DeleteRepository
    BY <1>1, <1>2, <2>7 DEF Question!DeleteRepository, Question!Remove, Question!Of
  <2> QED BY <1>2, <2>1, <2>2, <2>3, <2>4, <2>5, <2>6, <2>7 DEF Question!World
<1>3. ASSUME Question!Publish, Asked, eSince' = TRUE PROVE EvidenceInv'
  <2>1. EvidenceTypeOK'
    BY <1>3 DEF Question!Publish, EvidenceTypeOK
  <2>2. PublishedComplete'
    BY <1>3 DEF Question!Publish, Question!Of, EvidenceTypeOK, PublishedComplete
  <2>3. EdgesUndone'
    BY <1>3 DEF EdgesUndone
  <2>4. EvidenceFromOneGeneration' /\ NothingYet'
    BY <1>1, <1>3 DEF Question!Publish
  <2> QED BY <2>1, <2>2, <2>3, <2>4
<1>4. CASE Question!LoadScope /\ UNCHANGED Question!index
  <2>1. EvidenceTypeOK' /\ NothingYet'
    BY <1>4 DEF Question!LoadScope, Question!index, EvidenceTypeOK, NothingYet
  <2>2. EdgesUndone' /\ PublishedComplete'
    BY <1>4 DEF Question!LoadScope, Question!index, EdgesUndone, EvidenceTypeOK,
       PublishedComplete
  <2>3. EvidenceFromOneGeneration'
    BY <1>4 DEF Question!LoadScope, NothingYet, EvidenceTypeOK, EvidenceFromOneGeneration,
       Question!EvidenceFromOneGeneration
  <2> QED BY <2>1, <2>2, <2>3
<1> DEFINE Stored == UNCHANGED <<Question!index, eByThen, eSince>>
<1>5. CASE Question!Search /\ Stored
  <2>1. PICK admitted \in SUBSET Item :
           /\ admitted = {i \in eTopic : Question!Current(i)}
           /\ eFound' \subseteq admitted
    BY <1>5 DEF Question!Search, EvidenceTypeOK
  <2>2. EvidenceTypeOK' /\ PublishedComplete' /\ EdgesUndone' /\ NothingYet'
    BY <1>5, <2>1 DEF Question!Search, Question!index, EvidenceTypeOK, PublishedComplete,
       EdgesUndone, NothingYet
  <2>3. \A i \in eFound' : i \in eRows /\ Question!Visible(i, eScope) /\
                           ~(eBy[i] # NoItem /\ Question!Visible(eBy[i], eScope))
    BY <2>1 DEF Question!Current
  <2>4. ~eSince => \A i \in eFound' : eByThen[i] \notin eFound'
    BY <2>1, <2>3 DEF EdgesUndone, EvidenceTypeOK, PublishedComplete
  <2> QED BY <1>5, <2>1, <2>2, <2>3, <2>4 DEF Question!Search, Question!index, Question!Visible,
         EvidenceFromOneGeneration, Question!EvidenceFromOneGeneration, EvidenceTypeOK
<1>6. CASE Question!GetChunks /\ Stored
  <2>1. EvidenceTypeOK' /\ PublishedComplete' /\ EdgesUndone' /\ NothingYet'
    BY <1>6 DEF Question!GetChunks, Question!index, EvidenceTypeOK, PublishedComplete,
       EdgesUndone,
       NothingYet
  <2>2. (Question!Of(eScope) \cap eTopic) \ eRemoved \subseteq eCorpus'
    BY <1>6 DEF Question!GetChunks, Question!Of, Question!Visible, EvidenceTypeOK,
       PublishedComplete
  <2> QED BY <1>6, <2>1, <2>2
             DEF Question!GetChunks, Question!index, Question!Visible, Question!Of,
         EvidenceTypeOK, EvidenceFromOneGeneration, Question!EvidenceFromOneGeneration
<1>7. CASE Question!Rank /\ Stored
  BY <1>7 DEF Question!Rank, Question!index, Question!Visible, Question!Of, EvidenceTypeOK,
     PublishedComplete, EdgesUndone, NothingYet, EvidenceFromOneGeneration,
     Question!EvidenceFromOneGeneration
<1>8. CASE UNCHANGED Question!vars
  BY <1>1, <1>8 DEF Question!vars, Question!index, Question!question, EvidenceTypeOK,
     PublishedComplete, EdgesUndone
<1> QED BY <1>2, <1>3, <1>4, <1>5, <1>6, <1>7, <1>8
           DEF Question!Next, Question!question, Question!index

(* However documents are deleted, decisions superseded and generations published while *)
(* a question is collected, its evidence is of the one generation that was published     *)
(* when it came, and complete (qa_engine.py).                                             *)
THEOREM EvidenceAlwaysFromOneGeneration == Question!Spec => []EvidenceFromOneGeneration
<1>1. EvidenceInv => EvidenceFromOneGeneration
  BY DEF EvidenceInv
<1> QED BY EvidenceInit, EvidenceNext, <1>1, PTL DEF Question!Spec

-----------------------------------------------------------------------------
(* Readiness: the shared probes of /health/ready.                               *)

Waits == {"not_asked", "waiting", "ok", "failed", "timeout"}
ReadinessTypeOK ==
    /\ rUp \subseteq Checks /\ rRunning \subseteq Checks /\ rGood \subseteq Checks
    /\ rQueue \in Seq(Checks)
    /\ rPending \in [Checks -> {"none", "pending", "ok", "failed"}]
    /\ rSampled \in [Checks -> {"none", "ok", "failed"}]
    /\ rGot \in [ReadyRequest -> [Checks -> Waits]]
    /\ rReply \in [ReadyRequest -> {"none", "waiting", "ready", "not_ready"}]
    /\ rEarned \in [ReadyRequest -> SUBSET Checks]

(* A run that has found its dependency in order earns the answer. *)
RunsEarn ==
    /\ rRunning \cap rUp \subseteq rGood
    /\ \A p \in Checks : rSampled[p] = "ok" => p \in rGood
    /\ \A p \in Checks : rSampled[p] # "none" => p \in rRunning
    /\ \A r \in ReadyRequest, p \in Checks : rGot[r][p] = "ok" => p \in rEarned[r]
    /\ \A r \in ReadyRequest : rReply[r] = "ready" => \A p \in Checks : rGot[r][p] = "ok"
(* Each probe with a pending future is in the pool, once. *)
InPool == {p \in Checks : rPending[p] = "pending"}
PoolOnce ==
    /\ rRunning \subseteq InPool
    /\ \A i \in 1..Len(rQueue) : rQueue[i] \in InPool \ rRunning
    /\ \A i, j \in 1..Len(rQueue) : i # j => rQueue[i] # rQueue[j]
    /\ Len(rQueue) + Cardinality(rRunning) = Cardinality(InPool)
ReadinessInv == ReadinessTypeOK /\ RunsEarn /\ PoolOnce

LEMMA PoolFinite == ReadinessTypeOK => IsFiniteSet(rRunning) /\ IsFiniteSet(InPool)
                    /\ Cardinality(InPool) <= Cardinality(Checks)
                    /\ Cardinality(rRunning) \in Nat /\ Cardinality(InPool) \in Nat
BY FS_Subset, FS_CardinalityType, ReadinessAssumption DEF ReadinessTypeOK, InPool

LEMMA HealthCardinality == \A S : Health!Cardinality(S) = Cardinality(S)
BY DEF Health!Cardinality, Cardinality

LEMMA ReadinessHolds == ReadinessInv => ReadyIsEarned
<1> SUFFICES ASSUME ReadinessInv PROVE ReadyIsEarned
  OBVIOUS
<1>1. ASSUME NEW r \in ReadyRequest, rReply[r] = "ready" PROVE rEarned[r] = Checks
  <2>1. \A p \in Checks : p \in rEarned[r]
    BY <1>1 DEF ReadinessInv, RunsEarn
  <2>2. rEarned[r] \subseteq Checks
    BY DEF ReadinessInv, ReadinessTypeOK
  <2> QED BY <2>1, <2>2
<1>2. \A p \in Checks : rPending[p] # "pending" => p \notin rRunning \cup Range(rQueue)
  BY DEF ReadinessInv, ReadinessTypeOK, PoolOnce, InPool, Range
<1>3. Len(rQueue) + Cardinality(rRunning) <= Cardinality(Checks)
  BY PoolFinite DEF ReadinessInv, PoolOnce
<1> QED BY <1>1, <1>2, <1>3, HealthCardinality
           DEF ReadyIsEarned, Health!ReadyIsEarned, Health!Range, Range

LEMMA ReadinessInit == Health!Init => ReadinessInv
<1> SUFFICES ASSUME Health!Init PROVE ReadinessInv
  OBVIOUS
<1>1. ReadinessTypeOK /\ RunsEarn
  BY DEF Health!Init, Health!NotAsked, ReadinessTypeOK, RunsEarn, Waits
<1>2. InPool = {}
  BY DEF Health!Init, InPool
<1> QED BY <1>1, <1>2, FS_EmptySet DEF Health!Init, PoolOnce, ReadinessInv

LEMMA ReadinessNext == ReadinessInv /\ [Health!Next]_Health!vars => ReadinessInv'
<1> SUFFICES ASSUME ReadinessInv, [Health!Next]_Health!vars PROVE ReadinessInv'
  OBVIOUS
<1> USE DEF ReadinessInv
(* Steps that leave the pool alone. *)
<1>0. ASSUME UNCHANGED <<rQueue, rRunning, rPending>> PROVE PoolOnce'
  BY <1>0 DEF PoolOnce, InPool
<1>1. CASE Health!Change
  BY <1>0, <1>1 DEF Health!Change, ReadinessTypeOK, RunsEarn
<1>2. ASSUME NEW r \in ReadyRequest, Health!Arrive(r) PROVE ReadinessInv'
  BY <1>0, <1>2 DEF Health!Arrive, Health!NotAsked, ReadinessTypeOK, RunsEarn, Waits
<1>3. ASSUME NEW r \in ReadyRequest, Health!Reply(r) PROVE ReadinessInv'
  BY <1>0, <1>3 DEF Health!Reply, ReadinessTypeOK, RunsEarn
<1>4. ASSUME NEW r \in ReadyRequest, Health!OverallTimeout(r) PROVE ReadinessInv'
  <2>0. [p \in Checks |-> "timeout"] \in [Checks -> Waits]
    BY DEF Waits
  <2>1. ReadinessTypeOK'
    <3>1. rGot' \in [ReadyRequest -> [Checks -> Waits]]
      <4> DEFINE late == [p \in Checks |-> "timeout"]
      <4>1. rGot' = [rGot EXCEPT ![r] = late] /\ late \in [Checks -> Waits]
        BY <1>4, <2>0 DEF Health!OverallTimeout
      <4> HIDE DEF late
      <4> QED BY <4>1 DEF ReadinessTypeOK
    <3> QED BY <1>4, <3>1 DEF Health!OverallTimeout, ReadinessTypeOK
  <2>2. RunsEarn'
    BY <1>4 DEF Health!OverallTimeout, ReadinessTypeOK, RunsEarn
  <2> QED BY <1>0, <1>4, <2>1, <2>2 DEF Health!OverallTimeout
<1>5. ASSUME NEW r \in ReadyRequest, NEW p \in Checks, Health!TimeOut(r, p) PROVE ReadinessInv'
  BY <1>0, <1>5 DEF Health!TimeOut, ReadinessTypeOK, RunsEarn, Waits
<1>6. ASSUME NEW p \in Checks, Health!Sample(p) PROVE ReadinessInv'
  BY <1>0, <1>6 DEF Health!Sample, ReadinessTypeOK, RunsEarn
<1>7. ASSUME NEW r \in ReadyRequest, NEW p \in Checks, Health!Run(r, p) PROVE ReadinessInv'
  <2>0. /\ rGot' \in [ReadyRequest -> [Checks -> Waits]]
        /\ \A q \in ReadyRequest, c \in Checks : rGot'[q][c] \in {rGot[q][c], "waiting"}
        /\ rReply[r] = "waiting"
    BY <1>7 DEF Health!Run, Health!Future, ReadinessTypeOK, Waits
  <2>1. ReadinessTypeOK'
    <3>1. /\ rQueue' \in Seq(Checks)
          /\ rPending' \in [Checks -> {"none", "pending", "ok", "failed"}]
      <4>1. Append(rQueue, p) \in Seq(Checks)
        BY DEF ReadinessTypeOK
      <4>2. [rPending EXCEPT ![p] = "pending"] \in [Checks -> {"none", "pending", "ok", "failed"}]
        BY DEF ReadinessTypeOK
      <4>3. \/ UNCHANGED <<rQueue, rPending>>
            \/ rQueue' = Append(rQueue, p) /\ rPending' = [rPending EXCEPT ![p] = "pending"]
        BY <1>7 DEF Health!Run, Health!Future
      <4> QED BY <4>1, <4>2, <4>3 DEF ReadinessTypeOK
    <3>2. UNCHANGED <<rUp, rRunning, rReply, rSampled, rGood, rEarned>>
      BY <1>7 DEF Health!Run
    <3> QED BY <2>0, <3>1, <3>2 DEF ReadinessTypeOK
  <2>9. RunsEarn'
    <3>1. \A q \in ReadyRequest \ {r}, c \in Checks : rGot'[q][c] = rGot[q][c]
      BY <1>7 DEF Health!Run, Health!Future, ReadinessTypeOK
    <3>2. UNCHANGED <<rUp, rRunning, rReply, rSampled, rGood, rEarned>>
      BY <1>7 DEF Health!Run
    <3> QED BY <2>0, <3>1, <3>2 DEF RunsEarn
  <2>2. CASE rPending[p] = "pending"
    BY <1>0, <1>7, <2>1, <2>9, <2>2 DEF Health!Run, Health!Future
  <2>3. CASE rPending[p] # "pending"
    <3>1. /\ rQueue' = Append(rQueue, p) /\ rRunning' = rRunning
          /\ rPending' = [rPending EXCEPT ![p] = "pending"]
      BY <1>7, <2>3 DEF Health!Run, Health!Future
    <3>2. InPool' = InPool \cup {p} /\ p \notin InPool
      BY <2>3, <3>1 DEF InPool, ReadinessTypeOK
    <3>3. /\ Len(rQueue') = Len(rQueue) + 1 /\ rQueue'[Len(rQueue) + 1] = p
          /\ \A i \in 1..Len(rQueue) : rQueue'[i] = rQueue[i]
      BY <3>1 DEF ReadinessTypeOK
    <3>4. Cardinality(InPool') = Cardinality(InPool) + 1
      BY <3>2, PoolFinite, FS_AddElement
    <3>5. Len(rQueue) \in Nat
      BY DEF ReadinessTypeOK
    <3>6. \A i \in 1..Len(rQueue') : rQueue'[i] \in InPool' \ rRunning'
      BY <3>1, <3>2, <3>3, <3>5 DEF PoolOnce
    <3>7. \A i, j \in 1..Len(rQueue') : i # j => rQueue'[i] # rQueue'[j]
      BY <3>2, <3>3, <3>5 DEF PoolOnce
    <3>8. Len(rQueue') + Cardinality(rRunning') = Cardinality(InPool')
      BY <3>1, <3>3, <3>4, <3>5, PoolFinite DEF PoolOnce
    <3> QED BY <2>1, <2>9, <3>1, <3>2, <3>6, <3>7, <3>8 DEF PoolOnce
  <2> QED BY <2>2, <2>3
<1>8. CASE Health!StartProbe
  <2>1. /\ rQueue # <<>> /\ rQueue' = Tail(rQueue) /\ rRunning' = rRunning \cup {Head(rQueue)}
        /\ rPending' = rPending
    BY <1>8 DEF Health!StartProbe
  <2>2. /\ Len(rQueue) \in Nat \ {0} /\ Len(rQueue') = Len(rQueue) - 1 /\ Head(rQueue) = rQueue[1]
        /\ \A i \in 1..Len(rQueue') : rQueue'[i] = rQueue[i + 1]
    BY <2>1 DEF ReadinessTypeOK
  <2>3. rQueue[1] \in InPool \ rRunning /\ InPool' = InPool /\ rQueue[1] \in Checks
    BY <2>1, <2>2 DEF PoolOnce, InPool
  <2>4. ReadinessTypeOK' /\ RunsEarn'
    BY <1>8, <2>2, <2>3 DEF Health!StartProbe, ReadinessTypeOK, RunsEarn
  <2>5. Cardinality(rRunning') = Cardinality(rRunning) + 1
    BY <2>1, <2>2, <2>3, PoolFinite, FS_AddElement
  <2>6. \A i \in 1..Len(rQueue') : rQueue'[i] \in InPool' \ rRunning'
    BY <2>1, <2>2, <2>3 DEF PoolOnce
  <2>7. \A i, j \in 1..Len(rQueue') : i # j => rQueue'[i] # rQueue'[j]
    BY <2>2 DEF PoolOnce
  <2>8. Len(rQueue') + Cardinality(rRunning') = Cardinality(InPool')
    BY <2>2, <2>3, <2>5, PoolFinite DEF PoolOnce
  <2> QED BY <2>1, <2>2, <2>3, <2>4, <2>6, <2>7, <2>8 DEF PoolOnce
<1>9. ASSUME NEW p \in Checks, Health!EndProbe(p) PROVE ReadinessInv'
  <2>1. /\ p \in rRunning /\ rRunning' = rRunning \ {p} /\ rQueue' = rQueue
        /\ rPending' = [rPending EXCEPT ![p] = rSampled[p]] /\ rSampled[p] \in {"ok", "failed"}
    BY <1>9 DEF Health!EndProbe, ReadinessTypeOK
  <2>2. InPool' = InPool \ {p} /\ p \in InPool
    BY <2>1 DEF InPool, PoolOnce, ReadinessTypeOK
  <2>3. /\ \A r \in ReadyRequest, q \in Checks :
             rGot'[r][q] = IF q = p /\ rGot[r][p] = "waiting" THEN rSampled[p] ELSE rGot[r][q]
        /\ rGot' \in [ReadyRequest -> [Checks -> Waits]]
    BY <1>9, <2>1 DEF Health!EndProbe, ReadinessTypeOK, Waits
  <2>4. /\ \A r \in ReadyRequest : rEarned[r] \subseteq rEarned'[r]
        /\ \A r \in ReadyRequest : rGot[r][p] = "waiting" /\ p \in rGood => p \in rEarned'[r]
        /\ rEarned' \in [ReadyRequest -> SUBSET Checks]
    BY <1>9 DEF Health!EndProbe, ReadinessTypeOK
  <2>5. ReadinessTypeOK'
    BY <1>9, <2>1, <2>3, <2>4 DEF Health!EndProbe, ReadinessTypeOK
  <2>6. RunsEarn'
    BY <1>9, <2>1, <2>3, <2>4 DEF Health!EndProbe, ReadinessTypeOK, RunsEarn
  <2>7. /\ Cardinality(rRunning') = Cardinality(rRunning) - 1
        /\ Cardinality(InPool') = Cardinality(InPool) - 1
    BY <2>1, <2>2, PoolFinite, FS_RemoveElement
  <2> QED BY <2>1, <2>2, <2>5, <2>6, <2>7, PoolFinite DEF PoolOnce, ReadinessTypeOK
<1>10. CASE UNCHANGED Health!vars
  BY <1>0, <1>10 DEF Health!vars, ReadinessTypeOK, RunsEarn
<1> QED BY <1>1, <1>2, <1>3, <1>4, <1>5, <1>6, <1>7, <1>8, <1>9, <1>10 DEF Health!Next

(* However requests arrive, share runs and time out, "ready" rests on a moment at which *)
(* each dependency was in order during a run that served this request, and no probe is   *)
(* in the pool twice (health.py).                                                         *)
THEOREM ReadyAlwaysEarned == Health!Spec => []ReadyIsEarned
BY ReadinessInit, ReadinessNext, ReadinessHolds, PTL DEF Health!Spec

-----------------------------------------------------------------------------
(* ChatSession: one session and its rolling summary.                            *)

LEMMA ChatCardinality == \A S : Chat!Cardinality(S) = Cardinality(S)
BY DEF Chat!Cardinality, Cardinality

LEMMA ChatMax ==
    ASSUME NEW T \in SUBSET Nat, T # {}, NEW b \in Nat, \A k \in T : k <= b
    PROVE  Chat!Max(T) \in T /\ \A k \in T : k <= Chat!Max(T)
<1>1. \E m \in T : \A k \in T : m >= k
  BY GreatestNumber
<1>2. Chat!Max(T) \in T /\ \A k \in T : Chat!Max(T) >= k
  BY <1>1 DEF Chat!Max
<1> QED BY <1>2

Summaries == [text : SUBSET Nat, upto : Nat]
ChatTypeOK ==
    /\ cExists \in BOOLEAN /\ cNextId \in Nat \ {0}
    /\ cMessages \subseteq 1..(cNextId - 1) /\ cBlind \subseteq Nat
    /\ cSummary \in Summaries /\ cSummary.upto < cNextId
    /\ cPc \in [Query -> {"new", "asked", "answered", "done"}]
    /\ cContext \in [Query -> [summary : Summaries, recent : SUBSET Nat, own : SUBSET Nat]]

(* What an open query has read is still there; a message it has not read was written by *)
(* a query it overlapped, and so was each of its own that a summary has passed.           *)
ContextStands ==
    \A q \in Query : cPc[q] \in {"asked", "answered"} =>
        LET c == cContext[q]
        IN  /\ cExists
            /\ c.own \subseteq 1..(cNextId - 1)
            /\ c.recent \subseteq cMessages /\ c.summary.text \subseteq cMessages
            /\ \A m \in cMessages : m \in c.summary.text \cup c.recent \cup cBlind
            /\ \A m \in c.own : m > cSummary.upto \/ m \in cBlind
ChatInv == ChatTypeOK /\ ContextStands /\ SessionRemembers

LEMMA ChatInit == Chat!Init => ChatInv
<1> SUFFICES ASSUME Chat!Init PROVE ChatInv
  OBVIOUS
<1> USE DEF Chat!Init, Chat!NoSummary, Chat!NoContext
<1>1. ChatTypeOK
  BY DEF ChatTypeOK, Summaries
<1>2. ContextStands
  BY DEF ContextStands
<1>3. SessionRemembers
  BY DEF SessionRemembers, Chat!SessionRemembers, Chat!Window
<1> QED BY <1>1, <1>2, <1>3 DEF ChatInv

(* What a commit writes as the summary: it tells of the older messages of the query, up  *)
(* to the youngest of them, and leaves Keep messages after it.                            *)
LEMMA CompressedTells ==
    ASSUME ChatInv, NEW q \in Query, cPc[q] = "answered",
           Cardinality(Chat!Recent(q)) > Keep
    PROVE  LET s == Chat!Compressed(q)
           IN  /\ s \in Summaries /\ s.upto < cNextId
               /\ s.text \subseteq cMessages \cup cContext[q].own
               /\ \A m \in Chat!Recent(q) : m <= s.upto => m \in s.text
               /\ cContext[q].summary.text \subseteq s.text
               /\ Cardinality({m \in Chat!Recent(q) : m > s.upto}) >= Keep
<1> DEFINE R == Chat!Recent(q)
           O == Chat!OldMessages(q)
           Above(m) == {n \in R : n > m}
<1> USE ChatAssumption
<1>1. R \subseteq 1..(cNextId - 1) /\ R \subseteq cMessages \cup cContext[q].own
  BY DEF ChatInv, ChatTypeOK, ContextStands, Chat!Recent
<1>2. cNextId \in Nat /\ IsFiniteSet(R) /\ \A m : IsFiniteSet(Above(m))
  <2>1. cNextId \in Nat /\ IsFiniteSet(1..(cNextId - 1))
    BY FS_Interval DEF ChatInv, ChatTypeOK
  <2>2. IsFiniteSet(R)
    BY <1>1, <2>1, FS_Subset
  <2> QED BY <2>1, <2>2, FS_Subset
<1> HIDE DEF R
<1>3. O = {m \in R : Cardinality(Above(m)) >= Keep}
  BY ChatCardinality DEF Chat!OldMessages, R
<1>4. R \subseteq Nat /\ R # {}
  <2>1. Cardinality(R) > Keep
    BY DEF R
  <2> QED BY <1>1, <1>2, <2>1, FS_EmptySet
<1>5. PICK least \in R : \A k \in R : least <= k
  BY <1>4, LeastNumber
<1>6. Above(least) = R \ {least}
  <2>1. ASSUME NEW n \in R PROVE n > least <=> n # least
    <3>1. n \in Nat /\ least \in Nat /\ least <= n
      BY <1>4, <1>5
    <3> QED BY <3>1
  <2> QED BY <2>1
<1>7. least \in O
  <2>1. Cardinality(Above(least)) = Cardinality(R) - 1
    BY <1>2, <1>5, <1>6, FS_RemoveElement
  <2>2. Cardinality(R) > Keep /\ Cardinality(R) \in Nat
    BY <1>2, FS_CardinalityType DEF R
  <2>3. Cardinality(Above(least)) >= Keep
    BY <2>1, <2>2
  <2> QED BY <1>3, <1>5, <2>3
<1> DEFINE top == Chat!Max(O)
<1>8. top \in O /\ \A k \in O : k <= top
  <2>1. O \in SUBSET Nat /\ O # {} /\ \A k \in O : k <= cNextId
    <3>1. \A k \in R : k \in Nat /\ k <= cNextId
      BY <1>1, <1>2
    <3>2. O \subseteq R
      BY <1>3
    <3> HIDE DEF O
    <3> QED BY <1>7, <3>1, <3>2
  <2> HIDE DEF O
  <2> QED BY <1>2, <2>1, ChatMax
<1>9. ASSUME NEW m \in R, m <= top PROVE m \in O
  <2>1. Above(top) \subseteq Above(m)
    <3>1. top \in Nat /\ m \in Nat
      BY <1>3, <1>4, <1>8
    <3>2. ASSUME NEW n \in R, n > top PROVE n > m
      <4>1. n \in Nat
        BY <1>4
      <4> QED BY <1>9, <3>1, <3>2, <4>1
    <3> QED BY <3>2
  <2>2. Cardinality(Above(top)) <= Cardinality(Above(m)) /\ Cardinality(Above(top)) \in Nat
        /\ Cardinality(Above(m)) \in Nat
    <3> HIDE DEF Above
    <3> QED BY <1>2, <2>1, FS_Subset, FS_CardinalityType
  <2>3. Cardinality(Above(top)) >= Keep
    BY <1>3, <1>8
  <2> QED BY <1>3, <2>2, <2>3
<1>10. Cardinality(Above(top)) >= Keep
  BY <1>3, <1>8
<1>11. O \subseteq R /\ top \in 1..(cNextId - 1)
  BY <1>1, <1>3, <1>8
<1>12. Chat!Compressed(q) = [text |-> cContext[q].summary.text \cup O, upto |-> top]
  BY DEF Chat!Compressed
<1>13. /\ cContext[q].summary.text \subseteq cMessages /\ cContext[q].summary.text \subseteq Nat
  BY DEF ChatInv, ChatTypeOK, ContextStands, Summaries
<1> HIDE DEF O, top
<1>14. [text |-> cContext[q].summary.text \cup O, upto |-> top] \in Summaries
  <2>1. cContext[q].summary.text \cup O \in SUBSET Nat /\ top \in Nat
    <3>1. O \subseteq Nat
      BY <1>4, <1>11
    <3>2. top \in Nat
      BY <1>2, <1>11
    <3> QED BY <1>13, <3>1, <3>2
  <2> QED BY <2>1 DEF Summaries
<1> QED BY <1>1, <1>2, <1>9, <1>10, <1>11, <1>12, <1>13, <1>14 DEF R

LEMMA ChatNext == ChatInv /\ [Chat!Next]_Chat!vars => ChatInv'
<1> SUFFICES ASSUME ChatInv, [Chat!Next]_Chat!vars PROVE ChatInv'
  OBVIOUS
<1> USE DEF ChatInv
(* The session's rows stay. *)
<1>0. ASSUME UNCHANGED <<cExists, cMessages, cSummary, cBlind>> PROVE SessionRemembers'
  BY <1>0 DEF SessionRemembers, Chat!SessionRemembers, Chat!Window, Chat!Cardinality
<1>1. ASSUME NEW q \in Query, Chat!Ask(q) PROVE ChatInv'
  <2>1. ChatTypeOK'
    <3> DEFINE c == [summary |-> cSummary, recent |-> {m \in cMessages : m > cSummary.upto},
                     own |-> {cNextId}]
    <3>1. c \in [summary : Summaries, recent : SUBSET Nat, own : SUBSET Nat]
      <4>1. cMessages \in SUBSET Nat
        BY DEF ChatTypeOK
      <4>2. {m \in cMessages : m > cSummary.upto} \in SUBSET Nat /\ {cNextId} \in SUBSET Nat
        BY <4>1 DEF ChatTypeOK
      <4> QED BY <4>2 DEF ChatTypeOK
    <3>2. cContext' = [cContext EXCEPT ![q] = c]
      BY <1>1 DEF Chat!Ask
    <3> HIDE DEF c
    <3>3. cContext' \in [Query -> [summary : Summaries, recent : SUBSET Nat, own : SUBSET Nat]]
      BY <3>1, <3>2 DEF ChatTypeOK
    <3>5. cNextId' \in Nat \ {0} /\ cMessages' \subseteq 1..(cNextId' - 1) /\ cSummary'.upto < cNextId'
      <4>1. cNextId' = cNextId + 1 /\ cMessages' = cMessages /\ cSummary' = cSummary
        BY <1>1 DEF Chat!Ask
      <4>2. \A m \in cMessages : m \in 1..(cNextId' - 1)
        BY <4>1 DEF ChatTypeOK
      <4> QED BY <4>1, <4>2 DEF ChatTypeOK, Summaries
    <3>6. cPc' \in [Query -> {"new", "asked", "answered", "done"}]
      BY <1>1 DEF Chat!Ask, Chat!Goto, ChatTypeOK
    <3> QED BY <1>1, <3>3, <3>5, <3>6 DEF Chat!Ask, ChatTypeOK
  <2>2. ContextStands'
    <3>1. \A m \in cMessages : m \in cSummary.text \/ m > cSummary.upto \/ m \in cBlind
      BY DEF SessionRemembers, Chat!SessionRemembers, Chat!Window
    <3>2. cSummary.text \subseteq cMessages
      BY DEF SessionRemembers, Chat!SessionRemembers
    <3> QED BY <1>1, <3>1, <3>2 DEF Chat!Ask, Chat!Goto, ChatTypeOK, ContextStands
  <2> QED BY <1>0, <1>1, <2>1, <2>2 DEF Chat!Ask
<1>2. ASSUME NEW q \in Query, Chat!Answer(q) PROVE ChatInv'
  <2>1. ChatTypeOK'
    <3>1. cContext' \in [Query -> [summary : Summaries, recent : SUBSET Nat, own : SUBSET Nat]]
      <4>1. cContext[q] \in [summary : Summaries, recent : SUBSET Nat, own : SUBSET Nat]
            /\ cNextId \in Nat
        BY DEF ChatTypeOK
      <4>2. cContext[q].own \cup {cNextId} \in SUBSET Nat
        BY <4>1
      <4>3. [cContext[q] EXCEPT !.own = @ \cup {cNextId}]
            \in [summary : Summaries, recent : SUBSET Nat, own : SUBSET Nat]
        BY <4>1, <4>2
      <4>4. cContext' = [cContext EXCEPT ![q] = [cContext[q] EXCEPT !.own = @ \cup {cNextId}]]
        BY <1>2 DEF Chat!Answer
      <4> QED BY <4>3, <4>4 DEF ChatTypeOK
    <3>5. cNextId' \in Nat \ {0} /\ cMessages' \subseteq 1..(cNextId' - 1) /\ cSummary'.upto < cNextId'
      <4>1. cNextId' = cNextId + 1 /\ cMessages' = cMessages /\ cSummary' = cSummary
        BY <1>2 DEF Chat!Answer
      <4>2. \A m \in cMessages : m \in 1..(cNextId' - 1)
        BY <4>1 DEF ChatTypeOK
      <4> QED BY <4>1, <4>2 DEF ChatTypeOK, Summaries
    <3>6. cPc' \in [Query -> {"new", "asked", "answered", "done"}]
      BY <1>2 DEF Chat!Answer, Chat!Goto, ChatTypeOK
    <3> QED BY <1>2, <3>1, <3>5, <3>6 DEF Chat!Answer, ChatTypeOK
  <2>2. ContextStands'
    BY <1>2 DEF Chat!Answer, Chat!Goto, ChatTypeOK, ContextStands
  <2> QED BY <1>0, <1>2, <2>1, <2>2 DEF Chat!Answer
<1>3. ASSUME NEW q \in Query, Chat!Fails(q) PROVE ChatInv'
  <2>1. ChatTypeOK'
    BY <1>3 DEF Chat!Fails, Chat!Goto, Chat!NoContext, Chat!NoSummary, ChatTypeOK, Summaries
  <2>2. ContextStands'
    BY <1>3 DEF Chat!Fails, Chat!Goto, ChatTypeOK, ContextStands
  <2> QED BY <1>0, <1>3, <2>1, <2>2 DEF Chat!Fails
<1>4. ASSUME NEW q \in Query, Chat!Commit(q) PROVE ChatInv'
  <2> DEFINE own == cContext[q].own
  <2>1. /\ cPc[q] = "answered" /\ cMessages' = cMessages \cup own
        /\ cContext' = [cContext EXCEPT ![q] = Chat!NoContext]
        /\ cPc' = [cPc EXCEPT ![q] = "done"]
        /\ UNCHANGED <<cExists, cNextId>>
    BY <1>4 DEF Chat!Commit, Chat!Goto
  <2>2. /\ cBlind \subseteq cBlind' /\ cBlind' \subseteq Nat
        /\ \A p \in Query \ {q} : cPc[p] \in {"asked", "answered"} =>
              own \subseteq cBlind' /\ cContext[p].own \subseteq cBlind'
    <3>1. \A p \in Query : cPc[p] \in {"asked", "answered"} => cContext[p].own \subseteq Nat
      BY DEF ChatTypeOK
    <3>2. UNION {cContext[p].own : p \in Chat!Open} \subseteq Nat
      BY <3>1 DEF Chat!Open
    <3>3. \A p \in Query : cPc[p] \in {"asked", "answered"} =>
             cContext[p].own \subseteq UNION {cContext[r].own : r \in Chat!Open}
      BY DEF Chat!Open
    <3>4. cBlind' = IF \E p \in Chat!Open \ {q} : TRUE
                    THEN cBlind \cup UNION {cContext[p].own : p \in Chat!Open} ELSE cBlind
      BY <1>4 DEF Chat!Commit
    <3>5. \A p \in Query \ {q} : cPc[p] \in {"asked", "answered"} => p \in Chat!Open \ {q}
      BY DEF Chat!Open
    <3> DEFINE all == UNION {cContext[p].own : p \in Chat!Open}
    <3> HIDE DEF all
    <3>6. cBlind \subseteq Nat
      BY DEF ChatTypeOK
    <3>7. CASE \E p \in Chat!Open \ {q} : TRUE
      BY <2>1, <3>2, <3>3, <3>4, <3>6, <3>7 DEF all
    <3>8. CASE ~ \E p \in Chat!Open \ {q} : TRUE
      BY <3>4, <3>5, <3>6, <3>8
    <3> QED BY <3>7, <3>8
  <2>3. /\ own \subseteq 1..(cNextId - 1) /\ own \subseteq Chat!Recent(q)
        /\ cContext[q].recent \subseteq Chat!Recent(q)
        /\ \A m \in own : m > cSummary.upto \/ m \in cBlind
        /\ \A m \in cMessages : m \in cContext[q].summary.text \cup cContext[q].recent \cup cBlind
        /\ cExists
    BY <2>1 DEF ContextStands, Chat!Recent
  <2>4. /\ cSummary' \in Summaries /\ cSummary'.upto < cNextId
        /\ cSummary'.text \subseteq cMessages'
        /\ \A m \in cMessages' : m \in cSummary'.text \/ m > cSummary'.upto \/ m \in cBlind'
    <3>1. CASE UNCHANGED cSummary
      BY <2>1, <2>2, <2>3, <3>1
         DEF ChatTypeOK, SessionRemembers, Chat!SessionRemembers, Chat!Window
    <3>2. CASE Cardinality(Chat!Recent(q)) > Keep /\ cSummary' = Chat!Compressed(q)
      <4>1. \A m \in Chat!Recent(q) : m <= cSummary'.upto => m \in cSummary'.text
        BY <2>1, <3>2, CompressedTells
      <4>2. cSummary' \in Summaries /\ cSummary'.upto < cNextId
            /\ cSummary'.text \subseteq cMessages' /\ cContext[q].summary.text \subseteq cSummary'.text
        BY <2>1, <3>2, CompressedTells
      <4>3. cMessages' \subseteq Nat /\ cSummary'.upto \in Nat
        BY <2>1, <2>3, <4>2 DEF ChatTypeOK, Summaries
      <4> QED BY <2>1, <2>2, <2>3, <4>1, <4>2, <4>3
    <3> QED BY <1>4, <3>1, <3>2, ChatCardinality DEF Chat!Commit
  <2>5. cSummary'.upto > 0 => Cardinality({m \in cMessages' : m > cSummary'.upto}) >= Keep
    <3> SUFFICES ASSUME cSummary'.upto > 0
                 PROVE  Cardinality({m \in cMessages' : m > cSummary'.upto}) >= Keep
      OBVIOUS
    <3> DEFINE W == {m \in cMessages' : m > cSummary'.upto}
    <3>1. IsFiniteSet(W)
      <4>1. W \subseteq 1..(cNextId - 1)
        BY <2>1, <2>3 DEF ChatTypeOK
      <4>2. IsFiniteSet(1..(cNextId - 1))
        BY FS_Interval DEF ChatTypeOK
      <4> HIDE DEF W
      <4> QED BY <4>1, <4>2, FS_Subset
    <3>2. \E V \in SUBSET W : Cardinality(V) >= Keep
      <4>1. CASE UNCHANGED cSummary
        <5>1. Cardinality(Chat!Window) >= Keep
          BY <4>1, ChatCardinality DEF SessionRemembers, Chat!SessionRemembers
        <5>2. Chat!Window \subseteq W
          BY <2>1, <4>1 DEF Chat!Window
        <5> QED BY <5>1, <5>2
      <4>2. CASE Cardinality(Chat!Recent(q)) > Keep /\ cSummary' = Chat!Compressed(q)
        <5>1. Cardinality({m \in Chat!Recent(q) : m > cSummary'.upto}) >= Keep
          BY <2>1, <4>2, CompressedTells
        <5>2. Chat!Recent(q) \subseteq cMessages'
          BY <2>1 DEF Chat!Recent, ContextStands
        <5> QED BY <5>1, <5>2
      <4> QED BY <1>4, <4>1, <4>2, ChatCardinality DEF Chat!Commit
    <3>3. PICK V \in SUBSET W : Cardinality(V) >= Keep
      BY <3>2
    <3> HIDE DEF W
    <3>4. Cardinality(V) <= Cardinality(W) /\ Cardinality(V) \in Nat /\ Cardinality(W) \in Nat
      BY <3>1, FS_Subset, FS_CardinalityType
    <3>5. Cardinality(W) >= Keep
      BY <3>3, <3>4, ChatAssumption
    <3> QED BY <3>5 DEF W
  <2>6. ChatTypeOK'
    <3>1. Chat!NoContext \in [summary : Summaries, recent : SUBSET Nat, own : SUBSET Nat]
      BY DEF Chat!NoContext, Chat!NoSummary, Summaries
    <3> QED BY <2>1, <2>2, <2>3, <2>4, <3>1 DEF ChatTypeOK
  <2>7. ContextStands'
    <3> SUFFICES ASSUME NEW p \in Query, cPc'[p] \in {"asked", "answered"}
                 PROVE  LET c == cContext'[p]
                        IN  /\ cExists'
                            /\ c.own \subseteq 1..(cNextId' - 1)
                            /\ c.recent \subseteq cMessages' /\ c.summary.text \subseteq cMessages'
                            /\ \A m \in cMessages' : m \in c.summary.text \cup c.recent \cup cBlind'
                            /\ \A m \in c.own : m > cSummary'.upto \/ m \in cBlind'
      BY DEF ContextStands
    <3>1. p # q /\ cPc[p] \in {"asked", "answered"} /\ cContext'[p] = cContext[p]
      BY <2>1 DEF ChatTypeOK
    <3> QED BY <2>1, <2>2, <3>1 DEF ContextStands
  <2>8. SessionRemembers'
    BY <2>1, <2>3, <2>4, <2>5, ChatCardinality
       DEF SessionRemembers, Chat!SessionRemembers, Chat!Window
  <2> QED BY <2>6, <2>7, <2>8
<1>5. CASE Chat!DeleteSession
  <2>1. ChatTypeOK'
    <3>1. Chat!NoSummary \in Summaries /\ Chat!NoSummary.upto = 0
      BY DEF Chat!NoSummary, Summaries
    <3>2. /\ cExists' = FALSE /\ cMessages' = {} /\ cSummary' = Chat!NoSummary
          /\ UNCHANGED <<cNextId, cPc, cContext, cBlind>>
      BY <1>5 DEF Chat!DeleteSession
    <3>3. cMessages' \subseteq 1..(cNextId' - 1) /\ cSummary'.upto < cNextId' /\ cSummary' \in Summaries
      BY <3>1, <3>2 DEF ChatTypeOK
    <3> HIDE DEF Summaries
    <3> QED BY <3>2, <3>3 DEF ChatTypeOK
  <2>2. ContextStands'
    BY <1>5 DEF Chat!DeleteSession, Chat!Open, ContextStands
  <2>3. SessionRemembers'
    BY <1>5 DEF Chat!DeleteSession, Chat!NoSummary, SessionRemembers, Chat!SessionRemembers,
       Chat!Window
  <2> QED BY <2>1, <2>2, <2>3
<1>6. CASE UNCHANGED Chat!vars
  BY <1>0, <1>6 DEF Chat!vars, ChatTypeOK, ContextStands
<1> QED BY <1>1, <1>2, <1>3, <1>4, <1>5, <1>6 DEF Chat!Next

(* Whatever queries of a session overlap, fail and overwrite each other's summary, the     *)
(* next one is asked with every message of a query that overlapped no other                 *)
(* (router.py, session_store.py).                                                           *)
THEOREM SessionAlwaysRemembers == Chat!Spec => []SessionRemembers
<1>1. ChatInv => SessionRemembers
  BY DEF ChatInv
<1> QED BY ChatInit, ChatNext, <1>1, PTL DEF Chat!Spec

-----------------------------------------------------------------------------
(* AgenticLoop.  A message of the run; the replies that have got the messages of their  *)
(* calls are all but the last one, while its calls are open.                                *)
Message ==
    [from : {"model", "history"}, calls : Seq(Loop!Call), text : BOOLEAN]
    \cup [from : {"tool"}, call : Loop!Call, status : Loop!Status \ {"invalid_query"}]
CallsOpen == node \in {"tools", "limit_tools", "duplicate_tools"}
Closed == {i \in DOMAIN conversation : Loop!IsAI(conversation[i]) /\ (CallsOpen => i # Len(conversation))}
Ran(i) == \E k \in DOMAIN conversation[i].calls : conversation[i + k].status \notin Loop!Unexecuted
Forced == {i \in Closed : conversation[i].calls # <<>> /\ ~Ran(i)}
LoopTypes ==
    /\ node \in {"orchestrator", "tools", "limit_tools", "duplicate_tools", "force_final",
                 "collect", "end"}
    /\ conversation \in Seq(Message) /\ attached \in BOOLEAN
    /\ rounds \in 0..MaxRounds /\ invoked \in Nat
    /\ node # "end" => result = Loop!Pending

(* Every call of a closed reply has its message, at its place; a message answers a call  *)
(* of an earlier reply; and no call was executed twice.                                     *)
CallsAnswered ==
    \A i \in Closed : \A k \in DOMAIN conversation[i].calls :
        i + k \in Loop!ToolAt /\ conversation[i + k].call = conversation[i].calls[k]
AskedBefore ==
    \A i \in Loop!ToolAt : \E j \in Closed :
        j < i /\ \E k \in DOMAIN conversation[j].calls : conversation[i].call = conversation[j].calls[k]
OnceOnly == \A i, j \in Loop!Executed : conversation[i].call = conversation[j].call => i = j
HistoryFirst == \A i \in DOMAIN conversation : conversation[i].from = "history" => i = 1
CallsKept == CallsAnswered /\ AskedBefore /\ OnceOnly /\ HistoryFirst

(* The last reply while its calls are open: it has some, and those that will be executed. *)
LastReply ==
    CallsOpen => /\ Len(conversation) > 0 /\ Loop!IsAI(conversation[Len(conversation)])
                 /\ conversation[Len(conversation)].calls # <<>>
                 /\ node = "tools" => rounds < MaxRounds /\ Loop!Fresh(conversation) # {}
(* Each round costs a call of the model, and a reply none of whose calls ran costs one more. *)
CallsCounted ==
    /\ node = "orchestrator" => Forced = {} /\ invoked = rounds
    /\ CallsOpen => Forced = {} /\ invoked = rounds + 1
    /\ node = "force_final" => (\E b \in Nat : Forced = {b}) /\ invoked = rounds + 1
    /\ node = "collect" => \/ Forced = {} /\ invoked = rounds + 1
                           \/ (\E b \in Nat : Forced = {b}) /\ invoked = rounds + 2
LoopInv == /\ LoopTypes /\ OnceOnly /\ invoked <= MaxRounds + 2 /\ Loop!AnswerIsGrounded
           /\ node # "end" => CallsKept /\ LastReply /\ CallsCounted

LEMMA BatchesAreSequences == Loop!Batches \subseteq Seq(Loop!Call)
<1> SUFFICES ASSUME NEW c \in Loop!Batches PROVE c \in Seq(Loop!Call)
  OBVIOUS
<1>1. PICK n \in 0..MaxBatch : c \in [1..n -> Loop!Call]
  BY DEF Loop!Batches
<1>2. QED BY <1>1, LoopAssumption

LEMMA FunctionIsSequence ==
    ASSUME NEW S, NEW n \in Nat, NEW f \in [1..n -> S]
    PROVE  f \in Seq(S) /\ Len(f) = n
OBVIOUS

LEMMA Concatenated ==
    ASSUME NEW S, NEW s \in Seq(S), NEW t \in Seq(S), NEW n \in Nat, n = Len(s),
           NEW k \in Nat, k = Len(t), NEW u, u = s \o t
    PROVE  /\ u \in Seq(S) /\ Len(u) = n + k
           /\ \A i \in 1..n : u[i] = s[i]
           /\ \A i \in 1..k : u[n + i] = t[i]
OBVIOUS

(* A reply is added to closed ones: nothing changes for them. *)
LEMMA ReplyKeeps ==
    ASSUME LoopTypes, CallsKept, ~CallsOpen,
           NEW calls \in Seq(Loop!Call), NEW text \in BOOLEAN,
           conversation' = Append(conversation, Loop!AI(calls, text)),
           CallsOpen' \/ calls = <<>>
    PROVE  /\ conversation' \in Seq(Message) /\ Len(conversation') = Len(conversation) + 1
           /\ conversation'[Len(conversation')] = Loop!AI(calls, text)
           /\ CallsKept' /\ Forced' = Forced
<1> DEFINE n == Len(conversation)
<1>1. /\ n \in Nat /\ DOMAIN conversation = 1..n /\ conversation \in Seq(Message)
  BY DEF LoopTypes
<1>2. Loop!AI(calls, text) \in Message
  BY DEF Loop!AI, Message
<1>3. /\ conversation' \in Seq(Message) /\ Len(conversation') = n + 1 /\ DOMAIN conversation' = 1..(n + 1)
      /\ \A i \in 1..n : conversation'[i] = conversation[i]
      /\ conversation'[n + 1] = Loop!AI(calls, text)
  BY <1>1, <1>2
<1> HIDE DEF n
<1>4. Loop!IsAI(conversation'[n + 1]) /\ conversation'[n + 1].calls = calls /\ conversation'[n + 1].from = "model"
  BY <1>3 DEF Loop!IsAI, Loop!AI
<1>5. Loop!ToolAt' = Loop!ToolAt
  BY <1>1, <1>3, <1>4 DEF Loop!ToolAt, Loop!IsAI
<1>6. Closed' = Closed \/ (Closed' = Closed \cup {n + 1} /\ calls = <<>>)
  <2>1. CASE CallsOpen'
    BY <1>1, <1>3, <2>1 DEF Closed, Loop!IsAI
  <2>2. CASE ~CallsOpen' /\ calls = <<>>
    BY <1>1, <1>3, <1>4, <2>2 DEF Closed, Loop!IsAI
  <2>3. QED BY <2>1, <2>2
<1>7. Closed \subseteq 1..n /\ Loop!ToolAt \subseteq 1..n
  BY <1>1 DEF Closed, Loop!ToolAt
<1>8. CallsAnswered'
  <2> SUFFICES ASSUME NEW i \in Closed', NEW k \in DOMAIN conversation'[i].calls
               PROVE  i + k \in Loop!ToolAt /\ conversation'[i + k].call = conversation'[i].calls[k]
    BY <1>5 DEF CallsAnswered
  <2>1. i \in Closed
    <3> SUFFICES ASSUME i = n + 1, calls = <<>> PROVE FALSE
      BY <1>6
    <3>1. conversation'[i].calls = calls
      BY <1>4
    <3>2. DOMAIN calls = {}
      OBVIOUS
    <3>3. QED BY <3>1, <3>2
  <2>2. conversation'[i] = conversation[i] /\ i + k \in Loop!ToolAt /\ conversation[i + k].call = conversation[i].calls[k]
    BY <1>3, <1>7, <2>1 DEF CallsKept, CallsAnswered
  <2>3. QED BY <1>3, <1>7, <2>2
<1>9. AskedBefore'
  <2> SUFFICES ASSUME NEW i \in Loop!ToolAt
               PROVE  \E j \in Closed' : j < i /\ \E k \in DOMAIN conversation'[j].calls :
                         conversation'[i].call = conversation'[j].calls[k]
    BY <1>5 DEF AskedBefore
  <2>1. PICK j \in Closed : j < i /\ \E k \in DOMAIN conversation[j].calls :
                               conversation[i].call = conversation[j].calls[k]
    BY DEF CallsKept, AskedBefore
  <2>2. conversation'[j] = conversation[j] /\ conversation'[i] = conversation[i] /\ j \in Closed'
    BY <1>3, <1>6, <1>7
  <2>3. QED BY <2>1, <2>2
<1>10. OnceOnly'
  <2>1. \A i \in Loop!ToolAt : conversation'[i] = conversation[i]
    BY <1>3, <1>7
  <2>2. QED BY <1>5, <2>1 DEF CallsKept, OnceOnly, Loop!Executed
<1>11. HistoryFirst'
  <2> SUFFICES ASSUME NEW i \in 1..(n + 1), conversation'[i].from = "history" PROVE i = 1
    BY <1>3 DEF HistoryFirst
  <2>1. i \in 1..n
    BY <1>1, <1>4
  <2>2. QED BY <1>1, <1>3, <2>1 DEF CallsKept, HistoryFirst
<1>12. \A i \in Closed : conversation'[i] = conversation[i] /\ Ran(i)' = Ran(i)
  <2> SUFFICES ASSUME NEW i \in Closed PROVE conversation'[i] = conversation[i] /\ Ran(i)' = Ran(i)
    OBVIOUS
  <2>1. conversation'[i] = conversation[i]
    BY <1>3, <1>7
  <2>2. \A k \in DOMAIN conversation[i].calls : conversation'[i + k] = conversation[i + k]
    BY <1>3, <1>7 DEF CallsKept, CallsAnswered
  <2>3. QED BY <2>1, <2>2 DEF Ran
<1>13. Forced' = Forced
  <2>1. \A i \in Forced' : i \in Closed
    BY <1>4, <1>6 DEF Forced
  <2>2. \A i \in Closed : i \in Forced' <=> i \in Forced
    BY <1>6, <1>12 DEF Forced
  <2>3. Forced \subseteq Closed
    BY DEF Forced
  <2>4. QED BY <2>1, <2>2, <2>3
<1>14. QED BY <1>3, <1>8, <1>9, <1>10, <1>11, <1>13 DEF CallsKept, n

(* What an earlier reply asked for is not fresh. *)
LEMMA AskedIsNotFresh ==
    ASSUME LoopTypes, Len(conversation) > 0,
           NEW j \in DOMAIN conversation, j < Len(conversation), Loop!IsAI(conversation[j]),
           NEW k \in DOMAIN conversation[j].calls,
           NEW p \in Loop!Fresh(conversation)
    PROVE  conversation[Len(conversation)].calls[p] # conversation[j].calls[k]
<1> DEFINE n == Len(conversation)
           front == Loop!Front(conversation)
<1>1. n \in Nat /\ DOMAIN conversation = 1..n /\ n >= 1
  BY DEF LoopTypes
<1>2. front = SubSeq(conversation, 1, n - 1) /\ Loop!Last(conversation) = conversation[n]
  BY DEF Loop!Front, Loop!Last
<1>3. DOMAIN front = 1..(n - 1) /\ \A i \in 1..(n - 1) : front[i] = conversation[i]
  BY <1>1, <1>2 DEF LoopTypes
<1>4. j \in DOMAIN front /\ front[j] = conversation[j]
  BY <1>1, <1>3
<1> HIDE DEF front
<1>5. conversation[j].calls[k] \in Loop!Range(front[j].calls)
  BY <1>4 DEF Loop!Range
<1>6. conversation[j].calls[k] \in Loop!Asked(front)
  BY <1>4, <1>5 DEF Loop!Asked
<1>7. Loop!Last(conversation).calls[p] \notin Loop!Asked(front)
  BY DEF Loop!Fresh, front
<1>8. QED BY <1>2, <1>6, <1>7

(* The calls of the last reply get their messages: those that are executed are fresh. *)
LEMMA CloseKeeps ==
    ASSUME LoopTypes, CallsKept, LastReply, CallsOpen, ~CallsOpen',
           NEW got \in [DOMAIN Loop!Last(conversation).calls -> Loop!Status \ {"invalid_query"}],
           \A k \in DOMAIN got : got[k] \notin Loop!Unexecuted => k \in Loop!Fresh(conversation),
           Loop!Close(got)
    PROVE  /\ conversation' \in Seq(Message) /\ CallsKept'
           /\ (\A k \in DOMAIN got : got[k] \in Loop!Unexecuted) => Forced' = Forced \cup {Len(conversation)}
           /\ (\E k \in DOMAIN got : got[k] \notin Loop!Unexecuted) => Forced' = Forced
<1>0. PICK b \in Nat : b = Len(conversation)
  BY DEF LoopTypes
<1> DEFINE calls == conversation[b].calls
           m == Len(calls)
           reply == [k \in DOMAIN calls |-> Loop!ToolMessage(calls[k], got[k])]
<1>1. /\ b \in Nat /\ b >= 1 /\ DOMAIN conversation = 1..b /\ conversation \in Seq(Message)
      /\ Loop!Last(conversation) = conversation[b] /\ Loop!IsAI(conversation[b]) /\ calls # <<>>
  BY <1>0 DEF LoopTypes, LastReply, Loop!Last
<1>2. conversation[b] \in Message
  BY <1>1
<1>3. calls \in Seq(Loop!Call)
  BY <1>1, <1>2 DEF Message, Loop!IsAI
<1>4. m \in Nat /\ DOMAIN calls = 1..m /\ \A k \in 1..m : calls[k] \in Loop!Call
  BY <1>3
<1>5. got \in [1..m -> Loop!Status \ {"invalid_query"}] /\ conversation' = conversation \o reply
  BY <1>1, <1>4 DEF Loop!Close
<1>6. \A k \in 1..m : /\ reply[k] \in Message /\ reply[k].from = "tool"
                      /\ reply[k].call = calls[k] /\ reply[k].status = got[k]
  BY <1>4, <1>5 DEF Message, Loop!ToolMessage
<1>7. reply \in Seq(Message) /\ Len(reply) = m
  <2>1. reply \in [1..m -> Message]
    BY <1>4, <1>6
  <2> HIDE DEF reply, m
  <2>2. QED BY ONLY <1>4, <2>1, FunctionIsSequence
<1> HIDE DEF calls, m, reply
<1>8. /\ conversation' \in Seq(Message) /\ Len(conversation') = b + m /\ DOMAIN conversation' = 1..(b + m)
      /\ \A i \in 1..b : conversation'[i] = conversation[i]
      /\ \A k \in 1..m : conversation'[b + k] = reply[k]
  <2>1. b = Len(conversation) /\ conversation' = conversation \o reply
    BY <1>0, <1>5
  <2>2. /\ conversation' \in Seq(Message) /\ Len(conversation') = b + m
        /\ \A i \in 1..b : conversation'[i] = conversation[i]
        /\ \A k \in 1..m : conversation'[b + k] = reply[k]
    <3>1. PICK s : s = conversation
      OBVIOUS
    <3>2. PICK u : u = conversation'
      OBVIOUS
    <3>3. s \in Seq(Message) /\ b \in Nat /\ b = Len(s) /\ u = s \o reply
      BY <1>1, <2>1, <3>1, <3>2
    <3>4. reply \in Seq(Message) /\ m \in Nat /\ m = Len(reply)
      BY <1>4, <1>7
    <3>5. /\ u \in Seq(Message) /\ Len(u) = b + m
          /\ \A i \in 1..b : u[i] = s[i]
          /\ \A k \in 1..m : u[b + k] = reply[k]
      BY ONLY <3>3, <3>4, Concatenated
    <3>6. QED BY <3>1, <3>2, <3>5
  <2>3. QED BY <2>2
<1>9. \A i \in 1..(b + m) : i \in 1..b \/ (i - b \in 1..m /\ i = b + (i - b))
  BY <1>1, <1>4
<1>10. /\ Loop!ToolAt \subseteq 1..(b - 1) /\ Closed \subseteq 1..(b - 1)
       /\ Loop!ToolAt' = Loop!ToolAt \cup {b + k : k \in 1..m} /\ Closed' = Closed \cup {b}
  <2>1. Loop!ToolAt \subseteq 1..(b - 1) /\ Closed \subseteq 1..(b - 1)
    BY <1>0, <1>1 DEF Loop!ToolAt, Closed, Loop!IsAI
  <2>2. \A i \in 1..(b + m) : conversation'[i].from = "tool" <=> i \in Loop!ToolAt \cup {b + k : k \in 1..m}
    <3> SUFFICES ASSUME NEW i \in 1..(b + m)
                 PROVE  conversation'[i].from = "tool" <=> i \in Loop!ToolAt \cup {b + k : k \in 1..m}
      OBVIOUS
    <3>1. CASE i \in 1..b
      BY <1>1, <1>4, <1>8, <3>1 DEF Loop!ToolAt
    <3>2. CASE i \notin 1..b
      BY <1>6, <1>8, <1>9, <3>2
    <3>3. QED BY <3>1, <3>2
  <2>3. {b + k : k \in 1..m} \subseteq 1..(b + m) /\ Loop!ToolAt \subseteq 1..(b + m)
    BY <1>1, <1>4, <2>1
  <2>4. Loop!ToolAt' = Loop!ToolAt \cup {b + k : k \in 1..m}
    BY <1>8, <2>2, <2>3 DEF Loop!ToolAt
  <2>5. \A i \in 1..(b + m) : Loop!IsAI(conversation'[i]) <=> i \in Closed \cup {b}
    <3> SUFFICES ASSUME NEW i \in 1..(b + m) PROVE Loop!IsAI(conversation'[i]) <=> i \in Closed \cup {b}
      OBVIOUS
    <3>1. CASE i \in 1..b
      BY <1>0, <1>1, <1>8, <3>1 DEF Closed
    <3>2. CASE i \notin 1..b
      <4>1. PICK k \in 1..m : i = b + k
        BY <1>9, <3>2
      <4>2. conversation'[i].from = "tool"
        BY <1>6, <1>8, <4>1
      <4>3. i # b /\ i \notin Closed
        BY <1>1, <1>4, <2>1, <4>1
      <4>4. QED BY <4>2, <4>3 DEF Loop!IsAI
    <3>3. QED BY <3>1, <3>2
  <2>6. Closed' = Closed \cup {b}
    BY <1>1, <1>4, <1>8, <2>1, <2>5 DEF Closed
  <2>7. QED BY <2>1, <2>4, <2>6
<1>11. /\ \A i \in Closed' : conversation'[i] = conversation[i]
       /\ \A i \in Loop!ToolAt : conversation'[i] = conversation[i]
       /\ \A i \in Closed : \A k \in DOMAIN conversation[i].calls : conversation'[i + k] = conversation[i + k]
  <2>1. 1..(b - 1) \subseteq 1..b /\ b \in 1..b
    BY <1>1
  <2>2. Closed' \subseteq 1..b /\ Loop!ToolAt \subseteq 1..b
    BY <1>10, <2>1
  <2>3. \A i \in Closed : \A k \in DOMAIN conversation[i].calls : i + k \in Loop!ToolAt
    BY DEF CallsKept, CallsAnswered
  <2>4. QED BY <1>8, <2>2, <2>3
<1>12. CallsAnswered'
  <2> SUFFICES ASSUME NEW i \in Closed', NEW k \in DOMAIN conversation'[i].calls
               PROVE  i + k \in Loop!ToolAt' /\ conversation'[i + k].call = conversation'[i].calls[k]
    BY DEF CallsAnswered
  <2>1. CASE i \in Closed
    BY <1>10, <1>11, <2>1 DEF CallsKept, CallsAnswered
  <2>2. CASE i = b
    <3>1. conversation'[i].calls = calls /\ k \in 1..m
      BY <1>4, <1>11, <2>2 DEF calls
    <3>2. QED BY <1>6, <1>8, <1>10, <2>2, <3>1
  <2>3. QED BY <1>10, <2>1, <2>2
<1>13. AskedBefore'
  <2> SUFFICES ASSUME NEW i \in Loop!ToolAt'
               PROVE  \E j \in Closed' : j < i /\ \E k \in DOMAIN conversation'[j].calls :
                         conversation'[i].call = conversation'[j].calls[k]
    BY DEF AskedBefore
  <2>1. CASE i \in Loop!ToolAt
    <3>1. PICK j \in Closed : j < i /\ \E k \in DOMAIN conversation[j].calls :
                                 conversation[i].call = conversation[j].calls[k]
      BY <2>1 DEF CallsKept, AskedBefore
    <3>2. conversation'[j] = conversation[j] /\ conversation'[i] = conversation[i] /\ j \in Closed'
      BY <1>10, <1>11, <2>1
    <3>3. QED BY <3>1, <3>2
  <2>2. CASE i \notin Loop!ToolAt
    <3>1. PICK k \in 1..m : i = b + k
      BY <1>10, <2>2
    <3>2. conversation'[i].call = calls[k] /\ conversation'[b].calls = calls /\ b \in Closed' /\ b < i
      <4>1. conversation'[i].call = calls[k]
        BY <1>6, <1>8, <3>1
      <4>2. b \in Closed' /\ b < i
        BY <1>1, <1>4, <1>10, <3>1
      <4>3. conversation'[b].calls = calls
        BY <1>11, <4>2 DEF calls
      <4>4. QED BY <4>1, <4>2, <4>3
    <3>3. QED BY <1>4, <3>2
  <2>3. QED BY <2>1, <2>2
<1>14. \A i \in Loop!ToolAt, p \in Loop!Fresh(conversation) : conversation[i].call # calls[p]
  <2> SUFFICES ASSUME NEW i \in Loop!ToolAt, NEW p \in Loop!Fresh(conversation) PROVE conversation[i].call # calls[p]
    OBVIOUS
  <2>1. PICK j \in Closed : \E k \in DOMAIN conversation[j].calls : conversation[i].call = conversation[j].calls[k]
    BY DEF CallsKept, AskedBefore
  <2>2. j \in DOMAIN conversation /\ j < Len(conversation) /\ Loop!IsAI(conversation[j])
    BY <1>0, <1>1, <1>10, <2>1 DEF Closed
  <2>3. QED BY <1>1, <2>1, <2>2, <1>0, AskedIsNotFresh DEF calls
<1>15. \A p, q \in Loop!Fresh(conversation) : p \in 1..m /\ (p < q => calls[p] # calls[q])
  <2>1. Loop!Fresh(conversation) \subseteq 1..m
    BY <1>1, <1>4 DEF Loop!Fresh, calls
  <2>2. \A q \in Loop!Fresh(conversation) : \A p \in 1..q - 1 : calls[p] # calls[q]
    BY <1>1 DEF Loop!Fresh, calls
  <2>3. QED BY <1>4, <2>1, <2>2
<1>16. OnceOnly'
  <2>1. Loop!Executed' \subseteq Loop!Executed \cup {b + k : k \in Loop!Fresh(conversation)}
    <3> SUFFICES ASSUME NEW i \in Loop!ToolAt', conversation'[i].status \notin Loop!Unexecuted
                 PROVE  i \in Loop!Executed \cup {b + k : k \in Loop!Fresh(conversation)}
      BY DEF Loop!Executed
    <3>1. CASE i \in Loop!ToolAt
      BY <1>11, <3>1 DEF Loop!Executed
    <3>2. CASE i \notin Loop!ToolAt
      <4>1. PICK k \in 1..m : i = b + k
        BY <1>10, <3>2
      <4>2. got[k] \notin Loop!Unexecuted /\ k \in DOMAIN got
        BY <1>5, <1>6, <1>8, <4>1
      <4>3. QED BY <4>1, <4>2
    <3>3. QED BY <3>1, <3>2
  <2>2. \A i \in Loop!Executed : i \in Loop!ToolAt /\ conversation'[i] = conversation[i]
    BY <1>11 DEF Loop!Executed
  <2>3. \A p \in Loop!Fresh(conversation) : conversation'[b + p].call = calls[p]
    BY <1>6, <1>8, <1>15
  <2> SUFFICES ASSUME NEW i \in Loop!Executed', NEW j \in Loop!Executed', conversation'[i].call = conversation'[j].call
               PROVE  i = j
    BY DEF OnceOnly
  <2>4. CASE i \in Loop!Executed /\ j \in Loop!Executed
    BY <2>2, <2>4 DEF CallsKept, OnceOnly
  <2>5. CASE i \in Loop!Executed /\ j \notin Loop!Executed
    BY <1>14, <2>1, <2>2, <2>3, <2>5
  <2>6. CASE i \notin Loop!Executed /\ j \in Loop!Executed
    BY <1>14, <2>1, <2>2, <2>3, <2>6
  <2>7. CASE i \notin Loop!Executed /\ j \notin Loop!Executed
    <3>1. PICK p \in Loop!Fresh(conversation) : i = b + p
      BY <2>1, <2>7
    <3>2. PICK q \in Loop!Fresh(conversation) : j = b + q
      BY <2>1, <2>7
    <3>3. calls[p] = calls[q] /\ p \in 1..m /\ q \in 1..m
      BY <1>15, <2>3, <3>1, <3>2
    <3>4. ~(p < q) /\ ~(q < p)
      BY <1>15, <3>3
    <3>5. QED BY <1>4, <3>1, <3>2, <3>3, <3>4
  <2>8. QED BY <2>4, <2>5, <2>6, <2>7
<1>17. HistoryFirst'
  <2> SUFFICES ASSUME NEW i \in 1..(b + m), conversation'[i].from = "history" PROVE i = 1
    BY <1>8 DEF HistoryFirst
  <2>1. i \in 1..b
    BY <1>6, <1>8, <1>9
  <2>2. QED BY <1>1, <1>8, <2>1 DEF CallsKept, HistoryFirst
<1>18. \A i \in Closed : Ran(i)' = Ran(i) /\ conversation'[i] = conversation[i]
  BY <1>10, <1>11 DEF Ran
<1>19. conversation'[b].calls = calls /\ calls # <<>> /\ b \notin Closed
       /\ (Ran(b)' <=> \E k \in DOMAIN got : got[k] \notin Loop!Unexecuted)
  <2>1. conversation'[b].calls = calls /\ b \notin Closed /\ calls # <<>>
    BY <1>1, <1>10, <1>11 DEF calls
  <2>2. Ran(b)' <=> \E k \in 1..m : got[k] \notin Loop!Unexecuted
    <3>1. \A k \in 1..m : conversation'[b + k].status = got[k]
      BY <1>6, <1>8
    <3>2. DOMAIN conversation'[b].calls = 1..m
      BY <1>4, <2>1
    <3>3. QED BY <3>1, <3>2 DEF Ran
  <2>3. QED BY <1>5, <2>1, <2>2
<1>20. \A i \in Closed' : i \in Forced' <=> (i \in Forced \/ (i = b /\ ~Ran(b)'))
  <2> SUFFICES ASSUME NEW i \in Closed' PROVE i \in Forced' <=> (i \in Forced \/ (i = b /\ ~Ran(b)'))
    OBVIOUS
  <2>1. i \in Forced' <=> conversation'[i].calls # <<>> /\ ~Ran(i)'
    BY DEF Forced
  <2>2. CASE i = b
    <3>1. i \notin Forced
      BY <1>19, <2>2 DEF Forced
    <3>2. QED BY <1>19, <2>1, <2>2, <3>1
  <2>3. CASE i # b
    <3>1. i \in Closed
      BY <1>10, <2>3
    <3>2. i \in Forced <=> conversation[i].calls # <<>> /\ ~Ran(i)
      BY <3>1 DEF Forced
    <3>3. QED BY <1>18, <2>1, <2>3, <3>1, <3>2
  <2>4. QED BY <2>2, <2>3
<1>21. Forced' = {i \in Closed' : i \in Forced \/ (i = b /\ ~Ran(b)')} /\ Forced \subseteq Closed'
       /\ b \in Closed'
  BY <1>10, <1>20 DEF Forced
<1>22. (\A k \in DOMAIN got : got[k] \in Loop!Unexecuted) => Forced' = Forced \cup {b}
  BY <1>19, <1>21
<1>23. (\E k \in DOMAIN got : got[k] \notin Loop!Unexecuted) => Forced' = Forced
  BY <1>19, <1>21
<1>24. QED BY <1>0, <1>8, <1>12, <1>13, <1>16, <1>17, <1>22, <1>23 DEF CallsKept

LEMMA OrchestrateKeeps ==
    ASSUME LoopInv, NEW calls \in Loop!Batches, NEW text \in BOOLEAN, Loop!Orchestrate(calls, text)
    PROVE  LoopInv'
<1>1. /\ node = "orchestrator" /\ conversation' = Append(conversation, Loop!AI(calls, text))
      /\ invoked' = invoked + 1 /\ node' = Loop!Route(conversation')
      /\ attached' = attached /\ rounds' = rounds /\ result' = result
  BY DEF Loop!Orchestrate
<1>2. LoopTypes /\ CallsKept /\ CallsCounted /\ ~CallsOpen /\ calls \in Seq(Loop!Call)
  BY <1>1, BatchesAreSequences DEF LoopInv, CallsOpen
<1>3. Loop!Last(conversation').calls = calls
  <2>1. conversation \in Seq(Message) /\ Loop!AI(calls, text) \in Message
    BY <1>2 DEF LoopTypes, Loop!AI, Message
  <2>2. Loop!Last(conversation') = Loop!AI(calls, text)
    BY <1>1, <2>1 DEF Loop!Last
  <2>3. QED BY <2>2 DEF Loop!AI
<1>4. \/ calls = <<>> /\ node' = "collect"
      \/ calls # <<>> /\ node' \in {"limit_tools", "duplicate_tools"}
      \/ calls # <<>> /\ node' = "tools" /\ rounds < MaxRounds /\ Loop!Fresh(conversation') # {}
  <2>1. rounds \in Nat /\ MaxRounds \in Nat
    BY <1>2, LoopAssumption DEF LoopTypes
  <2>2. rounds >= MaxRounds \/ rounds < MaxRounds
    BY <2>1
  <2>3. QED BY <1>1, <1>3, <2>2 DEF Loop!Route
<1>5. CallsOpen' \/ calls = <<>>
  BY <1>4 DEF CallsOpen
<1>6. /\ conversation' \in Seq(Message) /\ Len(conversation') = Len(conversation) + 1
      /\ conversation'[Len(conversation')] = Loop!AI(calls, text)
      /\ CallsKept' /\ Forced' = Forced
  BY <1>1, <1>2, <1>5, ReplyKeeps
<1>7. LoopTypes'
  BY <1>1, <1>2, <1>4, <1>6 DEF LoopTypes
<1>8. LastReply'
  <2>1. Loop!IsAI(conversation'[Len(conversation')]) /\ conversation'[Len(conversation')].calls = calls
    BY <1>6 DEF Loop!IsAI, Loop!AI
  <2>2. Len(conversation') > 0
    BY <1>2, <1>6 DEF LoopTypes
  <2>3. CallsOpen' => calls # <<>>
    BY <1>4 DEF CallsOpen
  <2>4. QED BY <1>1, <1>4, <2>1, <2>2, <2>3 DEF LastReply
<1>9. CallsCounted'
  BY <1>1, <1>2, <1>4, <1>6 DEF CallsCounted, CallsOpen, LoopTypes
<1>10. invoked' <= MaxRounds + 2 /\ node' # "end"
  BY <1>1, <1>2, <1>4, LoopAssumption DEF CallsCounted, LoopTypes
<1>11. Loop!AnswerIsGrounded'
  BY <1>7, <1>10 DEF LoopTypes, Loop!AnswerIsGrounded, Loop!Pending
<1>12. QED BY <1>6, <1>7, <1>8, <1>9, <1>10, <1>11 DEF LoopInv, CallsKept

LEMMA ForceFinalKeeps ==
    ASSUME LoopInv, NEW text \in BOOLEAN, Loop!ForceFinal(text)
    PROVE  LoopInv'
<1>1. /\ node = "force_final" /\ conversation' = Append(conversation, Loop!AI(<<>>, text))
      /\ invoked' = invoked + 1 /\ node' = "collect"
      /\ attached' = attached /\ rounds' = rounds /\ result' = result
  BY DEF Loop!ForceFinal
<1>2. LoopTypes /\ CallsKept /\ CallsCounted /\ ~CallsOpen /\ <<>> \in Seq(Loop!Call)
  BY <1>1 DEF LoopInv, CallsOpen
<1>3. conversation' \in Seq(Message) /\ CallsKept' /\ Forced' = Forced
  BY <1>1, <1>2, ReplyKeeps
<1>4. LoopTypes'
  BY <1>1, <1>2, <1>3 DEF LoopTypes
<1>5. LastReply'
  BY <1>1 DEF LastReply, CallsOpen
<1>6. CallsCounted' /\ invoked' <= MaxRounds + 2
  BY <1>1, <1>2, <1>3, LoopAssumption DEF CallsCounted, CallsOpen, LoopTypes
<1>7. Loop!AnswerIsGrounded'
  BY <1>1, <1>4 DEF LoopTypes, Loop!AnswerIsGrounded, Loop!Pending
<1>8. QED BY <1>3, <1>4, <1>5, <1>6, <1>7 DEF LoopInv, CallsKept

LEMMA RunToolsKeeps ==
    ASSUME LoopInv, Loop!RunTools
    PROVE  LoopInv'
<1> DEFINE calls == Loop!Last(conversation).calls
<1>1. node = "tools" /\ attached' = attached /\ invoked' = invoked
  BY DEF Loop!RunTools
<1>2. PICK got \in [DOMAIN calls -> Loop!Status] :
          /\ \A k \in DOMAIN calls :
                got[k] \in IF k \in Loop!Fresh(conversation) THEN Loop!Outcomes(calls[k]) ELSE {"duplicate_call"}
          /\ IF \E k \in DOMAIN calls : got[k] = "invalid_query"
             THEN /\ result' = Loop!Failed /\ node' = "end" /\ UNCHANGED <<conversation, rounds>>
             ELSE /\ Loop!Close(got) /\ rounds' = rounds + 1 /\ node' = "orchestrator"
                  /\ UNCHANGED result
  BY DEF Loop!RunTools
<1>3. /\ LoopTypes /\ CallsKept /\ LastReply /\ CallsOpen /\ Forced = {}
      /\ invoked = rounds + 1 /\ invoked <= MaxRounds + 2
      /\ rounds < MaxRounds /\ Loop!Fresh(conversation) # {} /\ Loop!Fresh(conversation) \subseteq DOMAIN calls
  BY <1>1 DEF LoopInv, CallsOpen, LastReply, CallsCounted, Loop!Fresh
<1>4. CASE \E k \in DOMAIN calls : got[k] = "invalid_query"
  <2>1. result' = Loop!Failed /\ node' = "end" /\ conversation' = conversation /\ rounds' = rounds
    BY <1>2, <1>4
  <2>2. LoopTypes' /\ OnceOnly' /\ Loop!AnswerIsGrounded'
    BY <1>1, <1>3, <2>1 DEF LoopTypes, CallsKept, OnceOnly, Loop!Executed, Loop!ToolAt,
                            Loop!AnswerIsGrounded, Loop!Failed
  <2>3. QED BY <1>1, <1>3, <2>1, <2>2 DEF LoopInv
<1>5. CASE ~\E k \in DOMAIN calls : got[k] = "invalid_query"
  <2>1. Loop!Close(got) /\ rounds' = rounds + 1 /\ node' = "orchestrator" /\ result' = result
    BY <1>2, <1>5
  <2>2. got \in [DOMAIN calls -> Loop!Status \ {"invalid_query"}] /\ DOMAIN got = DOMAIN calls
    BY <1>2, <1>5
  <2>3. \A k \in DOMAIN calls : got[k] \notin Loop!Unexecuted <=> k \in Loop!Fresh(conversation)
    BY <1>2 DEF Loop!Outcomes, Loop!Unexecuted
  <2>4. ~CallsOpen'
    BY <2>1 DEF CallsOpen
  <2>5. conversation' \in Seq(Message) /\ CallsKept' /\ Forced' = {}
    BY <1>3, <2>1, <2>2, <2>3, <2>4, CloseKeeps
  <2>6. LoopTypes'
    <3>1. rounds' \in 0..MaxRounds
      BY <1>3, <2>1, LoopAssumption DEF LoopTypes
    <3>2. QED BY <1>1, <1>3, <2>1, <2>5, <3>1 DEF LoopTypes
  <2>7. LastReply' /\ CallsCounted'
    BY <1>1, <1>3, <2>1, <2>4, <2>5 DEF LastReply, CallsCounted
  <2>8. Loop!AnswerIsGrounded'
    BY <2>1, <2>6 DEF LoopTypes, Loop!AnswerIsGrounded, Loop!Pending
  <2>9. QED BY <1>1, <1>3, <2>5, <2>6, <2>7, <2>8 DEF LoopInv, CallsKept
<1>6. QED BY <1>4, <1>5

(* None of the calls is executed: the model has to answer without tools. *)
LEMMA RefuseKeeps ==
    ASSUME LoopInv, NEW status \in Loop!Unexecuted, CallsOpen,
           Loop!Close([k \in DOMAIN Loop!Last(conversation).calls |-> status]),
           node' = "force_final", UNCHANGED <<attached, rounds, result, invoked>>
    PROVE  LoopInv'
<1> DEFINE got == [k \in DOMAIN Loop!Last(conversation).calls |-> status]
<1>1. /\ LoopTypes /\ CallsKept /\ LastReply /\ Forced = {} /\ invoked = rounds + 1
      /\ invoked <= MaxRounds + 2 /\ node # "end" /\ ~CallsOpen'
  BY DEF LoopInv, CallsOpen, CallsCounted
<1>2. got \in [DOMAIN Loop!Last(conversation).calls -> Loop!Status \ {"invalid_query"}]
      /\ \A k \in DOMAIN got : got[k] \in Loop!Unexecuted
  BY DEF Loop!Status, Loop!Unexecuted
<1>3. Loop!Close(got)
  OBVIOUS
<1> HIDE DEF got
<1>4. conversation' \in Seq(Message) /\ CallsKept' /\ Forced' = Forced \cup {Len(conversation)}
  BY <1>1, <1>2, <1>3, CloseKeeps
<1>5. Forced' = {Len(conversation)} /\ Len(conversation) \in Nat
  BY <1>1, <1>4 DEF LoopTypes
<1>6. LoopTypes'
  BY <1>1, <1>4 DEF LoopTypes
<1>7. LastReply' /\ CallsCounted'
  BY <1>1, <1>5 DEF LastReply, CallsCounted
<1>8. Loop!AnswerIsGrounded'
  BY <1>6 DEF LoopTypes, Loop!AnswerIsGrounded, Loop!Pending
<1>9. QED BY <1>1, <1>4, <1>6, <1>7, <1>8 DEF LoopInv, CallsKept

LEMMA LoopCardinality == \A S : Loop!Cardinality(S) = Cardinality(S)
BY DEF Loop!Cardinality, Cardinality

(* The answer that is given, if one is. *)
LEMMA CollectGrounds ==
    ASSUME LoopInv, Loop!Collect
    PROVE  Loop!AnswerIsGrounded'
<1>1. /\ node = "collect" /\ result' = Loop!Collected /\ conversation' = conversation
      /\ attached' = attached /\ rounds' = rounds /\ invoked' = invoked
  BY DEF Loop!Collect
<1>2. LoopTypes /\ CallsKept /\ CallsCounted /\ ~CallsOpen
  BY <1>1 DEF LoopInv, CallsOpen
<1>3. SUFFICES ASSUME Loop!Collected # Loop!Failed PROVE Loop!AnswerIsGrounded'
  <2>1. Loop!Collected = Loop!Failed => result'.kind # "answer"
    BY <1>1 DEF Loop!Failed
  <2>2. QED BY <2>1 DEF Loop!AnswerIsGrounded
<1> DEFINE worded == Loop!With({"ok"}) # {} \/ attached
           last == IF worded THEN Loop!LastOf(Loop!Finals) ELSE 0
<1>4. /\ Loop!With({"error_message"}) = {} /\ (Loop!With({"ok"}) # {} => ~Loop!UnresolvedSearch)
      /\ Loop!With({"ok", "empty"}) # {} /\ (worded => Loop!Finals # {}) /\ Loop!Collected = Loop!Answer(last)
  BY <1>3 DEF Loop!Collected
<1>5. result'.text = last /\ result'.llm_calls = rounds + 1 + Cardinality(Loop!ForcedFinals)
  BY <1>1, <1>4, LoopCardinality DEF Loop!Answer
<1>6. rounds + 1 + Cardinality(Loop!ForcedFinals) = invoked
  <2>1. Closed = {i \in DOMAIN conversation : Loop!IsAI(conversation[i])}
    BY <1>2 DEF Closed
  <2>2. Loop!ForcedFinals = Forced
    BY <2>1 DEF Loop!ForcedFinals, Forced, Ran
  <2>3. CASE Forced = {} /\ invoked = rounds + 1
    <3>1. Cardinality(Forced) = 0
      BY <2>3, FS_EmptySet
    <3>2. QED BY <1>2, <2>2, <2>3, <3>1 DEF LoopTypes
  <2>4. CASE (\E b \in Nat : Forced = {b}) /\ invoked = rounds + 2
    <3>1. Cardinality(Forced) = 1
      BY <2>4, FS_Singleton
    <3>2. QED BY <1>2, <2>2, <2>4, <3>1 DEF LoopTypes
  <2>5. QED BY <1>1, <1>2, <2>3, <2>4 DEF CallsCounted
<1>7. \A i \in Loop!ToolAt : conversation[i].status \in Loop!Status \ {"invalid_query"}
  BY <1>2 DEF LoopTypes, Message, Loop!ToolAt
<1>8. \A i \in Loop!Executed : conversation[i].status \in {"ok", "empty"}
  BY <1>4, <1>7 DEF Loop!Executed, Loop!With, Loop!Status
<1>9. Loop!Executed # {}
  BY <1>4 DEF Loop!Executed, Loop!With, Loop!Unexecuted
<1>10. worded => /\ last \in DOMAIN conversation /\ last # 0
                 /\ conversation[last].from = "model"
  <2> SUFFICES ASSUME worded PROVE last \in DOMAIN conversation /\ last # 0 /\ conversation[last].from = "model"
    OBVIOUS
  <2>1. DOMAIN conversation = 1..Len(conversation) /\ Len(conversation) \in Nat
    BY <1>2 DEF LoopTypes
  <2>2. Loop!Finals \in SUBSET Nat /\ Loop!Finals # {} /\ \A i \in Loop!Finals : i <= Len(conversation)
    BY <1>4, <2>1 DEF Loop!Finals
  <2>3. \E i \in Loop!Finals : \A j \in Loop!Finals : j <= i
    BY <2>1, <2>2, GreatestNumber
  <2>4. last \in Loop!Finals
    BY <2>3 DEF Loop!LastOf
  <2>5. /\ last \in DOMAIN conversation /\ Loop!IsAI(conversation[last]) /\ last # 1
    BY <2>1, <2>4 DEF Loop!Finals, Loop!ToolAt
  <2>6. conversation[last].from # "history"
    BY <1>2, <2>5 DEF CallsKept, HistoryFirst
  <2>7. conversation[last] \in Message
    BY <1>2, <2>5 DEF LoopTypes
  <2>8. QED BY <2>1, <2>5, <2>6, <2>7 DEF Message, Loop!IsAI
<1> HIDE DEF last
<1>11. worded <=> last # 0
  BY <1>10 DEF last
<1>12. /\ Loop!With({"ok"})' = Loop!With({"ok"}) /\ Loop!UnresolvedSearch' = Loop!UnresolvedSearch
       /\ Loop!Executed' = Loop!Executed
  BY <1>1 DEF Loop!With, Loop!ToolAt, Loop!UnresolvedSearch, Loop!Executed
<1>13. QED BY <1>1, <1>4, <1>5, <1>6, <1>8, <1>9, <1>10, <1>11, <1>12 DEF Loop!AnswerIsGrounded

LEMMA EndKeeps ==
    ASSUME LoopInv, Loop!Raise \/ Loop!Collect
    PROVE  LoopInv'
<1>1. /\ node' = "end" /\ conversation' = conversation /\ attached' = attached /\ rounds' = rounds
      /\ invoked' = invoked
  BY DEF Loop!Raise, Loop!Collect
<1>2. LoopTypes' /\ OnceOnly'
  BY <1>1 DEF LoopInv, LoopTypes, OnceOnly, Loop!Executed, Loop!ToolAt
<1>3. Loop!AnswerIsGrounded'
  <2>1. CASE Loop!Raise
    BY <2>1 DEF Loop!Raise, Loop!Failed, Loop!AnswerIsGrounded
  <2>2. CASE Loop!Collect
    BY <2>2, CollectGrounds
  <2>3. QED BY <2>1, <2>2
<1>4. QED BY <1>1, <1>2, <1>3 DEF LoopInv

LEMMA LoopStart == Loop!Init => LoopInv
<1> SUFFICES ASSUME Loop!Init PROVE LoopInv
  OBVIOUS
<1>1. conversation \in {<<>>, <<Loop!Past>>} /\ node = "orchestrator" /\ result = Loop!Pending
      /\ rounds = 0 /\ invoked = 0 /\ attached \in BOOLEAN
  BY DEF Loop!Init
<1>2. Loop!Past \in Message /\ Loop!Past.from = "history" /\ Loop!Past.calls = <<>>
  BY DEF Loop!Past, Message
<1>3. conversation \in Seq(Message) /\ \A i \in DOMAIN conversation : i = 1 /\ conversation[i] = Loop!Past
  <2>1. CASE conversation = <<>>
    <3>1. conversation \in Seq(Message) /\ DOMAIN conversation = {}
      BY <2>1
    <3>2. QED BY <3>1
  <2>2. CASE conversation = <<Loop!Past>>
    <3>1. conversation \in Seq(Message) /\ DOMAIN conversation = {1} /\ conversation[1] = Loop!Past
      BY <1>2, <2>2
    <3>2. QED BY <3>1
  <2>3. QED BY <1>1, <2>1, <2>2
<1>4. Loop!ToolAt = {}
  BY <1>2, <1>3 DEF Loop!ToolAt
<1>5. \A i \in Closed : conversation[i].calls = <<>>
  BY <1>2, <1>3 DEF Closed
<1>6. LoopTypes
  BY <1>1, <1>3, LoopAssumption DEF LoopTypes
<1>7. CallsKept
  <2>1. CallsAnswered
    BY <1>5 DEF CallsAnswered
  <2>2. QED BY <1>3, <1>4, <2>1
               DEF CallsKept, AskedBefore, OnceOnly, Loop!Executed, HistoryFirst
<1>8. LastReply
  BY <1>1 DEF LastReply, CallsOpen
<1>9. CallsCounted
  BY <1>1, <1>5 DEF CallsCounted, Forced, CallsOpen
<1>10. Loop!AnswerIsGrounded
  BY <1>1 DEF Loop!AnswerIsGrounded, Loop!Pending
<1>11. QED BY <1>1, <1>6, <1>7, <1>8, <1>9, <1>10, LoopAssumption DEF LoopInv, CallsKept

LEMMA LoopStep == LoopInv /\ [Loop!Next]_(Loop!vars) => LoopInv'
<1>1. ASSUME LoopInv, Loop!Next PROVE LoopInv'
  <2>1. CASE Loop!LimitTools
    BY <1>1, <2>1, RefuseKeeps DEF Loop!LimitTools, CallsOpen, Loop!Unexecuted
  <2>2. CASE Loop!DuplicateTools
    BY <1>1, <2>2, RefuseKeeps DEF Loop!DuplicateTools, CallsOpen, Loop!Unexecuted
  <2>3. QED BY <1>1, <2>1, <2>2, OrchestrateKeeps, ForceFinalKeeps, RunToolsKeeps, EndKeeps
               DEF Loop!Next
<1>2. ASSUME LoopInv, UNCHANGED Loop!vars PROVE LoopInv'
  <2>1. UNCHANGED <<node, conversation, attached, rounds, result, invoked>>
    BY <1>2 DEF Loop!vars
  <2>2. LoopTypes' = LoopTypes /\ Loop!ToolAt' = Loop!ToolAt /\ Loop!Executed' = Loop!Executed
    BY <2>1 DEF LoopTypes, Loop!ToolAt, Loop!Executed
  <2>3. Loop!AnswerIsGrounded' = Loop!AnswerIsGrounded
    BY <2>1, <2>2 DEF Loop!AnswerIsGrounded, Loop!With, Loop!UnresolvedSearch
  <2>4. Closed' = Closed /\ CallsOpen' = CallsOpen /\ Forced' = Forced
    BY <2>1 DEF Closed, CallsOpen, Forced, Ran
  <2>5. CallsKept' = CallsKept /\ OnceOnly' = OnceOnly
    BY <2>1, <2>2, <2>4 DEF CallsKept, CallsAnswered, AskedBefore, OnceOnly, HistoryFirst
  <2>6. LastReply' = LastReply /\ CallsCounted' = CallsCounted
    BY <2>1, <2>4 DEF LastReply, CallsCounted
  <2>7. QED BY <1>2, <2>1, <2>2, <2>3, <2>5, <2>6 DEF LoopInv
<1>3. QED BY <1>1, <1>2

(* When the model is called, every call of its earlier replies has its message; none is  *)
(* executed twice; and it is called at most MaxRounds + 2 times, whatever it asks for         *)
(* (agentic_graph.py:231-249, 278-292).                                                          *)
THEOREM CallsAlwaysResolvedOnce == Loop!Spec => []CallsResolvedOnce
<1>1. LoopInv => CallsResolvedOnce
  <2>1. ASSUME LoopInv, node \in {"orchestrator", "force_final"},
               NEW i \in DOMAIN conversation, Loop!IsAI(conversation[i]), NEW k \in DOMAIN conversation[i].calls
        PROVE  i + k \in Loop!ToolAt /\ conversation[i + k].call = conversation[i].calls[k]
    BY <2>1 DEF LoopInv, CallsKept, CallsAnswered, Closed, CallsOpen
  <2>2. QED BY <2>1 DEF LoopInv, OnceOnly, CallsResolvedOnce, Loop!CallsResolvedOnce
<1>2. QED BY <1>1, LoopStart, LoopStep, PTL DEF Loop!Spec

(* An answer rests on what the tools of this run found, or on the attachment; the cost it *)
(* reports is the number of calls of the model (agentic_graph.py:296-399).                   *)
THEOREM AnswerAlwaysGrounded == Loop!Spec => []AnswerIsGrounded
<1>1. LoopInv => AnswerIsGrounded
  BY DEF LoopInv, AnswerIsGrounded
<1>2. QED BY <1>1, LoopStart, LoopStep, PTL DEF Loop!Spec

-----------------------------------------------------------------------------
(* Suggestions, on decisions and on actions.  The instances of their proofs have the  *)
(* definitions of the instances that run.                                                 *)
OnDecisions == INSTANCE SuggestionsProofs WITH
               row <- dRow, nextRow <- dNextRow, active <- dActive, sug <- dSug,
               job <- dJob, tx <- dTx
OnActions == INSTANCE SuggestionsProofs WITH
               MaxRow <- ActionRows, MaxGen <- ActionGens, Kinds <- ActionKinds,
               row <- aRow, nextRow <- aNextRow, active <- aActive, sug <- aSug,
               job <- aJob, tx <- aTx


LEMMA DecisionsStart == Decisions!Init <=> OnDecisions!Init
BY DEF Decisions!Init, OnDecisions!Init, Decisions!Row, OnDecisions!Row, Decisions!Absent,
       OnDecisions!Absent, Decisions!NULL, OnDecisions!NULL

LEMMA DecisionsStep == [Decisions!Next]_(Decisions!vars) <=> [OnDecisions!Next]_(OnDecisions!vars)
BY DEF Decisions!Next, OnDecisions!Next, Decisions!vars, OnDecisions!vars, Decisions!Content,
       OnDecisions!Content, Decisions!Edit, OnDecisions!Edit, Decisions!Detect,
       OnDecisions!Detect, Decisions!Reconcile, OnDecisions!Reconcile, Decisions!Resolve,
       OnDecisions!Resolve, Decisions!IngestDocument, OnDecisions!IngestDocument,
       Decisions!CreateMemory, OnDecisions!CreateMemory, Decisions!StageRow,
       OnDecisions!StageRow, Decisions!Publish, OnDecisions!Publish, Decisions!SweepOld,
       OnDecisions!SweepOld, Decisions!Row, OnDecisions!Row, Decisions!DeleteMemory,
       OnDecisions!DeleteMemory, Decisions!UpdateMemory, OnDecisions!UpdateMemory,
       Decisions!Due, OnDecisions!Due, Decisions!DetectFetch, OnDecisions!DetectFetch,
       Decisions!DetectInsert, OnDecisions!DetectInsert, Decisions!SuggestCompletion,
       OnDecisions!SuggestCompletion, Decisions!Open, OnDecisions!Open, Decisions!Reject,
       OnDecisions!Reject, Decisions!AcceptDueDate, OnDecisions!AcceptDueDate,
       Decisions!AcceptCompletion, OnDecisions!AcceptCompletion, Decisions!AcceptSupersede,
       OnDecisions!AcceptSupersede, Decisions!Refused, OnDecisions!Refused, Decisions!Insert,
       OnDecisions!Insert, Decisions!Absent, OnDecisions!Absent, Decisions!Suggest,
       OnDecisions!Suggest, Decisions!LockedSug, OnDecisions!LockedSug, Decisions!Outdated,
       OnDecisions!Outdated, Decisions!Detached, OnDecisions!Detached, Decisions!Closed,
       OnDecisions!Closed, Decisions!Exists, OnDecisions!Exists, Decisions!Locked,
       OnDecisions!Locked, Decisions!Drop, OnDecisions!Drop, Decisions!Published,
       OnDecisions!Published, Decisions!Mentions, OnDecisions!Mentions, Decisions!Pending,
       OnDecisions!Pending, Decisions!Active, OnDecisions!Active, Decisions!NULL,
       OnDecisions!NULL, Decisions!Completion, OnDecisions!Completion, Decisions!LiveDecision,
       OnDecisions!LiveDecision, Decisions!Insertable, OnDecisions!Insertable,
       Decisions!Cardinality, OnDecisions!Cardinality, Decisions!TargetCategory,
       OnDecisions!TargetCategory, Decisions!End, OnDecisions!End, Decisions!Blockers,
       OnDecisions!Blockers, Decisions!Edges, OnDecisions!Edges, Decisions!Retired,
       OnDecisions!Retired, Decisions!Superseded, OnDecisions!Superseded,
       Decisions!Matches, OnDecisions!Matches, Decisions!SuggestAll,
       OnDecisions!SuggestAll

LEMMA DecisionsSpec == Decisions!Spec => OnDecisions!Spec
BY DecisionsStart, DecisionsStep, PTL DEF Decisions!Spec, OnDecisions!Spec


LEMMA ActionsStart == Actions!Init <=> OnActions!Init
BY DEF Actions!Init, OnActions!Init, Actions!Row, OnActions!Row, Actions!Absent,
       OnActions!Absent, Actions!NULL, OnActions!NULL

LEMMA ActionsStep == [Actions!Next]_(Actions!vars) <=> [OnActions!Next]_(OnActions!vars)
BY DEF Actions!Next, OnActions!Next, Actions!vars, OnActions!vars, Actions!Content,
       OnActions!Content, Actions!Edit, OnActions!Edit, Actions!Detect, OnActions!Detect,
       Actions!Reconcile, OnActions!Reconcile, Actions!Resolve, OnActions!Resolve,
       Actions!IngestDocument, OnActions!IngestDocument, Actions!CreateMemory,
       OnActions!CreateMemory, Actions!StageRow, OnActions!StageRow, Actions!Publish,
       OnActions!Publish, Actions!SweepOld, OnActions!SweepOld, Actions!Row, OnActions!Row,
       Actions!DeleteMemory, OnActions!DeleteMemory, Actions!UpdateMemory,
       OnActions!UpdateMemory, Actions!Due, OnActions!Due, Actions!DetectFetch,
       OnActions!DetectFetch, Actions!DetectInsert, OnActions!DetectInsert,
       Actions!SuggestCompletion, OnActions!SuggestCompletion, Actions!Open, OnActions!Open,
       Actions!Reject, OnActions!Reject, Actions!AcceptDueDate, OnActions!AcceptDueDate,
       Actions!AcceptCompletion, OnActions!AcceptCompletion, Actions!AcceptSupersede,
       OnActions!AcceptSupersede, Actions!Refused, OnActions!Refused, Actions!Insert,
       OnActions!Insert, Actions!Absent, OnActions!Absent, Actions!Suggest, OnActions!Suggest,
       Actions!LockedSug, OnActions!LockedSug, Actions!Outdated, OnActions!Outdated,
       Actions!Detached, OnActions!Detached, Actions!Closed, OnActions!Closed, Actions!Exists,
       OnActions!Exists, Actions!Locked, OnActions!Locked, Actions!Drop, OnActions!Drop,
       Actions!Published, OnActions!Published, Actions!Mentions, OnActions!Mentions,
       Actions!Pending, OnActions!Pending, Actions!Active, OnActions!Active, Actions!NULL,
       OnActions!NULL, Actions!Completion, OnActions!Completion, Actions!LiveDecision,
       OnActions!LiveDecision, Actions!Insertable, OnActions!Insertable, Actions!Cardinality,
       OnActions!Cardinality, Actions!TargetCategory, OnActions!TargetCategory, Actions!End,
       OnActions!End, Actions!Blockers, OnActions!Blockers, Actions!Edges, OnActions!Edges,
       Actions!Retired, OnActions!Retired, Actions!Superseded, OnActions!Superseded,
       Actions!Matches, OnActions!Matches, Actions!SuggestAll,
       OnActions!SuggestAll

LEMMA ActionsSpec == Actions!Spec => OnActions!Spec
BY ActionsStart, ActionsStep, PTL DEF Actions!Spec, OnActions!Spec


(* Whatever is edited, published or deleted while people decide: a decision is hidden *)
(* only by one that is shown (suggestion.py:198-316).                                     *)
THEOREM HiddenAlwaysHasVisibleSuccessor == Decisions!Spec => []HiddenHasVisibleSuccessor
<1>1. HiddenHasVisibleSuccessor <=> OnDecisions!HiddenHasVisibleSuccessor
  BY DEF HiddenHasVisibleSuccessor, Decisions!HiddenHasVisibleSuccessor,
     OnDecisions!HiddenHasVisibleSuccessor,
       Decisions!Row, OnDecisions!Row, Decisions!Published, OnDecisions!Published,
       Decisions!Active, OnDecisions!Active, Decisions!Follow, OnDecisions!Follow,
       Decisions!Exists, OnDecisions!Exists, Decisions!Superseded, OnDecisions!Superseded,
       Decisions!NULL, OnDecisions!NULL
<1>2. QED
  BY <1>1, DecisionsSpec, SuggestionsAssumption, OnDecisions!HiddenAlwaysHasVisibleSuccessor,
     PTL

(* A pending suggestion can be accepted: both its decisions are there, and neither is   *)
(* hidden (decision_supersede.py, suggestion.py:198-316).                                  *)
THEOREM PendingAlwaysActionable == Decisions!Spec => []PendingSupersedeActionable
<1>1. PendingSupersedeActionable <=> OnDecisions!PendingSupersedeActionable
  BY DEF PendingSupersedeActionable, Decisions!PendingSupersedeActionable,
     OnDecisions!PendingSupersedeActionable,
       Decisions!Listed, OnDecisions!Listed, Decisions!LiveDecision, OnDecisions!LiveDecision,
       Decisions!Pending, OnDecisions!Pending, Decisions!Active, OnDecisions!Active,
       Decisions!NULL, OnDecisions!NULL, Decisions!Published, OnDecisions!Published,
       Decisions!Superseded, OnDecisions!Superseded, Decisions!Exists, OnDecisions!Exists
<1>2. QED
  BY <1>1, DecisionsSpec, SuggestionsAssumption, OnDecisions!PendingAlwaysActionable, PTL

(* What was accepted stands, and only where it can: of the two groups of suggestions,  *)
(* edges lead to published rows and completions are of actions.                            *)
THEOREM AcceptedAlwaysStands == Decisions!Spec /\ Actions!Spec => []AcceptedStands
<1>1. Decisions!EdgesStand <=> OnDecisions!EdgesStand
  BY DEF Decisions!EdgesStand, OnDecisions!EdgesStand, Decisions!Row, OnDecisions!Row,
       Decisions!NULL, OnDecisions!NULL, Decisions!Published, OnDecisions!Published,
       Decisions!Exists, OnDecisions!Exists
<1>2. Actions!CompletionOnActions <=> OnActions!CompletionOnActions
  BY DEF Actions!CompletionOnActions, OnActions!CompletionOnActions, Actions!Row, OnActions!Row
<1>3. AcceptedStands <=> OnDecisions!EdgesStand /\ OnActions!CompletionOnActions
  BY <1>1, <1>2 DEF AcceptedStands
<1>4. QED
  BY <1>3, DecisionsSpec, ActionsSpec, SuggestionsAssumption, OnDecisions!EdgesAlwaysStand,
     OnActions!CompletionAlwaysOnActions, PTL

-----------------------------------------------------------------------------
(* The history of decisions.  A component is the least set that supersede edges do not leave, *)
(* so that components are apart (Saturates: it is found within as many steps as there are       *)
(* decisions).  Where it has an end, all of it leads there, each successor being one step        *)
(* nearer; so the rows of a component, nearest first and shown in reverse, come before what       *)
(* replaced them, however many of them are taken.                                                *)

(* What is shown of an order on a finite set: of two elements one comes first, none comes    *)
(* before itself, and what comes before comes before what follows.                           *)
Ordered(S, order) ==
    /\ \A x \in S : <<x, x>> \notin order
    /\ \A x, y \in S : x # y => <<x, y>> \in order \/ <<y, x>> \in order
    /\ \A x, y, z \in S : <<x, y>> \in order /\ <<y, z>> \in order => <<x, z>> \in order

(* The instance counts with its own Cardinality. *)
LEMMA HistoryCardinality == \A S : History!Cardinality(S) = Cardinality(S)
BY DEF History!Cardinality, Cardinality

(* The first element, which the model chooses, exists: by induction on the size of the set. *)
LEMMA FirstExists ==
    ASSUME NEW S, NEW order, Ordered(S, order), IsFiniteSet(S), S # {}
    PROVE  History!First(S, order) \in S
           /\ \A y \in S \ {History!First(S, order)} : <<History!First(S, order), y>> \in order
<1> DEFINE Has(T) == \E x \in T : \A y \in T \ {x} : <<x, y>> \in order
           N == {n \in Nat : \A T \in SUBSET S :
                               IsFiniteSet(T) /\ Cardinality(T) = n /\ T # {} => Has(T)}
<1>1. 0 \in N
  <2> SUFFICES ASSUME NEW T \in SUBSET S, IsFiniteSet(T), Cardinality(T) = 0, T # {} PROVE FALSE
    OBVIOUS
  <2> QED BY FS_EmptySet
<1>2. ASSUME NEW n \in Nat, n \in N PROVE n + 1 \in N
  <2> SUFFICES ASSUME NEW T \in SUBSET S, IsFiniteSet(T), Cardinality(T) = n + 1, T # {}
               PROVE  Has(T)
    OBVIOUS
  <2>1. PICK t \in T : TRUE
    OBVIOUS
  <2> DEFINE U == T \ {t}
  <2>2. IsFiniteSet(U) /\ Cardinality(U) = n /\ U \in SUBSET S
    <3>1. IsFiniteSet(T \ {t})
          /\ Cardinality(T \ {t}) = IF t \in T THEN Cardinality(T) - 1 ELSE Cardinality(T)
      BY FS_RemoveElement
    <3>2. U = T \ {t} /\ U \in SUBSET S
      OBVIOUS
    <3> QED BY <2>1, <3>1, <3>2
  <2>3. CASE U = {}
    BY <2>1, <2>3
  <2>4. CASE U # {}
    <3>1. Has(U)
      <4> HIDE DEF U, Has
      <4> QED BY <1>2, <2>2, <2>4
    <3>2. PICK u \in U : \A y \in U \ {u} : <<u, y>> \in order
      BY <3>1
    <3>3. u \in S /\ t \in S /\ u # t
      BY <2>1
    <3>4. CASE <<u, t>> \in order
      <4>1. \A y \in T \ {u} : <<u, y>> \in order
        BY <3>2, <3>4
      <4>2. u \in T
        OBVIOUS
      <4> QED BY <4>1, <4>2
    <3>5. CASE <<t, u>> \in order
      <4>1. ASSUME NEW y \in T \ {t} PROVE <<t, y>> \in order
        <5>1. CASE y = u
          BY <3>5, <5>1
        <5>2. CASE y # u
          <6>1. <<u, y>> \in order /\ y \in S
            BY <3>2, <5>2
          <6> QED BY <3>3, <3>5, <6>1 DEF Ordered
        <5> QED BY <5>1, <5>2
      <4> QED BY <2>1, <4>1
    <3> QED BY <3>3, <3>4, <3>5 DEF Ordered
  <2> QED BY <2>3, <2>4
<1>3. Cardinality(S) \in N
  <2>1. Cardinality(S) \in Nat
    BY FS_CardinalityType
  <2> HIDE DEF N
  <2> QED BY <1>1, <1>2, <2>1, NumberInduction
<1>4. Has(S)
  BY <1>3
<1> QED BY <1>4 DEF History!First

(* An order on a finite set gives a sequence with each of its elements once, in that order. *)
Listing(q, S, order) ==
    /\ q \in Seq(S)
    /\ \A x \in S : \E a \in 1..Len(q) : q[a] = x
    /\ \A a, b \in 1..Len(q) : a < b => q[a] # q[b] /\ <<q[a], q[b]>> \in order

LEMMA Listed ==
    ASSUME NEW S, NEW order, Ordered(S, order), IsFiniteSet(S)
    PROVE  Listing(History!InOrder(S, order), S, order)
<1> DEFINE n == History!Cardinality(S)
           Eq(f) == f = [k \in 0..n |-> IF k = 0 THEN S ELSE History!Later(f[k - 1], order)]
           step == [p \in (1..n) \X SUBSET S |-> History!Later(p[2], order)]
<1>1. n \in Nat /\ n = Cardinality(S)
  BY FS_CardinalityType, HistoryCardinality
<1>2. step \in [(1..n) \X SUBSET S -> SUBSET S]
  BY DEF History!Later
<1>3. PICK f \in [0..n -> SUBSET S] : GoesOn(f, n, S, step)
  <2> HIDE DEF n, step
  <2> QED BY <1>1, <1>2, Recursion
<1>4. Eq(f)
  <2>1. ASSUME NEW k \in 0..n PROVE f[k] = IF k = 0 THEN S ELSE History!Later(f[k - 1], order)
    <3>1. f[k] = IF k = 0 THEN S ELSE step[<<k, f[k - 1]>>]
      BY <1>3 DEF GoesOn
    <3>2. CASE k = 0
      BY <3>1, <3>2
    <3>3. CASE k # 0
      <4>1. k \in 1..n /\ k - 1 \in 0..n
        BY <1>1, <3>3
      <4>2. f[k - 1] \in SUBSET S
        BY <1>3, <4>1
      <4>3. step[<<k, f[k - 1]>>] = History!Later(f[k - 1], order)
        BY <4>1, <4>2
      <4> QED BY <3>1, <3>3, <4>3
    <3> QED BY <3>2, <3>3
  <2> HIDE DEF n, step
  <2> QED BY <1>3, <2>1
<1> DEFINE rest == CHOOSE g : Eq(g)
           q == [k \in 1..n |-> History!First(rest[k - 1], order)]
<1>5. Eq(rest)
  <2> HIDE DEF Eq
  <2> QED BY <1>4, Zenon
<1>6. History!InOrder(S, order) = q
  BY Zenon DEF History!InOrder
<1>7. rest[0] = S /\ \A k \in 1..n : rest[k] = History!Later(rest[k - 1], order)
  <2>1. \A k \in 0..n : rest[k] = IF k = 0 THEN S ELSE History!Later(rest[k - 1], order)
    <3> HIDE DEF rest, n
    <3> QED BY <1>5
  <2> HIDE DEF rest, n, Eq
  <2> QED BY <1>1, <2>1
<1> HIDE DEF rest, Eq, step
<1>8. \A k \in 0..n : rest[k] \in SUBSET S /\ IsFiniteSet(rest[k])
      /\ Cardinality(rest[k]) = n - k
  <2> DEFINE Good(k) == rest[k] \in SUBSET S /\ IsFiniteSet(rest[k])
             /\ Cardinality(rest[k]) = n - k
             N == {k \in Nat : k <= n => Good(k)}
  <2>1. 0 \in N
    BY <1>1, <1>7
  <2>2. ASSUME NEW k \in Nat, k \in N PROVE k + 1 \in N
    <3> SUFFICES ASSUME k + 1 <= n PROVE Good(k + 1)
      OBVIOUS
    <3>1. Good(k) /\ k + 1 \in 1..n /\ (k + 1) - 1 = k
      BY <1>1, <2>2
    <3> DEFINE T == rest[k]
               x == History!First(T, order)
    <3>2. rest[k + 1] = T \ {x}
      BY <1>7, <3>1 DEF History!Later
    <3>3. T # {} /\ IsFiniteSet(T) /\ Ordered(T, order)
      <4>1. Cardinality(T) # 0
        BY <1>1, <3>1
      <4> QED BY <3>1, <4>1, FS_EmptySet DEF Ordered
    <3>4. x \in T
      <4> HIDE DEF T
      <4> QED BY <3>3, FirstExists
    <3>5. IsFiniteSet(T \ {x}) /\ Cardinality(T \ {x}) = Cardinality(T) - 1
      <4> HIDE DEF T, x
      <4> QED BY <3>3, <3>4, FS_RemoveElement
    <3> HIDE DEF n
    <3> QED BY <1>1, <3>1, <3>2, <3>5
  <2> HIDE DEF n
  <2>3. ASSUME NEW k \in 0..n PROVE Good(k)
    <3>1. k \in N
      <4> HIDE DEF N
      <4> QED BY <1>1, <2>1, <2>2, NumberInduction
    <3> QED BY <1>1, <3>1
  <2> QED BY <2>3
<1>9. ASSUME NEW k \in 1..n
      PROVE  /\ q[k] \in rest[k - 1] /\ rest[k] = rest[k - 1] \ {q[k]} /\ q[k] \in S
             /\ \A y \in rest[k] : <<q[k], y>> \in order
  <2> DEFINE T == rest[k - 1]
  <2>1. k - 1 \in 0..n /\ n - (k - 1) # 0
    BY <1>1
  <2>2. T \in SUBSET S /\ T # {} /\ IsFiniteSet(T) /\ Ordered(T, order)
    <3>1. T \in SUBSET S /\ IsFiniteSet(T) /\ Cardinality(T) = n - (k - 1)
      BY <1>8, <2>1
    <3> QED BY <2>1, <3>1, FS_EmptySet DEF Ordered
  <2>3. History!First(T, order) \in T
        /\ \A y \in T \ {History!First(T, order)} : <<History!First(T, order), y>> \in order
    <3> HIDE DEF T
    <3> QED BY <2>2, FirstExists
  <2>4. q[k] = History!First(T, order) /\ rest[k] = T \ {History!First(T, order)}
    BY <1>7 DEF History!Later
  <2> HIDE DEF q
  <2> QED BY <2>2, <2>3, <2>4
<1>10. q \in Seq(S) /\ Len(q) = n
  <2>1. \A k \in 1..n : q[k] \in S
    BY <1>9
  <2>2. q = [k \in 1..n |-> q[k]]
    OBVIOUS
  <2> HIDE DEF q, n
  <2>3. q \in [1..n -> S]
    BY <2>1, <2>2
  <2> QED BY <1>1, <2>3, <2>2
<1> HIDE DEF q
<1>11. \A k \in 0..n : \A j \in 0..k : rest[k] \subseteq rest[j]
  <2> DEFINE Good(k) == \A j \in 0..k : rest[k] \subseteq rest[j]
             N == {k \in Nat : k <= n => Good(k)}
  <2>1. 0 \in N
    OBVIOUS
  <2>2. ASSUME NEW k \in Nat, k \in N PROVE k + 1 \in N
    <3> SUFFICES ASSUME k + 1 <= n, NEW j \in 0..k + 1 PROVE rest[k + 1] \subseteq rest[j]
      OBVIOUS
    <3>1. k + 1 \in 1..n /\ (k + 1) - 1 = k
      BY <1>1
    <3>2. rest[k + 1] \subseteq rest[k]
      BY <1>9, <3>1
    <3>3. CASE j = k + 1
      BY <3>3
    <3>4. CASE j # k + 1
      <4>1. j \in 0..k /\ k <= n
        BY <1>1, <3>4
      <4>2. rest[k] \subseteq rest[j]
        BY <2>2, <4>1
      <4> QED BY <3>2, <4>2
    <3> QED BY <3>3, <3>4
  <2> HIDE DEF n
  <2>3. ASSUME NEW k \in 0..n PROVE Good(k)
    <3>1. k \in N
      <4> HIDE DEF N
      <4> QED BY <1>1, <2>1, <2>2, NumberInduction
    <3> QED BY <1>1, <3>1
  <2> QED BY <2>3
<1>12. ASSUME NEW a \in 1..n, NEW b \in 1..n, a < b
       PROVE  q[a] # q[b] /\ <<q[a], q[b]>> \in order
  <2>1. b - 1 \in 0..n /\ a \in 0..b - 1
    BY <1>1, <1>12
  <2>2. rest[b - 1] \subseteq rest[a]
    BY <1>11, <2>1
  <2>3. q[b] \in rest[a] /\ rest[a] = rest[a - 1] \ {q[a]}
    BY <1>9, <2>2
  <2> QED BY <1>9, <2>3
<1>13. ASSUME NEW x \in S PROVE \E a \in 1..n : q[a] = x
  <2> DEFINE Good(k) == x \in rest[k] \/ \E a \in 1..n : q[a] = x
             N == {k \in Nat : k <= n => Good(k)}
  <2>1. 0 \in N
    BY <1>7
  <2>2. ASSUME NEW k \in Nat, k \in N PROVE k + 1 \in N
    <3> SUFFICES ASSUME k + 1 <= n PROVE Good(k + 1)
      OBVIOUS
    <3>1. k + 1 \in 1..n /\ (k + 1) - 1 = k
      BY <1>1
    <3>2. rest[k + 1] = rest[k] \ {q[k + 1]}
      BY <1>9, <3>1
    <3>3. k <= n
      BY <1>1
    <3> QED BY <2>2, <3>1, <3>2, <3>3
  <2>3. n \in N
    <3> HIDE DEF N, n
    <3> QED BY <1>1, <2>1, <2>2, NumberInduction
  <2>4. rest[n] = {}
    <3>1. n \in 0..n /\ n - n = 0
      BY <1>1
    <3>2. IsFiniteSet(rest[n]) /\ Cardinality(rest[n]) = 0
      <4> HIDE DEF n
      <4> QED BY <1>8, <3>1
    <3> QED BY <3>2, FS_EmptySet
  <2> HIDE DEF n
  <2> QED BY <1>1, <2>3, <2>4
<1> HIDE DEF n
<1> QED BY <1>6, <1>10, <1>12, <1>13 DEF Listing

(* What a history is asked of: decisions with at most one successor each, which is not the   *)
(* decision itself; rows without a successor that the search selected; a finite topic.        *)
Chronicle ==
    /\ MaxDecision \in Nat /\ Soft \in Nat /\ Hard \in Nat /\ Soft <= Hard
    /\ hBy \in [History!Id -> 0..History!Other] /\ \A i \in History!Id : hBy[i] # i
    /\ hSlots \in SUBSET History!Id /\ \A i \in hSlots : hBy[i] = 0
    /\ hDate \in [History!Id -> Nat]
    /\ hScope \in {"topical", "global"} /\ IsFiniteSet(hAbout)

LEMMA GrownStays ==
    ASSUME Chronicle, NEW S \in SUBSET History!Id
    PROVE  /\ History!Grown(S) \in SUBSET History!Id /\ S \subseteq History!Grown(S)
           /\ S \subseteq History!Graph => History!Grown(S) \subseteq History!Graph
<1>1. History!Graph \subseteq History!Id /\ History!Preds(S) \subseteq History!Graph
  BY DEF History!Graph, History!Preds
<1>2. {hBy[j] : j \in S} \cap History!Id \subseteq History!Graph
  BY DEF History!Graph, Chronicle
<1> QED BY <1>1, <1>2 DEF History!Grown

(* A component is the least set around its element that supersede edges do not leave. *)
LEMMA ComponentIs ==
    ASSUME Chronicle, NEW i \in History!Graph
    PROVE  /\ i \in History!Component(i) /\ History!Component(i) \subseteq History!Graph
           /\ History!Grown(History!Component(i)) = History!Component(i)
           /\ \A S \in SUBSET History!Id : i \in S
                 /\ History!Grown(S) \subseteq S => History!Component(i) \subseteq S
<1> DEFINE n == MaxDecision
           V == SUBSET History!Id
           Eq(f) == f = [k \in 0..n |-> IF k = 0 THEN {i} ELSE History!Grown(f[k - 1])]
           step == [p \in (1..n) \X V |-> History!Grown(p[2])]
<1>1. n \in Nat /\ History!Id = 1..n /\ i \in History!Id /\ {i} \in V
  BY DEF Chronicle, History!Id, History!Graph
<1>2. \A S \in V : History!Grown(S) \in V /\ S \subseteq History!Grown(S)
      /\ (S \subseteq History!Graph => History!Grown(S) \subseteq History!Graph)
  BY GrownStays
<1>3. step \in [(1..n) \X V -> V]
  <2> HIDE DEF V
  <2> QED BY <1>2
<1>4. PICK f \in [0..n -> V] : GoesOn(f, n, {i}, step)
  <2> HIDE DEF n, step, V
  <2> QED BY <1>1, <1>3, Recursion
<1>5. Eq(f)
  <2>1. ASSUME NEW k \in 0..n PROVE f[k] = IF k = 0 THEN {i} ELSE History!Grown(f[k - 1])
    <3>1. f[k] = IF k = 0 THEN {i} ELSE step[<<k, f[k - 1]>>]
      BY <1>4 DEF GoesOn
    <3>2. CASE k = 0
      BY <3>1, <3>2
    <3>3. CASE k # 0
      <4>1. k \in 1..n /\ k - 1 \in 0..n
        BY <1>1, <3>3
      <4>2. f[k - 1] \in V
        BY <1>4, <4>1
      <4>3. step[<<k, f[k - 1]>>] = History!Grown(f[k - 1])
        BY <4>1, <4>2
      <4> QED BY <3>1, <3>3, <4>3
    <3> QED BY <3>2, <3>3
  <2> HIDE DEF n, step, V
  <2> QED BY <1>4, <2>1
<1> DEFINE g == CHOOSE f1 : Eq(f1)
<1>6. Eq(g)
  <2> HIDE DEF Eq
  <2> QED BY <1>5, Zenon
<1>7. History!Component(i) = g[n]
  BY Zenon DEF History!Component
<1>8. g[0] = {i} /\ \A k \in 1..n : g[k] = History!Grown(g[k - 1])
  <2>1. \A k \in 0..n : g[k] = IF k = 0 THEN {i} ELSE History!Grown(g[k - 1])
    <3> HIDE DEF g, n
    <3> QED BY <1>6
  <2> HIDE DEF g, n, Eq
  <2> QED BY <1>1, <2>1
<1>9. DOMAIN g = 0..n /\ g = [k \in 0..n |-> g[k]]
  <2> HIDE DEF g, n
  <2> QED BY <1>6
<1> HIDE DEF g, Eq, step
<1> DEFINE Rests(S) == i \in S /\ History!Grown(S) \subseteq S
<1>10. \A S, T \in V : S \subseteq T => History!Grown(S) \subseteq History!Grown(T)
  BY DEF History!Grown, History!Preds
<1>11. \A k \in 0..n : g[k] \in V /\ g[k] \subseteq History!Graph /\ i \in g[k]
                       /\ \A S \in V : Rests(S) => g[k] \subseteq S
  <2> DEFINE Good(k) == g[k] \in V /\ g[k] \subseteq History!Graph /\ i \in g[k]
                        /\ \A S \in V : Rests(S) => g[k] \subseteq S
             N == {k \in Nat : k <= n => Good(k)}
  <2>1. 0 \in N
    BY <1>1, <1>8
  <2>2. ASSUME NEW k \in Nat, k \in N PROVE k + 1 \in N
    <3> SUFFICES ASSUME k + 1 <= n PROVE Good(k + 1)
      OBVIOUS
    <3>1. Good(k) /\ k + 1 \in 1..n /\ (k + 1) - 1 = k
      BY <1>1, <2>2
    <3>2. g[k + 1] = History!Grown(g[k])
      BY <1>8, <3>1
    <3>3. ASSUME NEW S \in V, Rests(S) PROVE g[k + 1] \subseteq S
      <4>1. History!Grown(g[k]) \subseteq History!Grown(S)
        <5>1. g[k] \in V /\ g[k] \subseteq S
          BY <3>1, <3>3
        <5> HIDE DEF V
        <5> QED BY <1>10, <5>1
      <4> QED BY <3>2, <3>3, <4>1
    <3>4. g[k + 1] \in V /\ g[k + 1] \subseteq History!Graph /\ i \in g[k + 1]
      <4> HIDE DEF V, Rests
      <4> QED BY <1>2, <3>1, <3>2
    <3> QED BY <3>3, <3>4
  <2> HIDE DEF n, V, Rests
  <2>3. ASSUME NEW k \in 0..n PROVE Good(k)
    <3>1. k \in N
      <4> HIDE DEF N
      <4> QED BY <1>1, <2>1, <2>2, NumberInduction
    <3> QED BY <1>1, <3>1
  <2> QED BY <2>3
<1>12. History!Grown(g[n]) = g[n]
  <2> DEFINE next == [S \in SUBSET (1..n) |-> History!Grown(S)]
  <2>1. /\ next \in [SUBSET (1..n) -> SUBSET (1..n)]
        /\ \A S \in SUBSET (1..n) : S \subseteq next[S] /\ next[S] = History!Grown(S)
    BY <1>1, <1>2
  <2>2. g \in [0..n -> SUBSET (1..n)]
    <3>1. \A k \in 0..n : g[k] \in SUBSET (1..n)
      BY <1>1, <1>11
    <3> QED BY <1>9, <3>1
  <2>3. g[0] # {}
    BY <1>8
  <2>4. \A k \in 1..n : g[k] = next[g[k - 1]]
    <3> SUFFICES ASSUME NEW k \in 1..n PROVE g[k] = next[g[k - 1]]
      OBVIOUS
    <3>1. k - 1 \in 0..n
      BY <1>1
    <3>2. g[k - 1] \in SUBSET (1..n)
      BY <2>2, <3>1
    <3> QED BY <1>8, <2>1, <3>2
  <2>5. next[g[n]] = g[n]
    <3> HIDE DEF next, n
    <3> QED BY <1>1, <2>1, <2>2, <2>3, <2>4, Saturates
  <2>6. g[n] \in SUBSET (1..n)
    BY <1>1, <2>2
  <2> QED BY <2>1, <2>5, <2>6
<1>13. n \in 0..n
  BY <1>1
<1> HIDE DEF n
<1> QED BY <1>7, <1>11, <1>12, <1>13

(* Each of its elements has the same component: components are apart. *)
LEMMA SameComponent ==
    ASSUME Chronicle, NEW i \in History!Graph, NEW j \in History!Component(i)
    PROVE  History!Component(j) = History!Component(i)
<1> DEFINE C == History!Component(i)
           D == History!Component(j)
<1>0. History!Graph \subseteq History!Id
  BY DEF History!Graph
<1>1. /\ i \in C /\ C \subseteq History!Graph /\ History!Grown(C) = C
      /\ \A S \in SUBSET History!Id : i \in S /\ History!Grown(S) \subseteq S => C \subseteq S
  BY ComponentIs
<1>2. j \in History!Graph
  BY <1>1
<1>3. /\ j \in D /\ D \subseteq History!Graph /\ History!Grown(D) = D
      /\ \A S \in SUBSET History!Id : j \in S /\ History!Grown(S) \subseteq S => D \subseteq S
  BY <1>2, ComponentIs
<1> HIDE DEF C, D
<1>4. D \subseteq C
  <2>1. C \in SUBSET History!Id /\ j \in C
    BY <1>0, <1>1 DEF C
  <2> QED BY <1>1, <1>3, <2>1
<1>5. i \in D
  <2> SUFFICES ASSUME i \notin D PROVE FALSE
    OBVIOUS
  <2> DEFINE R == C \ D
  <2>1. ASSUME NEW x \in History!Grown(R) PROVE x \in R
    <3>1. x \in C
      <4>1. History!Grown(R) \subseteq History!Grown(C)
        BY DEF History!Grown, History!Preds
      <4> QED BY <1>1, <4>1
    <3>2. ASSUME x \in D PROVE FALSE
      <4>1. CASE x \in History!Preds(R)
        <5>1. x \in History!Graph /\ hBy[x] \in R /\ hBy[x] \in History!Id
          BY <1>0, <1>1, <4>1 DEF History!Preds
        <5>2. hBy[x] \in History!Grown(D)
          BY <3>2, <5>1 DEF History!Grown
        <5> QED BY <1>3, <5>1, <5>2
      <4>2. CASE x \in {hBy[y] : y \in R} \cap History!Id
        <5>1. PICK y \in R : x = hBy[y]
          BY <4>2
        <5>2. y \in History!Preds(D)
          BY <1>1, <3>2, <5>1 DEF History!Preds
        <5> QED BY <1>3, <5>1, <5>2 DEF History!Grown
      <4>3. CASE x \in R
        BY <3>2, <4>3
      <4> QED BY <2>1, <4>1, <4>2, <4>3 DEF History!Grown
    <3> QED BY <3>1, <3>2
  <2>2. C \subseteq R
    <3>1. R \in SUBSET History!Id /\ i \in R /\ History!Grown(R) \subseteq R
      <4> HIDE DEF R
      <4>1. R \in SUBSET History!Id /\ i \in R
        BY <1>0, <1>1 DEF R
      <4> QED BY <2>1, <4>1
    <3> HIDE DEF R
    <3> QED BY <1>1, <3>1
  <2>3. j \in C
    BY DEF C
  <2> QED BY <1>3, <2>2, <2>3
<1>6. C \subseteq D
  <2>1. D \in SUBSET History!Id
    BY <1>0, <1>3
  <2> QED BY <1>1, <1>3, <1>5, <2>1
<1> QED BY <1>4, <1>6 DEF C, D

LEMMA ComponentsApart ==
    ASSUME Chronicle
    PROVE  /\ History!Graph \subseteq History!Id
           /\ \A c \in History!Components :
                 /\ c # {} /\ c \subseteq History!Graph /\ c \in SUBSET History!Id
                 /\ History!Grown(c) = c
                 /\ \A j \in c : History!Component(j) = c
           /\ \A i \in History!Graph : History!Component(i) \in History!Components
                 /\ i \in History!Component(i)
           /\ \A c, d \in History!Components : c # d => c \cap d = {}
<1>1. History!Graph \subseteq History!Id
  BY DEF History!Graph
<1>2. ASSUME NEW c \in History!Components
      PROVE  /\ c # {} /\ c \subseteq History!Graph /\ c \in SUBSET History!Id
             /\ History!Grown(c) = c
             /\ \A j \in c : History!Component(j) = c
  <2>1. PICK i \in History!Graph : c = History!Component(i)
    BY DEF History!Components
  <2> QED BY <1>1, <2>1, ComponentIs, SameComponent
<1>3. \A i \in History!Graph : History!Component(i) \in History!Components
      /\ i \in History!Component(i)
  BY ComponentIs DEF History!Components
<1>4. ASSUME NEW c \in History!Components, NEW d \in History!Components, c # d
      PROVE  c \cap d = {}
  <2> SUFFICES ASSUME NEW j \in c \cap d PROVE FALSE
    OBVIOUS
  <2>1. History!Component(j) = c /\ History!Component(j) = d
    BY <1>2
  <2> QED BY <1>4, <2>1
<1> QED BY <1>1, <1>2, <1>3, <1>4

(* The greatest of a bounded set of numbers, which the model chooses, exists. *)
LEMMA GreatestOf ==
    ASSUME NEW S \in SUBSET Nat, S # {}, NEW b \in Nat, \A x \in S : x <= b
    PROVE  History!MaxOf(S) \in S /\ \A x \in S : x <= History!MaxOf(S)
<1>1. \E m \in S : \A x \in S : x <= m
  BY GreatestNumber
<1> QED BY <1>1 DEF History!MaxOf

(* The anchor is in its component, and at the end of the chain if there is one. *)
LEMMA AnchorIs ==
    ASSUME Chronicle, NEW c \in History!Components
    PROVE  History!Anchor(c) \in c /\ (History!Terminals(c) # {} => hBy[History!Anchor(c)] = 0)
<1>1. c # {} /\ c \in SUBSET History!Id
  BY ComponentsApart
<1>2. MaxDecision \in Nat /\ History!Id = 1..MaxDecision
  BY DEF Chronicle, History!Id
<1> DEFINE S == IF History!Terminals(c) # {} THEN History!Terminals(c) ELSE c
<1>3. S \in SUBSET Nat /\ S # {} /\ S \subseteq c /\ \A x \in S : x <= MaxDecision
  <2>1. S \subseteq c /\ S # {}
    BY <1>1 DEF History!Terminals
  <2> HIDE DEF S
  <2> QED BY <1>1, <1>2, <2>1
<1>4. History!MaxOf(S) \in S
  <2> HIDE DEF S
  <2> QED BY <1>2, <1>3, GreatestOf
<1>5. History!Anchor(c) = History!MaxOf(S)
  BY DEF History!Anchor
<1> QED BY <1>3, <1>4, <1>5 DEF History!Terminals

(* What is reached from the anchor within k steps against the edges. *)
LEMMA WithinIs ==
    ASSUME Chronicle, NEW c \in History!Components
    PROVE  /\ History!Within(c) \in [0..MaxDecision -> SUBSET c]
           /\ History!Within(c)[0] = {History!Anchor(c)}
           /\ \A k \in 1..MaxDecision :
                 History!Within(c)[k] = History!Wider(History!Within(c)[k - 1], c)
           /\ History!Wider(History!Within(c)[MaxDecision], c) = History!Within(c)[MaxDecision]
<1> DEFINE n == MaxDecision
           V == SUBSET c
           a == History!Anchor(c)
           Eq(f) == f = [k \in 0..n |-> IF k = 0 THEN {a} ELSE History!Wider(f[k - 1], c)]
           step == [p \in (1..n) \X V |-> History!Wider(p[2], c)]
<1>1. n \in Nat /\ History!Id = 1..n /\ c \in SUBSET History!Id /\ {a} \in V
  BY AnchorIs, ComponentsApart DEF Chronicle, History!Id
<1>2. \A S \in V : History!Wider(S, c) \in V /\ S \subseteq History!Wider(S, c)
  BY DEF History!Wider
<1>3. step \in [(1..n) \X V -> V]
  <2> HIDE DEF V
  <2> QED BY <1>2
<1>4. PICK f \in [0..n -> V] : GoesOn(f, n, {a}, step)
  <2> HIDE DEF n, step, V, a
  <2> QED BY <1>1, <1>3, Recursion
<1>5. Eq(f)
  <2>1. ASSUME NEW k \in 0..n PROVE f[k] = IF k = 0 THEN {a} ELSE History!Wider(f[k - 1], c)
    <3>1. f[k] = IF k = 0 THEN {a} ELSE step[<<k, f[k - 1]>>]
      BY <1>4 DEF GoesOn
    <3>2. CASE k = 0
      BY <3>1, <3>2
    <3>3. CASE k # 0
      <4>1. k \in 1..n /\ k - 1 \in 0..n
        BY <1>1, <3>3
      <4>2. f[k - 1] \in V
        BY <1>4, <4>1
      <4>3. step[<<k, f[k - 1]>>] = History!Wider(f[k - 1], c)
        BY <4>1, <4>2
      <4> QED BY <3>1, <3>3, <4>3
    <3> QED BY <3>2, <3>3
  <2> HIDE DEF n, step, V, a
  <2> QED BY <1>4, <2>1
<1> DEFINE g == CHOOSE f1 : Eq(f1)
<1>6. Eq(g)
  <2> HIDE DEF Eq
  <2> QED BY <1>5, Zenon
<1>7. History!Within(c) = g
  BY Zenon DEF History!Within
<1>8. g[0] = {a} /\ \A k \in 1..n : g[k] = History!Wider(g[k - 1], c)
  <2>1. \A k \in 0..n : g[k] = IF k = 0 THEN {a} ELSE History!Wider(g[k - 1], c)
    <3> HIDE DEF g, n, a
    <3> QED BY <1>6
  <2> HIDE DEF g, n, Eq, a
  <2> QED BY <1>1, <2>1
<1>9. g = [k \in 0..n |-> g[k]]
  <2> HIDE DEF g, n, a
  <2> QED BY <1>6
<1> HIDE DEF g, Eq, step, a
<1>10. \A k \in 0..n : g[k] \in V
  <2> DEFINE N == {k \in Nat : k <= n => g[k] \in V}
  <2>1. 0 \in N
    BY <1>1, <1>8
  <2>2. ASSUME NEW k \in Nat, k \in N PROVE k + 1 \in N
    <3> SUFFICES ASSUME k + 1 <= n PROVE g[k + 1] \in V
      OBVIOUS
    <3>1. g[k] \in V /\ k + 1 \in 1..n /\ (k + 1) - 1 = k
      <4> HIDE DEF V
      <4> QED BY <1>1, <2>2
    <3> HIDE DEF V
    <3> QED BY <1>2, <1>8, <3>1
  <2> HIDE DEF n, V
  <2>3. ASSUME NEW k \in 0..n PROVE g[k] \in V
    <3>1. k \in N
      <4> HIDE DEF N
      <4> QED BY <1>1, <2>1, <2>2, NumberInduction
    <3> QED BY <1>1, <3>1
  <2> QED BY <2>3
<1>11. g \in [0..n -> V]
  <2> HIDE DEF V, n
  <2> QED BY <1>9, <1>10
<1>12. History!Wider(g[n], c) = g[n]
  <2> DEFINE next == [S \in SUBSET (1..n) |-> S \cup (History!Preds(S) \cap c)]
  <2>1. /\ next \in [SUBSET (1..n) -> SUBSET (1..n)]
        /\ \A S \in SUBSET (1..n) : S \subseteq next[S] /\ next[S] = History!Wider(S, c)
    BY <1>1 DEF History!Wider
  <2>2. g \in [0..n -> SUBSET (1..n)]
    <3>1. \A k \in 0..n : g[k] \in SUBSET (1..n)
      BY <1>1, <1>10
    <3> HIDE DEF n
    <3> QED BY <1>9, <3>1
  <2>3. g[0] # {}
    BY <1>8
  <2>4. \A k \in 1..n : g[k] = next[g[k - 1]]
    <3> SUFFICES ASSUME NEW k \in 1..n PROVE g[k] = next[g[k - 1]]
      OBVIOUS
    <3>1. k - 1 \in 0..n
      BY <1>1
    <3>2. g[k - 1] \in SUBSET (1..n)
      BY <2>2, <3>1
    <3> QED BY <1>8, <2>1, <3>2
  <2>5. next[g[n]] = g[n]
    <3> HIDE DEF next, n
    <3> QED BY <1>1, <2>1, <2>2, <2>3, <2>4, Saturates
  <2>6. g[n] \in SUBSET (1..n)
    BY <1>1, <2>2
  <2> QED BY <2>1, <2>5, <2>6
<1> QED BY <1>7, <1>8, <1>11, <1>12 DEF a

(* Where there is a decision without a successor, every other one leads to it: its successor *)
(* is a decision of the component, and nearer to the anchor.                                  *)
LEMMA SuccessorNearer ==
    ASSUME Chronicle, NEW c \in History!Components
    PROVE  /\ History!Level(c) \in [c -> Nat]
           /\ History!Terminals(c) # {} =>
                 \A i \in c : hBy[i] # 0 => hBy[i] \in c
                 /\ History!Level(c)[hBy[i]] < History!Level(c)[i]
<1> DEFINE W == History!Within(c)
           a == History!Anchor(c)
           Hops(i) == {k \in 0..MaxDecision : i \in W[k]}
           level == [i \in c |-> IF Hops(i) = {} THEN MaxDecision + 1
                                 ELSE CHOOSE k \in Hops(i) : \A h \in Hops(i) : k <= h]
<1>1. /\ W \in [0..MaxDecision -> SUBSET c] /\ W[0] = {a}
      /\ \A k \in 1..MaxDecision : W[k] = History!Wider(W[k - 1], c)
      /\ History!Wider(W[MaxDecision], c) = W[MaxDecision]
  BY WithinIs
<1>2. History!Level(c) = level
  BY Zenon DEF History!Level
<1>3. MaxDecision \in Nat /\ History!Id = 1..MaxDecision /\ c \in SUBSET History!Id
      /\ c \subseteq History!Graph /\ History!Grown(c) = c
      /\ a \in c /\ (History!Terminals(c) # {} => hBy[a] = 0)
  BY ComponentsApart, AnchorIs DEF Chronicle, History!Id
<1>4. ASSUME NEW i \in c, Hops(i) # {}
      PROVE  level[i] \in Hops(i) /\ \A h \in Hops(i) : level[i] <= h
  <2>1. \E k \in Hops(i) : \A h \in Hops(i) : k <= h
    <3>1. Hops(i) \in SUBSET Nat
      BY <1>3
    <3> HIDE DEF Hops
    <3> QED BY <1>4, <3>1, LeastNumber
  <2>2. level[i] = CHOOSE k \in Hops(i) : \A h \in Hops(i) : k <= h
    BY <1>4
  <2> HIDE DEF Hops, level
  <2> QED BY <2>1, <2>2
<1>5. ASSUME NEW i \in c PROVE level[i] \in Nat
  <2>1. CASE Hops(i) = {}
    BY <1>3, <2>1
  <2>2. CASE Hops(i) # {}
    <3>1. level[i] \in Hops(i)
      <4> HIDE DEF level, Hops
      <4> QED BY <1>4, <2>2
    <3> HIDE DEF level
    <3> QED BY <1>3, <3>1
  <2> QED BY <2>1, <2>2
<1>6. level \in [c -> Nat]
  BY <1>5
<1>7. ASSUME History!Terminals(c) # {}, NEW i \in c, hBy[i] # 0
      PROVE  hBy[i] \in c /\ level[hBy[i]] < level[i]
  <2> HIDE DEF W, a, level
  <2> DEFINE R == W[MaxDecision]
  <2>1. R \in SUBSET c /\ History!Preds(R) \cap c \subseteq R
    <3>1. MaxDecision \in 0..MaxDecision
      BY <1>3
    <3> QED BY <1>1, <3>1 DEF History!Wider
  <2>2. \A k \in 0..MaxDecision : W[k] \subseteq R
    <3> DEFINE Good(k) == k <= MaxDecision => W[MaxDecision - k] \subseteq R
               N == {k \in Nat : Good(k)}
    <3>1. 0 \in N
      BY <1>3
    <3>2. ASSUME NEW k \in Nat, k \in N PROVE k + 1 \in N
      <4> SUFFICES ASSUME k + 1 <= MaxDecision PROVE W[MaxDecision - (k + 1)] \subseteq R
        OBVIOUS
      <4> DEFINE m == MaxDecision - k
      <4>1. m \in 1..MaxDecision /\ MaxDecision - (k + 1) = m - 1 /\ k <= MaxDecision
        BY <1>3
      <4>2. W[m] \subseteq R /\ W[m] = History!Wider(W[m - 1], c)
        <5>1. W[m] \subseteq R
          <6> HIDE DEF R
          <6> QED BY <3>2, <4>1
        <5> HIDE DEF m
        <5> QED BY <1>1, <4>1, <5>1
      <4> HIDE DEF m, R
      <4> QED BY <4>1, <4>2 DEF History!Wider
    <3>3. ASSUME NEW k \in 0..MaxDecision PROVE W[k] \subseteq R
      <4>1. MaxDecision - k \in Nat /\ MaxDecision - k <= MaxDecision
            /\ MaxDecision - (MaxDecision - k) = k
        BY <1>3
      <4>2. MaxDecision - k \in N
        <5> HIDE DEF N
        <5> QED BY <3>1, <3>2, <4>1, NumberInduction
      <4> HIDE DEF R
      <4> QED BY <4>1, <4>2
    <3> HIDE DEF R
    <3> QED BY <3>3
  <2>3. a \in R
    <3>1. 0 \in 0..MaxDecision
      BY <1>3
    <3> HIDE DEF R
    <3> QED BY <1>1, <2>2, <3>1
  \* An element without a hop less is the anchor or follows its successor.
  <2>4. ASSUME NEW j \in R, hBy[j] # 0
        PROVE  Hops(j) # {} /\ level[j] # 0 /\ hBy[j] \in W[level[j] - 1]
               /\ level[j] - 1 \in 0..MaxDecision
    <3>1. MaxDecision \in Hops(j) /\ j \in c
      BY <1>3, <2>1
    <3> DEFINE k == level[j]
    <3>2. k \in Hops(j) /\ \A h \in Hops(j) : k <= h
      <4> HIDE DEF Hops
      <4> QED BY <1>4, <3>1
    <3> HIDE DEF k
    <3>3. k \in 0..MaxDecision /\ j \in W[k]
      BY <3>2
    <3>4. k # 0
      <4> SUFFICES ASSUME k = 0 PROVE FALSE
        OBVIOUS
      <4>1. j = a
        BY <1>1, <3>3
      <4> QED BY <1>3, <1>7, <2>4, <4>1
    <3>5. k \in 1..MaxDecision /\ k - 1 \in 0..MaxDecision /\ ~ (k <= k - 1)
      BY <1>3, <3>3, <3>4
    <3>6. j \notin W[k - 1]
      BY <3>2, <3>5
    <3>7. hBy[j] \in W[k - 1]
      BY <1>1, <3>3, <3>5, <3>6 DEF History!Wider, History!Preds
    <3> QED BY <3>1, <3>4, <3>5, <3>7 DEF k
  <2>5. History!Grown(R) \subseteq R
    <3>1. History!Preds(R) \subseteq R
      <4>1. History!Preds(R) \subseteq History!Preds(c)
            /\ History!Preds(c) \subseteq History!Grown(c)
        BY <2>1 DEF History!Preds, History!Grown
      <4> QED BY <1>3, <2>1, <4>1
    <3>2. ASSUME NEW j \in R, hBy[j] \in History!Id PROVE hBy[j] \in R
      <4>1. hBy[j] # 0
        BY <1>3, <3>2
      <4>2. hBy[j] \in W[level[j] - 1] /\ level[j] - 1 \in 0..MaxDecision
        BY <2>4, <4>1
      <4> HIDE DEF R
      <4> QED BY <2>2, <4>2
    <3> HIDE DEF R
    <3> QED BY <3>1, <3>2 DEF History!Grown
  <2>6. c \subseteq R
    <3>1. a \in History!Graph /\ History!Component(a) = c
      BY <1>3, ComponentsApart
    <3>2. R \in SUBSET History!Id
      BY <1>3, <2>1
    <3> HIDE DEF R
    <3> QED BY <2>3, <2>5, <3>1, <3>2, ComponentIs
  <2> DEFINE k == level[i]
  <2>7. k # 0 /\ hBy[i] \in W[k - 1] /\ k - 1 \in 0..MaxDecision
    <3> HIDE DEF R, Hops
    <3> QED BY <1>7, <2>4, <2>6
  <2> HIDE DEF R, k
  <2>8. hBy[i] \in c
    BY <1>1, <2>7
  <2>9. k - 1 \in Hops(hBy[i])
    BY <2>7
  <2>10. level[hBy[i]] <= k - 1
    <3> HIDE DEF Hops
    <3> QED BY <1>4, <2>8, <2>9
  <2>11. k \in Nat /\ level[hBy[i]] \in Nat
    BY <1>5, <2>8 DEF k
  <2>12. level[hBy[i]] < k
    BY <2>10, <2>11
  <2> QED BY <2>8, <2>12 DEF k
<1> HIDE DEF level, W, a
<1> QED BY <1>2, <1>6, <1>7

(* The rows of a component that the search did not select, nearest to the anchor first: each *)
(* once, and the successor of a row, where it is one of them, before the row.                *)
LEMMA RowsOf ==
    ASSUME Chronicle, NEW c \in History!Components
    PROVE  /\ History!Newest(c) \in Seq(c \ hSlots)
           /\ \A i \in c \ hSlots : \E a \in 1..Len(History!Newest(c)) :
                 History!Newest(c)[a] = i
           /\ \A a, b \in 1..Len(History!Newest(c)) : a # b =>
                 History!Newest(c)[a] # History!Newest(c)[b]
           /\ History!Terminals(c) # {} =>
                 \A a, b \in 1..Len(History!Newest(c)) :
                    hBy[History!Newest(c)[a]] = History!Newest(c)[b] => b < a
<1> DEFINE level == History!Level(c)
           order == {p \in c \X c : History!Before(level, p[1], p[2])}
           rows == History!InOrder(c \ hSlots, order)
<1>1. History!Newest(c) = rows
  BY Zenon DEF History!Newest
<1>2. /\ level \in [c -> Nat]
      /\ History!Terminals(c) # {} => \A i \in c : hBy[i] # 0 => hBy[i] \in c
            /\ level[hBy[i]] < level[i]
  BY SuccessorNearer
<1>3. c \in SUBSET History!Id /\ hDate \in [History!Id -> Nat] /\ MaxDecision \in Nat
      /\ History!Id = 1..MaxDecision
  BY ComponentsApart DEF Chronicle, History!Id
<1>4. IsFiniteSet(c \ hSlots)
  <2>1. IsFiniteSet(1..MaxDecision)
    BY <1>3, FS_Interval
  <2>2. c \ hSlots \in SUBSET (1..MaxDecision)
    BY <1>3
  <2> QED BY <2>1, <2>2, FS_Subset
<1> HIDE DEF level
<1>5. \A x, y \in c : <<x, y>> \in order <=> History!Before(level, x, y)
  OBVIOUS
<1>6. \A x \in c : x \in Nat /\ hDate[x] \in Nat /\ level[x] \in Nat
  BY <1>2, <1>3
<1>7. Ordered(c \ hSlots, order)
  <2> HIDE DEF order
  <2>1. \A x \in c \ hSlots : <<x, x>> \notin order
    BY <1>5, <1>6 DEF History!Before
  <2>2. \A x, y \in c \ hSlots : x # y => <<x, y>> \in order \/ <<y, x>> \in order
    BY <1>5, <1>6 DEF History!Before
  <2>3. \A x, y, z \in c \ hSlots :
           <<x, y>> \in order /\ <<y, z>> \in order => <<x, z>> \in order
    <3> SUFFICES ASSUME NEW x \in c \ hSlots, NEW y \in c \ hSlots, NEW z \in c \ hSlots,
                        History!Before(level, x, y), History!Before(level, y, z)
                 PROVE  History!Before(level, x, z)
      BY <1>5
    <3> QED BY <1>6 DEF History!Before
  <2> QED BY <2>1, <2>2, <2>3 DEF Ordered
<1>8. Listing(rows, c \ hSlots, order)
  <2> HIDE DEF order
  <2> QED BY <1>4, <1>7, Listed
<1> HIDE DEF rows
<1>9. rows \in Seq(c \ hSlots) /\ \A a \in 1..Len(rows) : rows[a] \in c \ hSlots
  <2>1. rows \in Seq(c \ hSlots)
    BY <1>8 DEF Listing
  <2> QED BY <2>1
<1>10. ASSUME NEW a \in 1..Len(rows), NEW b \in 1..Len(rows), a # b
       PROVE  rows[a] # rows[b]
  <2>1. Len(rows) \in Nat
    BY <1>9
  <2>2. a < b \/ b < a
    BY <1>10, <2>1
  <2> QED BY <1>8, <2>2 DEF Listing
<1>11. ASSUME History!Terminals(c) # {}, NEW a \in 1..Len(rows), NEW b \in 1..Len(rows),
              hBy[rows[a]] = rows[b]
       PROVE  b < a
  <2> DEFINE x == rows[a]
             y == rows[b]
  <2>1. x \in c /\ y \in c /\ hBy[x] = y
    BY <1>9, <1>11
  <2>2. y # 0
    BY <1>3, <2>1
  <2>3. level[y] < level[x]
    <3> HIDE DEF x, y
    <3> QED BY <1>2, <1>11, <2>1, <2>2
  <2>4. ~ History!Before(level, x, y) /\ x # y
    <3> HIDE DEF x, y
    <3> QED BY <1>6, <2>1, <2>3 DEF History!Before
  <2>5. ~ (a < b)
    <3> SUFFICES ASSUME a < b PROVE FALSE
      OBVIOUS
    <3>1. <<x, y>> \in order
      BY <1>8 DEF Listing
    <3> HIDE DEF x, y, order
    <3> QED BY <1>5, <2>1, <2>4, <3>1
  <2>6. a # b
    BY <2>4
  <2>7. Len(rows) \in Nat
    BY <1>9
  <2> QED BY <2>5, <2>6, <2>7
<1> HIDE DEF order
<1>12. \A i \in c \ hSlots : \E a \in 1..Len(rows) : rows[a] = i
  BY <1>8 DEF Listing
<1> QED BY <1>1, <1>9, <1>10, <1>11, <1>12

(* What a question can be shown. *)
Worth == {c \in History!Components : History!Relevant(c)}

(* The components that are relevant, each once. *)
LEMMA RankedOnce ==
    ASSUME Chronicle
    PROVE  /\ History!Ranked \in Seq(Worth)
           /\ \A c \in Worth : \E m \in 1..Len(History!Ranked) : History!Ranked[m] = c
           /\ \A a, b \in 1..Len(History!Ranked) : a # b =>
                 History!Ranked[a] # History!Ranked[b]
<1> DEFINE order == {p \in Worth \X Worth : History!Higher(p[1], p[2])}
           q == History!InOrder(Worth, order)
<1>1. History!Ranked = q
  BY Zenon DEF History!Ranked, Worth
<1>2. MaxDecision \in Nat /\ History!Id = 1..MaxDecision /\ hDate \in [History!Id -> Nat]
  BY DEF Chronicle, History!Id
<1>3. IsFiniteSet(Worth)
  <2>1. IsFiniteSet(1..MaxDecision)
    BY <1>2, FS_Interval
  <2>2. IsFiniteSet(History!Graph)
    <3>1. History!Graph \in SUBSET (1..MaxDecision)
      BY <1>2 DEF History!Graph
    <3> QED BY <2>1, <3>1, FS_Subset
  <2> DEFINE f == [i \in History!Graph |-> History!Component(i)]
  <2>3. f \in Surjection(History!Graph, History!Components)
    BY DEF Surjection, History!Components
  <2>4. IsFiniteSet(History!Components)
    <3> HIDE DEF f
    <3> QED BY <2>2, <2>3, FS_Surjection
  <2> QED BY <2>4, FS_Subset DEF Worth
<1>4. \A c \in History!Components : History!Relevance(c) \in Nat
  <2> SUFFICES ASSUME NEW c \in History!Components PROVE History!Relevance(c) \in Nat
    OBVIOUS
  <2> DEFINE T == {token \in hAbout : token \cap c # {}}
  <2>1. IsFiniteSet(hAbout) /\ T \in SUBSET hAbout
    BY DEF Chronicle
  <2>2. IsFiniteSet(T)
    <3> HIDE DEF T
    <3> QED BY <2>1, FS_Subset
  <2>3. Cardinality(T) \in Nat
    <3> HIDE DEF T
    <3> QED BY <2>2, FS_CardinalityType
  <2> QED BY <2>3, HistoryCardinality DEF History!Relevance
<1>5. ASSUME NEW c \in History!Components PROVE History!Latest(c) \in Nat
  <2> DEFINE S == {hDate[i] : i \in c}
  <2>1. c # {} /\ c \in SUBSET History!Id
    BY ComponentsApart
  <2>2. S # {} /\ S \in SUBSET Nat
    BY <1>2, <2>1
  <2>3. \E m \in S : \A x \in S : x <= m
    <3>1. IsFiniteSet(c)
      <4>1. IsFiniteSet(1..MaxDecision) /\ c \in SUBSET (1..MaxDecision)
        BY <1>2, <2>1, FS_Interval
      <4> QED BY <4>1, FS_Subset
    <3> DEFINE f == [i \in c |-> hDate[i]]
    <3>2. f \in Surjection(c, S)
      BY DEF Surjection
    <3>3. IsFiniteSet(S)
      <4> HIDE DEF f, S
      <4> QED BY <3>1, <3>2, FS_Surjection
    <3> DEFINE less == {p \in S \X S : p[1] > p[2]}
    <3>4. \A x, y \in S : <<x, y>> \in less <=> x > y
      OBVIOUS
    <3>5. Ordered(S, less)
      <4> HIDE DEF S, less
      <4> QED BY <2>2, <3>4 DEF Ordered
    <3>6. History!First(S, less) \in S
          /\ \A y \in S \ {History!First(S, less)} : <<History!First(S, less), y>> \in less
      <4> HIDE DEF S, less
      <4> QED BY <2>2, <3>3, <3>5, FirstExists
    <3> DEFINE m == History!First(S, less)
    <3>7. m \in S /\ \A y \in S \ {m} : m > y
      <4> HIDE DEF S, less
      <4> QED BY <3>4, <3>6
    <3> HIDE DEF m, S, less
    <3>8. \A x \in S : x <= m
      <4> SUFFICES ASSUME NEW x \in S PROVE x <= m
        OBVIOUS
      <4>1. CASE x = m
        BY <2>2, <3>7, <4>1
      <4>2. CASE x # m
        BY <2>2, <3>7, <4>2
      <4> QED BY <4>1, <4>2
    <3> QED BY <3>7, <3>8
  <2>4. History!MaxOf(S) \in S
    <3> HIDE DEF S
    <3> QED BY <2>3 DEF History!MaxOf
  <2> QED BY <2>2, <2>4 DEF History!Latest
<1>6. \A c, d \in History!Components :
         History!Anchor(c) \in Nat /\ History!Anchor(d) \in Nat
         /\ (c # d => History!Anchor(c) # History!Anchor(d))
  <2> SUFFICES ASSUME NEW c \in History!Components, NEW d \in History!Components
               PROVE  History!Anchor(c) \in Nat /\ History!Anchor(d) \in Nat
                      /\ (c # d => History!Anchor(c) # History!Anchor(d))
    OBVIOUS
  <2>1. History!Anchor(c) \in c /\ History!Anchor(d) \in d
    BY AnchorIs
  <2>2. c \in SUBSET History!Id /\ d \in SUBSET History!Id /\ (c # d => c \cap d = {})
    BY ComponentsApart
  <2>3. History!Anchor(c) \in History!Id /\ History!Anchor(d) \in History!Id
    BY <2>1, <2>2
  <2>4. \A x \in History!Id : x \in Nat
    BY <1>2
  <2>5. c # d => History!Anchor(c) # History!Anchor(d)
    <3> SUFFICES ASSUME c # d, History!Anchor(c) = History!Anchor(d) PROVE FALSE
      OBVIOUS
    <3>1. History!Anchor(c) \in c \cap d
      BY <2>1
    <3> QED BY <2>2, <3>1
  <2> QED BY <2>3, <2>4, <2>5
<1>7. \A c \in Worth : /\ c \in History!Components /\ History!Relevance(c) \in Nat
                       /\ History!Latest(c) \in Nat
                       /\ History!Anchor(c) \in Nat
  BY <1>4, <1>5, <1>6 DEF Worth
<1>8. \A x, y \in Worth : <<x, y>> \in order <=> History!Higher(x, y)
  OBVIOUS
<1>9. Ordered(Worth, order)
  <2> HIDE DEF order
  <2>1. \A x \in Worth : <<x, x>> \notin order
    BY <1>7, <1>8 DEF History!Higher
  <2>2. ASSUME NEW x \in Worth, NEW y \in Worth, x # y
        PROVE  <<x, y>> \in order \/ <<y, x>> \in order
    <3>1. History!Anchor(x) # History!Anchor(y)
      BY <1>6, <1>7, <2>2
    <3>2. History!Higher(x, y) \/ History!Higher(y, x)
      BY <1>7, <3>1 DEF History!Higher, Chronicle
    <3> QED BY <1>8, <3>2
  <2>3. \A x, y, z \in Worth :
           <<x, y>> \in order /\ <<y, z>> \in order => <<x, z>> \in order
    <3> SUFFICES ASSUME NEW x \in Worth, NEW y \in Worth, NEW z \in Worth,
                        History!Higher(x, y), History!Higher(y, z)
                 PROVE  History!Higher(x, z)
      BY <1>8
    <3> QED BY <1>7 DEF History!Higher
  <2> QED BY <2>1, <2>2, <2>3 DEF Ordered
<1>10. Listing(q, Worth, order)
  <2> HIDE DEF order
  <2> QED BY <1>3, <1>9, Listed
<1> HIDE DEF q, order
<1>11. q \in Seq(Worth) /\ Len(q) \in Nat
  BY <1>10 DEF Listing
<1>12. ASSUME NEW a \in 1..Len(q), NEW b \in 1..Len(q), a # b PROVE q[a] # q[b]
  <2>1. a < b \/ b < a
    BY <1>11, <1>12
  <2> QED BY <1>10, <2>1 DEF Listing
<1>13. \A c \in Worth : \E m \in 1..Len(q) : q[m] = c
  BY <1>10 DEF Listing
<1> QED BY <1>1, <1>11, <1>12, <1>13

(* What the history says after k components: no more rows than allowed, each once and of one *)
(* of these components; the successor of a row, in a component that has an end, is selected   *)
(* or follows; and an omission is reported when one of the components is not all shown.        *)
Account(s, k) ==
    /\ s.chain \in Seq(History!Id) /\ Len(s.chain) <= Hard
    /\ \A a, b \in 1..Len(s.chain) : a # b => s.chain[a] # s.chain[b]
    /\ \A a \in 1..Len(s.chain) :
          /\ s.chain[a] \notin hSlots
          /\ \E m \in 1..k : s.chain[a] \in History!Ranked[m]
          /\ History!Terminals(History!Component(s.chain[a])) # {} /\ hBy[s.chain[a]] # 0 =>
                \/ hBy[s.chain[a]] \in hSlots
                \/ \E b \in 1..Len(s.chain) : b > a /\ s.chain[b] = hBy[s.chain[a]]
    /\ s.truncated <=> \E m \in 1..k, i \in History!Id :
                          /\ i \in History!Ranked[m] /\ i \notin hSlots
                          /\ \A a \in 1..Len(s.chain) : s.chain[a] # i

(* The rows that are taken of a component are its first ones, added in reverse. *)
LEMMA Taken ==
    ASSUME Chronicle, NEW s, NEW k \in 1..Len(History!Ranked), Account(s, k - 1),
           k = 1 => s.chain = <<>>
    PROVE  \E t \in 0..Len(History!Newest(History!Ranked[k])) :
              /\ Len(s.chain) + t <= Hard
              /\ History!AddComponent(s, k).truncated =
                    (s.truncated \/ t < Len(History!Newest(History!Ranked[k])))
              /\ History!AddComponent(s, k).chain \in Seq(History!Id)
              /\ Len(History!AddComponent(s, k).chain) = Len(s.chain) + t
              /\ \A a \in 1..Len(s.chain) : History!AddComponent(s, k).chain[a] = s.chain[a]
              /\ \A a \in 1..t :
                    History!AddComponent(s, k).chain[Len(s.chain) + t + 1 - a] =
                       History!Newest(History!Ranked[k])[a]
<1> DEFINE rows == History!Newest(History!Ranked[k])
           taken == IF k = 1 THEN History!Take(rows, Hard)
                         ELSE IF Len(s.chain) + Len(rows) > Soft THEN <<>> ELSE rows
<1>1. History!AddComponent(s, k) = [chain |-> s.chain \o History!Reverse(taken),
                            truncated |-> s.truncated \/ Len(taken) < Len(rows)]
  BY Zenon DEF History!AddComponent
<1>2. rows \in Seq(History!Id) /\ s.chain \in Seq(History!Id) /\ Len(s.chain) <= Hard
  <2>1. History!Ranked[k] \in History!Components
    <3>1. History!Ranked \in Seq(Worth)
      BY RankedOnce
    <3>2. History!Ranked[k] \in Worth
      BY <3>1
    <3> QED BY <3>2 DEF Worth
  <2>2. rows \in Seq(History!Ranked[k] \ hSlots) /\ History!Ranked[k] \in SUBSET History!Id
    BY <2>1, RowsOf, ComponentsApart
  <2> HIDE DEF rows
  <2> QED BY <2>2 DEF Account
<1> HIDE DEF rows
<1>3. Soft \in Nat /\ Hard \in Nat /\ Soft <= Hard
  BY DEF Chronicle
<1>4. Len(rows) \in Nat /\ Len(s.chain) \in Nat
  BY <1>2
<1>5. PICK t \in 0..Len(rows) : /\ Len(s.chain) + t <= Hard
                                /\ taken \in Seq(History!Id) /\ Len(taken) = t
                                /\ \A a \in 1..t : taken[a] = rows[a]
  <2>1. CASE k = 1
    <3> DEFINE t == IF Hard < Len(rows) THEN Hard ELSE Len(rows)
    <3>1. taken = SubSeq(rows, 1, t) /\ t \in 0..Len(rows) /\ t <= Hard
      BY <1>3, <1>4, <2>1 DEF History!Take
    <3>2. Len(s.chain) = 0
      BY <2>1
    <3> HIDE DEF t, taken
    <3>3. taken \in Seq(History!Id) /\ Len(taken) = t /\ \A a \in 1..t : taken[a] = rows[a]
      BY <1>2, <1>4, <3>1
    <3>4. Len(s.chain) + t <= Hard
      BY <3>1, <3>2
    <3> QED BY <3>1, <3>3, <3>4
  <2>2. CASE k # 1 /\ Len(s.chain) + Len(rows) > Soft
    <3>1. taken = <<>>
      BY <2>2
    <3>2. Len(s.chain) + 0 <= Hard /\ 0 \in 0..Len(rows)
      BY <1>2, <1>4
    <3> HIDE DEF taken
    <3> QED BY <3>1, <3>2
  <2>3. CASE k # 1 /\ ~ (Len(s.chain) + Len(rows) > Soft)
    <3>1. taken = rows
      BY <2>3
    <3> DEFINE n == Len(s.chain)
               r == Len(rows)
    <3>2. n \in Nat /\ r \in Nat /\ ~ (n + r > Soft)
      BY <1>4, <2>3
    <3>3. n + r <= Hard /\ r \in 0..r
      <4> HIDE DEF n, r
      <4> QED BY <1>3, <3>2
    <3> HIDE DEF taken
    <3> QED BY <1>2, <3>1, <3>3
  <2> QED BY <2>1, <2>2, <2>3
<1> HIDE DEF taken
<1> DEFINE back == History!Reverse(taken)
           whole == s.chain \o back
           n == Len(s.chain)
<1>6. back \in Seq(History!Id) /\ Len(back) = t /\ \A a \in 1..t : back[a] = taken[t - a + 1]
  <2>1. back = [a \in 1..t |-> taken[(t - a) + 1]]
    BY <1>5 DEF History!Reverse
  <2>2. \A a \in 1..t : taken[(t - a) + 1] \in History!Id
    BY <1>4, <1>5
  <2> HIDE DEF back
  <2> QED BY <1>4, <1>5, <2>1, <2>2
<1>7. /\ whole \in Seq(History!Id) /\ Len(whole) = n + t
      /\ \A a \in 1..n : whole[a] = s.chain[a]
      /\ \A a \in 1..t : whole[n + a] = back[a]
  <2> HIDE DEF back
  <2>1. /\ s.chain \in Seq(History!Id) /\ back \in Seq(History!Id) /\ Len(back) = t
        /\ Len(s.chain) \in Nat /\ t \in Nat
    BY <1>2, <1>4, <1>5, <1>6
  <2>2. /\ s.chain \o back \in Seq(History!Id)
        /\ Len(s.chain \o back) = Len(s.chain) + Len(back)
        /\ \A a \in 1..Len(s.chain) + Len(back) :
              (s.chain \o back)[a] = IF a <= Len(s.chain) THEN s.chain[a]
                                    ELSE back[a - Len(s.chain)]
    <3> DEFINE x == s.chain
    <3> HIDE DEF x, back
    <3>1. x \in Seq(History!Id) /\ back \in Seq(History!Id)
      BY <2>1 DEF x
    <3>2. /\ x \o back \in Seq(History!Id) /\ Len(x \o back) = Len(x) + Len(back)
          /\ \A a \in 1..Len(x) + Len(back) :
                (x \o back)[a] = IF a <= Len(x) THEN x[a] ELSE back[a - Len(x)]
      BY <3>1, ConcatProperties
    <3> QED BY <3>2 DEF x
  <2> HIDE DEF n, whole
  <2>3. n \in Nat /\ t \in Nat /\ whole \in Seq(History!Id) /\ Len(whole) = n + t
        /\ \A a \in 1..n + t : whole[a] = IF a <= n THEN s.chain[a] ELSE back[a - n]
    BY <2>1, <2>2 DEF n, whole
  <2>4. ASSUME NEW a \in 1..n PROVE whole[a] = s.chain[a]
    <3>1. a \in 1..n + t /\ a <= n
      BY <2>3
    <3> QED BY <2>3, <3>1
  <2>5. ASSUME NEW a \in 1..t PROVE whole[n + a] = back[a]
    <3>1. n + a \in 1..n + t /\ ~ (n + a <= n) /\ (n + a) - n = a
      BY <2>3
    <3> QED BY <2>3, <3>1
  <2> QED BY <2>3, <2>4, <2>5
<1>8. ASSUME NEW a \in 1..t PROVE whole[n + t + 1 - a] = rows[a]
  <2> DEFINE b == t + 1 - a
  <2>1. b \in 1..t /\ n + b = n + t + 1 - a /\ t - b + 1 = a
    <3>1. n \in Nat /\ t \in Nat
      BY <1>4
    <3> HIDE DEF n
    <3> QED BY <3>1
  <2> HIDE DEF b, whole, back
  <2>2. whole[n + b] = back[b] /\ back[b] = taken[a]
    BY <1>6, <1>7, <2>1
  <2> QED BY <1>5, <2>1, <2>2
<1> HIDE DEF back, whole
<1>9. History!AddComponent(s, k).chain = whole
      /\ History!AddComponent(s, k).truncated = (s.truncated \/ t < Len(rows))
  BY <1>1, <1>5 DEF whole, back
<1> QED BY <1>5, <1>7, <1>8, <1>9 DEF rows

(* One component more. *)
LEMMA AccountGoesOn ==
    ASSUME Chronicle, NEW s, NEW k \in 1..Len(History!Ranked), Account(s, k - 1),
           k = 1 => s.chain = <<>>, History!AddComponent(s, k).truncated \in BOOLEAN
    PROVE  Account(History!AddComponent(s, k), k)
<1> DEFINE rows == History!Newest(History!Ranked[k])
           c == History!Ranked[k]
           n == Len(s.chain)
           old == s.chain
           s1 == History!AddComponent(s, k)
           new == s1.chain
<1>0. History!Ranked \in Seq(Worth)
  BY RankedOnce
<1>1. c \in Worth /\ c \in History!Components
  <2>1. c \in Worth
    BY <1>0
  <2> QED BY <2>1 DEF Worth
<1>2. PICK t \in 0..Len(rows) :
         /\ n + t <= Hard
         /\ s1.truncated = (s.truncated \/ t < Len(rows))
         /\ new \in Seq(History!Id) /\ Len(new) = n + t
         /\ \A a \in 1..n : new[a] = old[a]
         /\ \A a \in 1..t : new[n + t + 1 - a] = rows[a]
  BY Taken
<1> HIDE DEF s1
<1>3. c # {} /\ c \in SUBSET History!Id /\ \A j \in c : History!Component(j) = c
  BY <1>1, ComponentsApart
<1>4. /\ rows \in Seq(c \ hSlots)
      /\ \A i \in c \ hSlots : \E a \in 1..Len(rows) : rows[a] = i
      /\ \A a, b \in 1..Len(rows) : a # b => rows[a] # rows[b]
      /\ History!Terminals(c) # {} =>
            \A a, b \in 1..Len(rows) : hBy[rows[a]] = rows[b] => b < a
  <2> HIDE DEF c
  <2> QED BY <1>1, RowsOf DEF c
<1>5. History!Terminals(c) # {} => \A i \in c : hBy[i] # 0 => hBy[i] \in c
  <2> HIDE DEF c
  <2> QED BY <1>1, SuccessorNearer
<1>6. \A m \in 1..k - 1 : History!Ranked[m] \in History!Components
      /\ History!Ranked[m] \cap c = {}
  <2> SUFFICES ASSUME NEW m \in 1..k - 1
               PROVE  History!Ranked[m] \in History!Components /\ History!Ranked[m] \cap c = {}
    OBVIOUS
  <2>1. m \in 1..Len(History!Ranked) /\ k \in 1..Len(History!Ranked) /\ m # k
    BY <1>0
  <2>2. History!Ranked[m] # c
    BY <2>1, RankedOnce
  <2>3. History!Ranked[m] \in History!Components
    <3>1. History!Ranked[m] \in Worth
      BY <1>0, <2>1
    <3> QED BY <3>1 DEF Worth
  <2> HIDE DEF c
  <2> QED BY <1>1, <2>2, <2>3, ComponentsApart
<1>7. /\ old \in Seq(History!Id) /\ n <= Hard
      /\ \A a, b \in 1..n : a # b => old[a] # old[b]
      /\ \A a \in 1..n :
            /\ old[a] \notin hSlots
            /\ \E m \in 1..k - 1 : old[a] \in History!Ranked[m]
            /\ History!Terminals(History!Component(old[a])) # {} /\ hBy[old[a]] # 0 =>
                  \/ hBy[old[a]] \in hSlots
                  \/ \E b \in 1..n : b > a /\ old[b] = hBy[old[a]]
      /\ s.truncated <=> \E m \in 1..k - 1, i \in History!Id :
                            /\ i \in History!Ranked[m] /\ i \notin hSlots
                            /\ \A a \in 1..n : old[a] # i
  BY Zenon DEF Account
<1> HIDE DEF rows, c, n, old, new
<1>8. n \in Nat /\ t \in Nat /\ Len(rows) \in Nat /\ k \in Nat
  <2>1. n \in Nat
    BY <1>7 DEF n
  <2> QED BY <1>0, <1>4, <2>1
(* Where the rows of the component are, from behind. *)
<1> DEFINE Place(a) == n + t + 1 - a
<1>9. \A a \in 1..t : Place(a) \in 1..n + t /\ Place(a) > n /\ new[Place(a)] = rows[a]
                      /\ a \in 1..Len(rows) /\ rows[a] \in c \ hSlots
  <2> SUFFICES ASSUME NEW a \in 1..t
               PROVE  /\ Place(a) \in 1..n + t /\ Place(a) > n /\ new[Place(a)] = rows[a]
                      /\ a \in 1..Len(rows) /\ rows[a] \in c \ hSlots
    OBVIOUS
  <2>1. Place(a) \in 1..n + t /\ Place(a) > n /\ a \in 1..Len(rows)
    BY <1>2, <1>8
  <2>2. rows[a] \in c \ hSlots
    BY <1>4, <2>1
  <2> QED BY <1>2, <2>1, <2>2
<1>10. ASSUME NEW x \in 1..n + t
       PROVE  \/ x \in 1..n /\ new[x] = old[x]
              \/ \E a \in 1..t : x = Place(a) /\ new[x] = rows[a]
  <2>1. CASE x <= n
    <3>1. x \in 1..n
      BY <1>8, <2>1
    <3> QED BY <1>2, <3>1
  <2>2. CASE x > n
    <3>1. Place(x - n) \in 1..n + t /\ n + t + 1 - x \in 1..t /\ Place(n + t + 1 - x) = x
      BY <1>8, <2>2
    <3> HIDE DEF Place
    <3> QED BY <1>9, <3>1
  <2> QED BY <1>8, <2>1, <2>2
<1>11. \A a \in 1..n : old[a] \notin c
  BY <1>6, <1>7
<1>12. ASSUME NEW x \in 1..n + t, NEW y \in 1..n + t, x # y
       PROVE  new[x] # new[y]
  <2> SUFFICES ASSUME new[x] = new[y] PROVE FALSE
    OBVIOUS
  <2>1. CASE x \in 1..n /\ new[x] = old[x] /\ y \in 1..n /\ new[y] = old[y]
    BY <1>7, <1>12, <2>1
  <2>2. CASE x \in 1..n /\ new[x] = old[x] /\ \E a \in 1..t : y = Place(a) /\ new[y] = rows[a]
    BY <1>9, <1>11, <2>2
  <2>3. CASE y \in 1..n /\ new[y] = old[y] /\ \E a \in 1..t : x = Place(a) /\ new[x] = rows[a]
    BY <1>9, <1>11, <2>3
  <2>4. CASE /\ \E a \in 1..t : x = Place(a) /\ new[x] = rows[a]
             /\ \E a \in 1..t : y = Place(a) /\ new[y] = rows[a]
    <3>1. PICK a \in 1..t : x = Place(a) /\ new[x] = rows[a]
      BY <2>4
    <3>2. PICK b \in 1..t : y = Place(b) /\ new[y] = rows[b]
      BY <2>4
    <3>3. a # b /\ a \in 1..Len(rows) /\ b \in 1..Len(rows)
      BY <1>9, <1>12, <3>1, <3>2
    <3>4. rows[a] # rows[b]
      BY <1>4, <3>3
    <3> QED BY <3>1, <3>2, <3>4
  <2> QED BY <1>10, <2>1, <2>2, <2>3, <2>4
<1>13. ASSUME NEW x \in 1..n + t
       PROVE  /\ new[x] \notin hSlots
              /\ \E m \in 1..k : new[x] \in History!Ranked[m]
              /\ History!Terminals(History!Component(new[x])) # {} /\ hBy[new[x]] # 0 =>
                    \/ hBy[new[x]] \in hSlots
                    \/ \E b \in 1..n + t : b > x /\ new[b] = hBy[new[x]]
  <2>1. CASE x \in 1..n /\ new[x] = old[x]
    <3>1. /\ old[x] \notin hSlots
          /\ \E m \in 1..k - 1 : old[x] \in History!Ranked[m]
      BY <1>7, <2>1
    <3>2. \E m \in 1..k : old[x] \in History!Ranked[m]
      <4>1. 1..k - 1 \subseteq 1..k
        BY <1>8
      <4> QED BY <3>1, <4>1
    <3>3. ASSUME History!Terminals(History!Component(old[x])) # {}, hBy[old[x]] # 0,
                 hBy[old[x]] \notin hSlots
          PROVE  \E b \in 1..n + t : b > x /\ new[b] = hBy[old[x]]
      <4>1. PICK b \in 1..n : b > x /\ old[b] = hBy[old[x]]
        BY <1>7, <2>1, <3>3
      <4>2. b \in 1..n + t /\ new[b] = old[b]
        BY <1>2, <1>8, <4>1
      <4> QED BY <4>1, <4>2
    <3> QED BY <2>1, <3>1, <3>2, <3>3
  <2>2. CASE \E a \in 1..t : x = Place(a) /\ new[x] = rows[a]
    <3>1. PICK a \in 1..t : x = Place(a) /\ new[x] = rows[a]
      BY <2>2
    <3> DEFINE i == rows[a]
    <3>2. i \in c /\ i \notin hSlots /\ a \in 1..Len(rows)
      BY <1>9
    <3>3. k \in 1..k /\ i \in History!Ranked[k]
      BY <1>8, <3>2 DEF c
    <3>4. ASSUME History!Terminals(History!Component(i)) # {}, hBy[i] # 0, hBy[i] \notin hSlots
          PROVE  \E b \in 1..n + t : b > x /\ new[b] = hBy[i]
      <4>1. History!Terminals(c) # {} /\ hBy[i] \in c \ hSlots
        <5> HIDE DEF i
        <5>1. History!Component(i) = c
          BY <1>3, <3>2
        <5> QED BY <1>5, <3>2, <3>4, <5>1
      <4>2. PICK b \in 1..Len(rows) : rows[b] = hBy[i]
        <5> HIDE DEF i
        <5> QED BY <1>4, <4>1
      <4>3. b < a
        BY <1>4, <3>2, <4>1, <4>2
      <4>4. b \in 1..t /\ Place(b) > Place(a)
        BY <1>8, <4>2, <4>3
      <4>5. Place(b) \in 1..n + t /\ new[Place(b)] = rows[b]
        <5> HIDE DEF Place
        <5> QED BY <1>9, <4>4
      <4> HIDE DEF Place, i
      <4> QED BY <3>1, <4>2, <4>4, <4>5
    <3> QED BY <3>1, <3>2, <3>3, <3>4
  <2> HIDE DEF Place
  <2> QED BY <1>10, <2>1, <2>2
<1>14. s1.truncated <=> \E m \in 1..k, i \in History!Id : /\ i \in History!Ranked[m]
                                                          /\ i \notin hSlots
                                                          /\ \A x \in 1..n + t : new[x] # i
  <2>1. ASSUME s.truncated
        PROVE  \E m \in 1..k, i \in History!Id : /\ i \in History!Ranked[m] /\ i \notin hSlots
                                                 /\ \A x \in 1..n + t : new[x] # i
    <3>1. \E m \in 1..k - 1 : \E i \in History!Id : /\ i \in History!Ranked[m]
                                                    /\ i \notin hSlots
                                                    /\ \A a \in 1..n : old[a] # i
      BY <1>7, <2>1
    <3>2. PICK m \in 1..k - 1 : \E i \in History!Id : /\ i \in History!Ranked[m]
                                                      /\ i \notin hSlots
                                                      /\ \A a \in 1..n : old[a] # i
      BY <3>1
    <3>3. PICK i \in History!Id : i \in History!Ranked[m] /\ i \notin hSlots
               /\ \A a \in 1..n : old[a] # i
      BY <3>2
    <3>4. i \notin c /\ m \in 1..k
      BY <1>6, <1>8, <3>3
    <3>5. ASSUME NEW x \in 1..n + t PROVE new[x] # i
      <4>1. CASE x \in 1..n /\ new[x] = old[x]
        BY <3>3, <4>1
      <4>2. CASE \E a \in 1..t : x = Place(a) /\ new[x] = rows[a]
        BY <1>9, <3>4, <4>2
      <4> HIDE DEF Place
      <4> QED BY <1>10, <4>1, <4>2
    <3> QED BY <3>3, <3>4, <3>5
  <2>2. ASSUME t < Len(rows)
        PROVE  \E m \in 1..k, i \in History!Id : /\ i \in History!Ranked[m] /\ i \notin hSlots
                                                 /\ \A x \in 1..n + t : new[x] # i
    <3> DEFINE i == rows[t + 1]
    <3>1. t + 1 \in 1..Len(rows) /\ \A a \in 1..t : a # t + 1 /\ a \in 1..Len(rows)
      BY <1>8, <2>2
    <3>2. i \in c /\ i \notin hSlots /\ \A a \in 1..t : rows[a] # i
      BY <1>4, <3>1
    <3>3. k \in 1..k /\ i \in History!Ranked[k] /\ i \in History!Id
      BY <1>3, <1>8, <3>2 DEF c
    <3> HIDE DEF i
    <3>4. ASSUME NEW x \in 1..n + t PROVE new[x] # i
      <4> HIDE DEF Place
      <4>1. CASE x \in 1..n /\ new[x] = old[x]
        BY <1>11, <3>2, <4>1
      <4>2. CASE \E a \in 1..t : x = Place(a) /\ new[x] = rows[a]
        BY <3>2, <4>2
      <4> QED BY <1>10, <4>1, <4>2
    <3> QED BY <3>2, <3>3, <3>4
  <2>3. ASSUME NEW m \in 1..k, NEW i \in History!Id, i \in History!Ranked[m], i \notin hSlots,
               \A x \in 1..n + t : new[x] # i
        PROVE  s.truncated \/ t < Len(rows)
    <3>1. CASE m = k
      <4> SUFFICES ASSUME ~ (t < Len(rows)) PROVE FALSE
        OBVIOUS
      <4>1. t = Len(rows)
        BY <1>2, <1>8
      <4>2. PICK a \in 1..Len(rows) : rows[a] = i
        <5>1. i \in c \ hSlots
          BY <2>3, <3>1 DEF c
        <5> QED BY <1>4, <5>1
      <4>3. a \in 1..t
        BY <4>1
      <4>4. Place(a) \in 1..n + t /\ new[Place(a)] = rows[a]
        <5> HIDE DEF Place
        <5> QED BY <1>9, <4>3
      <4> HIDE DEF Place
      <4> QED BY <2>3, <4>2, <4>4
    <3>2. CASE m # k
      <4>1. m \in 1..k - 1
        BY <1>8, <3>2
      <4>2. \A a \in 1..n : a \in 1..n + t /\ new[a] = old[a]
        BY <1>2, <1>8
      <4>3. \A a \in 1..n : old[a] # i
        BY <2>3, <4>2
      <4> QED BY <1>7, <2>3, <4>1, <4>3
    <3> QED BY <3>1, <3>2
  <2>4. s1.truncated = (s.truncated \/ t < Len(rows)) /\ s1.truncated \in BOOLEAN
    BY <1>2 DEF s1
  <2>5. s1.truncated <=> (s.truncated \/ t < Len(rows))
    BY <2>4
  <2> HIDE DEF Place
  <2> QED BY <2>1, <2>2, <2>3, <2>5
<1>15. new \in Seq(History!Id) /\ Len(new) = n + t /\ n + t <= Hard
  BY <1>2
<1> HIDE DEF Place
<1>16. /\ new \in Seq(History!Id) /\ Len(new) <= Hard
       /\ \A a, b \in 1..Len(new) : a # b => new[a] # new[b]
       /\ \A a \in 1..Len(new) :
             /\ new[a] \notin hSlots
             /\ \E m \in 1..k : new[a] \in History!Ranked[m]
             /\ History!Terminals(History!Component(new[a])) # {} /\ hBy[new[a]] # 0 =>
                   \/ hBy[new[a]] \in hSlots
                   \/ \E b \in 1..Len(new) : b > a /\ new[b] = hBy[new[a]]
       /\ s1.truncated <=> \E m \in 1..k, i \in History!Id :
                             /\ i \in History!Ranked[m] /\ i \notin hSlots
                             /\ \A a \in 1..Len(new) : new[a] # i
  BY <1>12, <1>13, <1>14, <1>15
<1>17. Account(s1, k)
  BY <1>16, Zenon DEF Account, new
<1> QED BY <1>17 DEF s1

(* After all components. *)
LEMMA SectionsAccount ==
    ASSUME Chronicle
    PROVE  Account(History!Sections, Len(History!Ranked))
           /\ History!Sections.truncated \in BOOLEAN
<1> DEFINE n == Len(History!Ranked)
           V == [chain : Seq(History!Id), truncated : BOOLEAN]
           empty == [chain |-> <<>>, truncated |-> FALSE]
           Eq(f) ==
              f = [k \in 0..n |-> IF k = 0 THEN empty ELSE History!AddComponent(f[k - 1], k)]
           step == [p \in (1..n) \X V |-> History!AddComponent(p[2], p[1])]
<1>1. n \in Nat /\ History!Ranked \in Seq(Worth)
  BY RankedOnce
<1>2. ASSUME NEW s \in V, NEW k \in 1..n PROVE History!AddComponent(s, k) \in V
  <2> DEFINE rows == History!Newest(History!Ranked[k])
             taken == IF k = 1 THEN History!Take(rows, Hard)
                      ELSE IF Len(s.chain) + Len(rows) > Soft THEN <<>> ELSE rows
             back == History!Reverse(taken)
  <2>1. History!AddComponent(s, k) = [chain |-> s.chain \o back,
                              truncated |-> s.truncated \/ Len(taken) < Len(rows)]
    BY Zenon DEF History!AddComponent
  <2>2. rows \in Seq(History!Id) /\ Hard \in Nat
    <3>1. History!Ranked[k] \in Worth
      BY <1>1
    <3>2. History!Ranked[k] \in History!Components
      BY <3>1 DEF Worth
    <3>3. rows \in Seq(History!Ranked[k] \ hSlots) /\ History!Ranked[k] \in SUBSET History!Id
      BY <3>2, RowsOf, ComponentsApart
    <3> HIDE DEF rows
    <3> QED BY <3>3 DEF Chronicle
  <2>3. taken \in Seq(History!Id)
    <3> HIDE DEF rows
    <3>1. History!Take(rows, Hard) \in Seq(History!Id)
      <4> DEFINE t == IF Hard < Len(rows) THEN Hard ELSE Len(rows)
      <4>1. History!Take(rows, Hard) = SubSeq(rows, 1, t) /\ t \in 0..Len(rows)
            /\ Len(rows) \in Nat
        BY <2>2 DEF History!Take
      <4> HIDE DEF t
      <4> QED BY <2>2, <4>1
    <3>2. <<>> \in Seq(History!Id)
      OBVIOUS
    <3> QED BY <2>2, <3>1, <3>2
  <2> HIDE DEF taken, rows
  <2>4. back \in Seq(History!Id)
    <3> DEFINE t == Len(taken)
    <3>1. t \in Nat /\ back = [a \in 1..t |-> taken[(t - a) + 1]]
      BY <2>3 DEF History!Reverse
    <3>2. \A a \in 1..t : taken[(t - a) + 1] \in History!Id
      BY <2>3
    <3> HIDE DEF t, back
    <3> QED BY <3>1, <3>2
  <2> HIDE DEF back
  <2>5. s.chain \in Seq(History!Id) /\ s.truncated \in BOOLEAN
    OBVIOUS
  <2>6. s.chain \o back \in Seq(History!Id)
    <3> DEFINE x == s.chain
    <3> HIDE DEF x
    <3>1. x \in Seq(History!Id)
      BY <2>5 DEF x
    <3>2. x \o back \in Seq(History!Id)
      BY <2>4, <3>1, ConcatProperties
    <3> QED BY <3>2 DEF x
  <2> QED BY <2>1, <2>5, <2>6
<1>3. step \in [(1..n) \X V -> V]
  <2> HIDE DEF V, n
  <2> QED BY <1>2
<1>4. PICK f \in [0..n -> V] : GoesOn(f, n, empty, step)
  <2>1. empty \in V
    OBVIOUS
  <2> HIDE DEF n, step, V, empty
  <2> QED BY <1>1, <1>3, <2>1, Recursion
<1>5. Eq(f)
  <2> HIDE DEF V, empty
  <2>1. ASSUME NEW k \in 0..n
        PROVE  f[k] = IF k = 0 THEN empty ELSE History!AddComponent(f[k - 1], k)
    <3>1. f[k] = IF k = 0 THEN empty ELSE step[<<k, f[k - 1]>>]
      BY <1>4 DEF GoesOn
    <3>2. CASE k = 0
      BY <3>1, <3>2
    <3>3. CASE k # 0
      <4>1. k \in 1..n /\ k - 1 \in 0..n
        BY <1>1, <3>3
      <4>2. f[k - 1] \in V
        BY <1>4, <4>1
      <4>3. step[<<k, f[k - 1]>>] = History!AddComponent(f[k - 1], k)
        BY <4>1, <4>2
      <4> QED BY <3>1, <3>3, <4>3
    <3> QED BY <3>2, <3>3
  <2> HIDE DEF n, step
  <2> QED BY <1>4, <2>1
<1> DEFINE g == CHOOSE f1 : Eq(f1)
<1>6. Eq(g)
  <2> HIDE DEF Eq
  <2> QED BY <1>5, Zenon
<1>7. History!Section = g
  BY Zenon DEF History!Section
<1>8. g[0] = empty /\ \A k \in 1..n : g[k] = History!AddComponent(g[k - 1], k)
  <2>1. \A k \in 0..n : g[k] = IF k = 0 THEN empty ELSE History!AddComponent(g[k - 1], k)
    <3> HIDE DEF g, n, empty
    <3> QED BY <1>6
  <2> HIDE DEF g, n, Eq, empty
  <2> QED BY <1>1, <2>1
<1> HIDE DEF g, Eq, step
<1> DEFINE Good(k) == g[k] \in V /\ Account(g[k], k)
           N == {k \in Nat : k <= n => Good(k)}
<1>9. 0 \in N
  <2>1. g[0] \in V
    BY <1>8
  <2>2. g[0].chain = <<>> /\ g[0].truncated = FALSE
    BY <1>8
  <2>3. Account(g[0], 0)
    <3>1. Hard \in Nat
      BY DEF Chronicle
    <3> QED BY <2>2, <3>1 DEF Account
  <2> QED BY <2>1, <2>3
<1>10. ASSUME NEW k \in Nat, k \in N PROVE k + 1 \in N
  <2> SUFFICES ASSUME k + 1 <= n PROVE Good(k + 1)
    OBVIOUS
  <2>1. k + 1 \in 1..n /\ (k + 1) - 1 = k /\ k <= n
    BY <1>1
  <2>2. g[k] \in V /\ Account(g[k], (k + 1) - 1)
    <3> HIDE DEF V, n
    <3> QED BY <1>10, <2>1
  <2>3. g[k + 1] = History!AddComponent(g[k], k + 1)
    <3> HIDE DEF n
    <3> QED BY <1>8, <2>1
  <2>4. History!AddComponent(g[k], k + 1) \in V
    <3> HIDE DEF V, n
    <3> QED BY <1>2, <2>1, <2>2
  <2>5. k + 1 = 1 => g[k].chain = <<>>
    BY <1>8
  <2>6. History!AddComponent(g[k], k + 1).truncated \in BOOLEAN
    BY <2>4
  <2>7. Account(History!AddComponent(g[k], k + 1), k + 1)
    <3> HIDE DEF V, Good, N
    <3> QED BY <2>1, <2>2, <2>5, <2>6, AccountGoesOn
  <2> HIDE DEF V, n
  <2> QED BY <2>3, <2>4, <2>7
<1>11. n \in N
  <2> HIDE DEF N
  <2> QED BY <1>1, <1>9, <1>10, NumberInduction
<1>12. g[n] \in V /\ Account(g[n], n)
  <2> HIDE DEF V, n
  <2> QED BY <1>1, <1>11
<1>13. History!Sections = g[n]
  BY <1>7 DEF History!Sections
<1>14. g[n].truncated \in BOOLEAN
  BY <1>12
<1> HIDE DEF V
<1> QED BY <1>12, <1>13, <1>14

(* The property, of a chain and a report. *)
Story(ch, told) ==
    ch # <<>> =>
        /\ Len(ch) <= Hard
        /\ History!Cardinality(History!Range(ch)) = Len(ch)
        /\ History!Range(ch) \cap hSlots = {}
        /\ \A i \in History!Range(ch) :
              /\ History!Relevant(History!Component(i))
              /\ History!Terminals(History!Component(i)) # {} /\ hBy[i] # 0 =>
                    \/ hBy[i] \in hSlots
                    \/ /\ hBy[i] \in History!Range(ch)
                       /\ (CHOOSE k \in DOMAIN ch : ch[k] = i)
                          < (CHOOSE k \in DOMAIN ch : ch[k] = hBy[i])
        /\ told <=> \E c \in History!Components : History!Relevant(c)
              /\ ~(c \subseteq History!Range(ch) \cup hSlots)

(* What is said after all components is what the property asks. *)
LEMMA SectionsTell ==
    ASSUME Chronicle
    PROVE  Story(History!Sections.chain, History!Sections.truncated)
<1> DEFINE ch == History!Sections.chain
           told == History!Sections.truncated
           n == Len(History!Ranked)
<1>0. Account(History!Sections, n)
  BY SectionsAccount
<1>1. /\ ch \in Seq(History!Id) /\ Len(ch) <= Hard
      /\ \A a, b \in 1..Len(ch) : a # b => ch[a] # ch[b]
      /\ \A a \in 1..Len(ch) :
            /\ ch[a] \notin hSlots
            /\ \E m \in 1..n : ch[a] \in History!Ranked[m]
            /\ History!Terminals(History!Component(ch[a])) # {} /\ hBy[ch[a]] # 0 =>
                  \/ hBy[ch[a]] \in hSlots
                  \/ \E b \in 1..Len(ch) : b > a /\ ch[b] = hBy[ch[a]]
      /\ told <=> \E m \in 1..n, i \in History!Id :
                     /\ i \in History!Ranked[m] /\ i \notin hSlots
                     /\ \A a \in 1..Len(ch) : ch[a] # i
  BY <1>0, Zenon DEF Account
<1>2. History!Ranked \in Seq(Worth) /\ \A c \in Worth : \E m \in 1..n : History!Ranked[m] = c
  BY RankedOnce
<1> HIDE DEF ch, told
<1>3. Len(ch) \in Nat /\ DOMAIN ch = 1..Len(ch) /\ ch \in [1..Len(ch) -> History!Id]
      /\ History!Range(ch) = {ch[a] : a \in 1..Len(ch)}
  BY <1>1 DEF History!Range
<1>4. Cardinality(History!Range(ch)) = Len(ch)
  <2> DEFINE D == 1..Len(ch)
  <2>1. IsFiniteSet(D) /\ Cardinality(D) = Len(ch)
    BY <1>3, FS_Interval
  <2>2. ch \in Surjection(D, History!Range(ch)) /\ ch \in Injection(D, History!Range(ch))
    <3>1. ch \in [D -> History!Range(ch)]
      BY <1>3
    <3>2. \A a, b \in D : ch[a] = ch[b] => a = b
      BY <1>1
    <3>3. \A y \in History!Range(ch) : \E a \in D : ch[a] = y
      BY <1>3
    <3> HIDE DEF D
    <3> QED BY <3>1, <3>2, <3>3 DEF Surjection, Injection, IsInjective
  <2> HIDE DEF D
  <2> QED BY <2>1, <2>2, FS_Surjection
<1>5. History!Range(ch) \cap hSlots = {}
  BY <1>1, <1>3
<1>6. ASSUME NEW a \in 1..Len(ch) PROVE (CHOOSE k \in DOMAIN ch : ch[k] = ch[a]) = a
  BY <1>1, <1>3
<1>7. ASSUME NEW i \in History!Range(ch)
      PROVE  /\ History!Relevant(History!Component(i))
             /\ History!Terminals(History!Component(i)) # {} /\ hBy[i] # 0 =>
                   \/ hBy[i] \in hSlots
                   \/ /\ hBy[i] \in History!Range(ch)
                      /\ (CHOOSE k \in DOMAIN ch : ch[k] = i)
                         < (CHOOSE k \in DOMAIN ch : ch[k] = hBy[i])
  <2>1. PICK a \in 1..Len(ch) : i = ch[a]
    BY <1>3
  <2>2. PICK m \in 1..n : i \in History!Ranked[m]
    BY <1>1, <2>1
  <2>3. History!Ranked[m] \in History!Components /\ History!Relevant(History!Ranked[m])
    <3>1. History!Ranked[m] \in Worth
      BY <1>2
    <3> QED BY <3>1 DEF Worth
  <2>4. History!Component(i) = History!Ranked[m]
    BY <2>2, <2>3, ComponentsApart
  <2>5. ASSUME History!Terminals(History!Component(i)) # {}, hBy[i] # 0, hBy[i] \notin hSlots
        PROVE  /\ hBy[i] \in History!Range(ch)
               /\ (CHOOSE k \in DOMAIN ch : ch[k] = i)
                  < (CHOOSE k \in DOMAIN ch : ch[k] = hBy[i])
    <3>1. PICK b \in 1..Len(ch) : b > a /\ ch[b] = hBy[i]
      BY <1>1, <2>1, <2>5
    <3>2. hBy[i] \in History!Range(ch)
      BY <1>3, <3>1
    <3>3. (CHOOSE k \in DOMAIN ch : ch[k] = i) = a
      BY <1>6, <2>1
    <3>4. (CHOOSE k \in DOMAIN ch : ch[k] = hBy[i]) = b
      BY <1>6, <3>1
    <3>5. a < b
      BY <3>1
    <3> QED BY <3>2, <3>3, <3>4, <3>5
  <2> QED BY <2>3, <2>4, <2>5
<1>8. told <=> \E c \in History!Components : History!Relevant(c)
      /\ ~(c \subseteq History!Range(ch) \cup hSlots)
  <2>1. ASSUME NEW m \in 1..n, NEW i \in History!Id, i \in History!Ranked[m], i \notin hSlots,
               \A a \in 1..Len(ch) : ch[a] # i
        PROVE  \E c \in History!Components : History!Relevant(c)
               /\ ~(c \subseteq History!Range(ch) \cup hSlots)
    <3>1. History!Ranked[m] \in Worth
      BY <1>2
    <3>2. i \notin History!Range(ch) \cup hSlots
      BY <1>3, <2>1
    <3>3. History!Ranked[m] \in History!Components /\ History!Relevant(History!Ranked[m])
      BY <3>1 DEF Worth
    <3> QED BY <2>1, <3>2, <3>3
  <2>2. ASSUME NEW c \in History!Components, History!Relevant(c),
               NEW i \in c, i \notin History!Range(ch) \cup hSlots
        PROVE  \E m \in 1..n, i_1 \in History!Id : /\ i_1 \in History!Ranked[m]
                                                   /\ i_1 \notin hSlots
                                                   /\ \A a \in 1..Len(ch) : ch[a] # i_1
    <3>1. c \in Worth
      BY <2>2 DEF Worth
    <3>2. PICK m \in 1..n : History!Ranked[m] = c
      BY <1>2, <3>1
    <3>3. i \in History!Id
      BY <2>2, ComponentsApart
    <3>4. \A a \in 1..Len(ch) : ch[a] # i
      BY <1>3, <2>2
    <3> QED BY <2>2, <3>2, <3>3, <3>4
  <2> QED BY <1>1, <2>1, <2>2
<1>9. Story(ch, told)
  BY <1>1, <1>4, <1>5, <1>7, <1>8, HistoryCardinality DEF Story
<1> QED BY <1>9 DEF ch, told

(* The inductive invariant: what is asked of a history does not change, and the property. *)
StoryInv == Chronicle /\ History!ChainsTellTheStory

(* The rows added to an answer about the past are within the budget, each once and none that *)
(* the search selected; the successor of a row is selected or follows it; and an omission is   *)
(* reported exactly when a relevant decision is left out: _build_history_sections, for any      *)
(* graph, any dates and any limits.                                                              *)
THEOREM ChainsAlwaysTellTheStory == History!Spec => []ChainsTellTheStory
<1> USE HistoryAssumption
<1>1. History!Init => StoryInv
  <2> SUFFICES ASSUME History!Init PROVE StoryInv
    OBVIOUS
  <2>1. IsFiniteSet(hAbout)
    BY FS_EmptySet DEF History!Init
  <2>2. History!ChainsTellTheStory
    BY DEF History!Init, History!ChainsTellTheStory
  <2>3. hBy \in [History!Id -> 0..History!Other] /\ (\A i \in History!Id : hBy[i] # i)
        /\ hDate \in [History!Id -> Nat]
        /\ hSlots \in SUBSET History!Id /\ (\A i \in hSlots : hBy[i] = 0)
              /\ hScope \in {"topical", "global"}
    BY DEF History!Init, History!Id
  <2> QED BY <2>1, <2>2, <2>3 DEF StoryInv, Chronicle
<1>2. StoryInv /\ [History!Next]_(History!vars) => StoryInv'
  <2> SUFFICES ASSUME StoryInv, [History!Next]_(History!vars) PROVE StoryInv'
    OBVIOUS
  <2>1. /\ hBy' = hBy /\ hSlots' = hSlots /\ hDate' = hDate /\ hAbout' = hAbout
        /\ hScope' = hScope
    BY DEF History!Next, History!BuildHistorySections, History!vars
  <2>2. Chronicle'
    BY <2>1 DEF StoryInv, Chronicle, History!Id, History!Other
  <2>3. /\ History!Components' = History!Components
        /\ \A i : History!Component(i)' = History!Component(i)
        /\ \A c : History!Terminals(c)' = History!Terminals(c)
              /\ (History!Relevant(c)' <=> History!Relevant(c))
    <3>1. History!Components' = History!Components
      BY <2>1, SMT DEF History!Components, History!Component, History!Grown, History!Preds,
         History!Graph
    <3>2. ASSUME NEW i PROVE History!Component(i)' = History!Component(i)
      BY <2>1, SMT DEF History!Component, History!Grown, History!Preds, History!Graph
    <3>3. ASSUME NEW c
          PROVE  History!Terminals(c)' = History!Terminals(c)
                 /\ (History!Relevant(c)' <=> History!Relevant(c))
      <4>1. History!Terminals(c)' = History!Terminals(c)
        BY <2>1 DEF History!Terminals
      <4>2. {token \in hAbout' : token \cap c # {}} = {token \in hAbout : token \cap c # {}}
        BY <2>1
      <4>3. History!Relevance(c)' = History!Relevance(c)
        BY <4>2 DEF History!Relevance
      <4> QED BY <2>1, <4>1, <4>3 DEF History!Relevant
    <3> QED BY <3>1, <3>2, <3>3
  <2>4. CASE UNCHANGED History!vars
    <3>1. hChain' = hChain /\ hTruncated' = hTruncated
      BY <2>4 DEF History!vars
    <3>2. History!ChainsTellTheStory' <=> History!ChainsTellTheStory
      BY <2>1, <3>1, SMT
         DEF History!ChainsTellTheStory, History!Shown, History!At, History!Relevant,
             History!Relevance, History!Terminals, History!Components,
             History!Component, History!Grown, History!Preds, History!Graph
    <3> QED BY <2>2, <3>2 DEF StoryInv
  <2>5. CASE History!BuildHistorySections
    <3>1. hChain' = History!Sections.chain /\ hTruncated' = History!Sections.truncated
      BY <2>5 DEF History!BuildHistorySections
    <3>2. Story(History!Sections.chain, History!Sections.truncated)
      BY SectionsTell DEF StoryInv
    <3>3. Story(hChain', hTruncated')
      BY <3>1, <3>2
    <3>4. History!ChainsTellTheStory'
      BY <2>1, <2>3, <3>3 DEF Story, History!ChainsTellTheStory, History!Shown, History!At
    <3> QED BY <2>2, <3>4 DEF StoryInv
  <2> QED BY <2>4, <2>5 DEF History!Next
<1>3. StoryInv => ChainsTellTheStory
  BY DEF StoryInv, ChainsTellTheStory
<1> QED BY <1>1, <1>2, <1>3, PTL DEF History!Spec
=============================================================================
