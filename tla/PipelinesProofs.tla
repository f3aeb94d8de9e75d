-------------------------- MODULE PipelinesProofs --------------------------
(* Theorems about the long calls and what is brought together again after a loss:  *)
(* the instances of Pipelines one after the other, and the extraction it extends,      *)
(* each for every value of its constants.  What is said of the uploads comes from        *)
(* DocumentVersionProofs.                                                                *)
EXTENDS Pipelines, Numbers

-----------------------------------------------------------------------------
(* RepositoryCollection: what was read so far is of one commit,                             *)
(* and nothing that the pages showed is missing without a warning, except a README that a   *)
(* repository which disappeared no longer shows: there the next request will warn.          *)
SourceKind == {"commits", "readme", "issues", "pulls"}
SourceRows == [name : SourceKind, ref : Repo!Commit]
Shown == [status : {"none", "connected", "syncing", "indexed", "failed"}, commit : Repo!Commit,
          warned : BOOLEAN, error : {"none", "ingest"} \cup Repo!Kinds,
          published : SUBSET SourceRows, had : SUBSET SourceKind, crowded : SUBSET SourceKind]
Truthful == /\ row \in Shown /\ sources \subseteq SourceRows /\ had \subseteq SourceKind
            /\ crowded \subseteq {"issues"}
            /\ readme \in [Repo!Commit -> {"absent", "blank", "text"}]
            /\ head \in Repo!Commit /\ sha \in Repo!Commit
            /\ RowTellsTheTruth
Named == had \ crowded = {s.name : s \in sources}
OneCommit ==
    LET collected == {"issues", "pulls", "merged", "extract", "publish"}
    IN  /\ at \in {"idle", "head", "commits", "readme"} \cup collected
        /\ at \in {"readme"} \cup collected => \A s \in sources : s.ref = sha
        /\ at \in {"head", "commits", "readme"} => crowded = {}
        /\ at = "readme" => had = {"commits"} /\ sources = {Repo!Source("commits")}
        /\ at = "issues" => "issues" \notin had /\ crowded = {}
        /\ at \in collected => ("readme" \in had <=> readme[sha] = "text")
        /\ at \in collected /\ warnings = {} => Named \/ (at = "issues" /\ gone)

(* Nothing in the two of them but what changes. *)
LEMMA RowKept ==
    ASSUME Truthful, UNCHANGED <<readme, row>>, head' \in Repo!Commit, sha' \in Repo!Commit,
           sources' \subseteq SourceRows, had' \subseteq SourceKind, crowded' \subseteq {"issues"}
    PROVE  Truthful'
BY DEF Truthful, RowTellsTheTruth, Repo!RowTellsTheTruth, Repo!Commit, Shown, SourceRows,
   SourceKind, Repo!Kinds

LEMMA RepoInit == ASSUME MaxPushes \in Nat, Repo!Init PROVE Truthful /\ OneCommit
BY DEF Repo!Init, Shown, SourceRows, SourceKind, Truthful, OneCommit, RowTellsTheTruth,
   Repo!RowTellsTheTruth, Repo!NoRow,
   Repo!Commit

LEMMA RepoStep ==
    ASSUME MaxPushes \in Nat, Truthful, OneCommit, [Repo!Next]_(Repo!vars)
    PROVE  Truthful' /\ OneCommit'
<1>0. 0 \in Repo!Commit /\ \A n \in Repo!Commit : n < MaxPushes => n + 1 \in Repo!Commit
  BY DEF Repo!Commit
<1>1. CASE Repo!Push
  <2>1. Truthful'
    BY <1>0, <1>1, RowKept DEF Repo!Push, Truthful
  <2>2. OneCommit'
    BY <1>1 DEF Repo!Push, OneCommit, Named, Repo!Source
  <2> QED BY <2>1, <2>2
<1>2. CASE Repo!Hide
  <2>1. Truthful'
    BY <1>2, RowKept DEF Repo!Hide, Truthful
  <2>2. OneCommit'
    BY <1>2 DEF Repo!Hide, OneCommit, Named, Repo!Source
  <2> QED BY <2>1, <2>2
<1> DEFINE Fine(r) == /\ r \in Shown /\ r.status # "indexed"
                      /\ r.published = row.published /\ r.had = row.had /\ r.crowded = row.crowded
                      /\ r.commit = row.commit
<1>3. ASSUME Fine(row'), UNCHANGED <<readme, head, sha>>, sources' \subseteq SourceRows,
             had' \subseteq SourceKind, crowded' \subseteq {"issues"}
      PROVE  Truthful'
  BY <1>3 DEF Truthful, RowTellsTheTruth, Repo!RowTellsTheTruth, Repo!Commit, Shown, SourceRows,
     SourceKind,
     Repo!Kinds
<1>4. /\ Fine([row EXCEPT !.status = "connected"])
      /\ Fine([row EXCEPT !.status = "syncing", !.warned = FALSE, !.error = "none"])
      /\ \A e \in Repo!Kinds : Fine([row EXCEPT !.status = "failed", !.error = e])
      /\ Fine([row EXCEPT !.status = "failed", !.error = "ingest"])
  <2> HIDE DEF Repo!Kinds, SourceRows
  <2> QED BY DEF Truthful, Shown
<1> HIDE DEF Fine
<1>5. CASE Repo!Connect
  <2>1. Truthful'
    BY <1>3, <1>4, <1>5 DEF Repo!Connect, Repo!Answered, Repo!github, Truthful
  <2>2. OneCommit'
    BY <1>5 DEF Repo!Connect, Repo!Answered, Repo!github, OneCommit, Named, Repo!Source
  <2> QED BY <2>1, <2>2
<1>6. CASE Repo!ConnectFails
  <2>1. Truthful'
    BY <1>6, RowKept DEF Repo!ConnectFails, Repo!Denied, Repo!github, Truthful
  <2>2. OneCommit'
    BY <1>6 DEF Repo!ConnectFails, Repo!Denied, Repo!github, OneCommit, Named, Repo!Source
  <2> QED BY <2>1, <2>2
<1>7. CASE Repo!Claim
  <2>1. Truthful'
    BY <1>3, <1>4, <1>7 DEF Repo!Claim, Repo!github, Truthful
  <2>2. OneCommit'
    BY <1>7 DEF Repo!Claim, Repo!github, OneCommit
  <2> QED BY <2>1, <2>2
<1>8. ASSUME NEW kind \in Repo!Kinds, Repo!SetFailed(kind) PROVE Truthful' /\ OneCommit'
  <2>1. Truthful'
    BY <1>3, <1>4, <1>8 DEF Repo!SetFailed, Repo!github, Truthful
  <2>2. OneCommit'
    BY <1>8 DEF Repo!SetFailed, Repo!github, OneCommit
  <2> QED BY <2>1, <2>2
<1>9. CASE Repo!GetHead
  <2>1. CASE \E kind \in Repo!Kinds : Repo!Denied(kind) /\ Repo!SetFailed(kind)
    BY <1>8, <2>1
  <2>2. CASE Repo!Answered /\ sha' = head /\ at' = "commits"
             /\ UNCHANGED <<Repo!github, row, sources, warnings, had, crowded, syncs>>
    <3>1. Truthful'
      BY <2>2, RowKept DEF Repo!github, Truthful
    <3>2. at = "head"
      BY <1>9 DEF Repo!GetHead
    <3>3. OneCommit'
      BY <2>2, <3>2 DEF OneCommit
    <3> QED BY <3>1, <3>3
  <2> QED BY <1>9, <2>1, <2>2 DEF Repo!GetHead
<1>10. CASE Repo!GetCommits
  <2>1. CASE \E kind \in Repo!Kinds : Repo!Denied(kind) /\ Repo!SetFailed(kind)
    BY <1>8, <2>1
  <2>2. CASE Repo!Answered /\ sources' = {Repo!Source("commits")} /\ had' = {"commits"}
             /\ at' = "readme" /\ UNCHANGED <<Repo!github, row, sha, warnings, crowded, syncs>>
    <3>1. Repo!Source("commits") \in SourceRows
      BY DEF Repo!Source, SourceRows, SourceKind, Truthful
    <3>2. Truthful'
      BY <2>2, <3>1, RowKept DEF Repo!github, Truthful, SourceKind
    <3>3. at = "commits"
      BY <1>10 DEF Repo!GetCommits
    <3>4. OneCommit'
      BY <2>2, <3>3 DEF Repo!github, OneCommit, Repo!Source
    <3> QED BY <3>2, <3>4
  <2> QED BY <1>10, <2>1, <2>2 DEF Repo!GetCommits
<1> DEFINE Collected(name, present, quiet, next) ==
              /\ Truthful'
              /\ UNCHANGED <<readme, gone, sha>> /\ at' = next
              /\ \A s \in sources' : s.ref = sha
              /\ had' = IF present THEN had \cup {name} ELSE had
              /\ name # "issues" => crowded' = crowded
              /\ \/ ~gone /\ warnings' = warnings /\ (Named => Named')
                 \/ warnings' # {}
                 \/ gone /\ "not_found" \in quiet
                 \/ \E kind \in quiet : kind # "not_found"
<1>11. ASSUME NEW name \in SourceKind, NEW present, NEW shown, NEW quiet, NEW next,
              Repo!Collect(name, present, shown, quiet, next),
              \A s \in sources : s.ref = sha, shown => present,
              name = "issues" => "issues" \notin had /\ crowded = {},
              name # "issues" => (shown <=> present)
       PROVE  Collected(name, present, quiet, next)
  <2>1. UNCHANGED <<head, readme, open, gone, row, sha>> /\ at' = next
        /\ had' = (IF present THEN had \cup {name} ELSE had)
        /\ crowded' = IF present /\ ~shown THEN crowded \cup {name} ELSE crowded
    BY <1>11 DEF Repo!Collect, Repo!github
  <2>2. Repo!Source(name) \in SourceRows /\ Repo!Source(name).ref = sha /\ Repo!Source(name).name = name
    BY DEF Repo!Source, SourceRows, Truthful
  <2>3. sources' = sources \/ sources' = sources \cup {Repo!Source(name)}
    BY <1>11 DEF Repo!Collect
  <2>4. crowded' \subseteq {"issues"} /\ (name # "issues" => crowded' = crowded)
    BY <1>11, <2>1 DEF Truthful
  <2>5. Truthful'
    BY <2>1, <2>2, <2>3, <2>4, RowKept DEF Truthful
  <2>6. \A s \in sources' : s.ref = sha
    BY <1>11, <2>2, <2>3
  <2>7. CASE /\ Repo!Answered /\ UNCHANGED warnings
             /\ sources' = IF shown THEN sources \cup {Repo!Source(name)} ELSE sources
    <3>1. ~gone /\ warnings' = warnings
      BY <2>7 DEF Repo!Answered
    <3>2. name \notin crowded
      BY <1>11 DEF Truthful
    <3>3. Named => Named'
      BY <1>11, <2>1, <2>2, <2>7, <3>2 DEF Named
    <3> QED BY <2>1, <2>4, <2>5, <2>6, <3>1, <3>3
  <2>8. CASE /\ UNCHANGED sources
             /\ \E kind \in Repo!Kinds :
                   /\ Repo!Denied(kind)
                   /\ warnings' = IF kind \in quiet THEN warnings ELSE warnings \cup {name}
    <3>1. PICK kind \in Repo!Kinds :
             /\ Repo!Denied(kind)
             /\ warnings' = IF kind \in quiet THEN warnings ELSE warnings \cup {name}
      BY <2>8
    <3>2. \/ warnings' # {}
          \/ kind \in quiet /\ (kind # "not_found" \/ gone)
      BY <3>1 DEF Repo!Denied
    <3> QED BY <2>1, <2>4, <2>5, <2>6, <3>2
  <2> QED BY <1>11, <2>7, <2>8 DEF Repo!Collect
<1>12. CASE Repo!GetReadme
  <2>1. at = "readme"
        /\ Repo!Collect("readme", Repo!HasReadme, Repo!HasReadme, {"not_found"}, "issues")
    BY <1>12 DEF Repo!GetReadme
  <2>2. /\ had = {"commits"} /\ sources = {Repo!Source("commits")} /\ crowded = {}
        /\ \A s \in sources : s.ref = sha
    BY <2>1 DEF OneCommit
  <2>3. Named
    BY <2>2 DEF Named, Repo!Source
  <2>4. /\ Truthful' /\ UNCHANGED <<readme, gone, sha>> /\ at' = "issues"
        /\ \A s \in sources' : s.ref = sha
        /\ had' = (IF readme[sha] = "text" THEN had \cup {"readme"} ELSE had) /\ crowded' = {}
        /\ \/ warnings' = warnings /\ (Named => Named')
           \/ warnings' # {}
           \/ gone
    <3>1. /\ "readme" \in SourceKind /\ "readme" # "issues"
          /\ \A kind \in {"not_found"} : kind = "not_found"
      BY DEF SourceKind
    <3>2. Repo!HasReadme \in BOOLEAN /\ (Repo!HasReadme <=> readme[sha] = "text")
      BY DEF Repo!HasReadme
    <3>3. Collected("readme", Repo!HasReadme, {"not_found"}, "issues")
      <4> HIDE DEF Collected
      <4> QED BY <1>11, <2>1, <2>2, <3>1, <3>2, Zenon
    <3> QED BY <2>2, <3>1, <3>2, <3>3
  <2>5. OneCommit'
    <3> HIDE DEF Named
    <3> QED BY <2>2, <2>3, <2>4 DEF OneCommit
  <2> QED BY <2>4, <2>5
<1>13. ASSUME NEW name \in SourceKind, name # "readme", NEW next \in {"pulls", "merged"},
              NEW present, Collected(name, present, {}, next),
              at \in {"issues", "pulls"}, at = "pulls" \/ next = "pulls"
       PROVE  Truthful' /\ OneCommit'
  <2>1. OneCommit'
    BY <1>13 DEF OneCommit, Truthful
  <2> QED BY <1>13, <2>1
<1>14. CASE Repo!GetIssues
  <2>1. /\ "issues" \in SourceKind /\ "issues" # "readme"
        /\ Repo!IssueShown => Repo!HasIssue
    BY DEF SourceKind, Repo!HasIssue, Repo!IssueShown
  <2>2. at = "issues" /\ Repo!Collect("issues", Repo!HasIssue, Repo!IssueShown, {}, "pulls")
    BY <1>14 DEF Repo!GetIssues
  <2>3. "issues" \notin had /\ crowded = {} /\ \A s \in sources : s.ref = sha
    BY <2>2 DEF OneCommit
  <2>4. Collected("issues", Repo!HasIssue, {}, "pulls")
    <3> HIDE DEF Collected
    <3> QED BY <1>11, <2>1, <2>2, <2>3
  <2>5. at \in {"issues", "pulls"} /\ "pulls" \in {"pulls", "merged"}
    BY <2>2
  <2> HIDE DEF Collected
  <2> QED BY <1>13, <2>1, <2>4, <2>5, Zenon
<1>15. CASE Repo!GetPulls
  <2>1. "pulls" \in SourceKind /\ "pulls" # "readme" /\ "pulls" # "issues"
    BY DEF SourceKind
  <2>2. at = "pulls" /\ Repo!Collect("pulls", Repo!HasPull, Repo!HasPull, {}, "merged")
    BY <1>15 DEF Repo!GetPulls
  <2>3. \A s \in sources : s.ref = sha
    BY <2>2 DEF OneCommit
  <2>4. Collected("pulls", Repo!HasPull, {}, "merged")
    <3> HIDE DEF Collected
    <3> QED BY <1>11, <2>1, <2>2, <2>3
  <2>5. at \in {"issues", "pulls"} /\ "merged" \in {"pulls", "merged"}
    BY <2>2
  <2> HIDE DEF Collected
  <2> QED BY <1>13, <2>1, <2>2, <2>4, <2>5, Zenon
<1>16. CASE Repo!CollectMergedPrs \/ Repo!ExtractSources
  <2>1. Truthful'
    BY <1>16, RowKept DEF Repo!CollectMergedPrs, Repo!ExtractSources, Repo!github, Truthful
  <2>2. OneCommit'
    BY <1>16 DEF Repo!CollectMergedPrs, Repo!ExtractSources, Repo!github, OneCommit, Named
  <2> QED BY <2>1, <2>2
<1>17. CASE Repo!Publish
  <2>1. UNCHANGED <<readme, head, sha, sources, had, crowded>> /\ at = "publish" /\ at' = "idle"
    BY <1>17 DEF Repo!Publish, Repo!github
  <2>2. OneCommit'
    BY <2>1 DEF OneCommit
  <2>3. CASE Repo!SetStatus("indexed", sha)
    <3> DEFINE new == [status |-> "indexed", commit |-> sha, warned |-> warnings # {},
                       error |-> row.error, published |-> sources, had |-> had,
                       crowded |-> crowded]
    <3>1. row' = [row EXCEPT !.status = "indexed", !.commit = sha, !.published = sources,
                             !.had = had, !.crowded = crowded, !.warned = warnings # {}]
      BY <2>3 DEF Repo!SetStatus
    <3>2. row' \in Shown /\ row'.status = "indexed" /\ row'.commit = sha
          /\ row'.published = sources /\ row'.had = had /\ row'.crowded = crowded
          /\ (row'.warned <=> warnings # {})
      <4>1. crowded \subseteq SourceKind
        BY DEF Truthful, SourceKind
      <4> HIDE DEF Repo!Kinds, SourceRows
      <4> QED BY <3>1, <4>1 DEF Truthful, Shown
    <3>3. /\ \A s \in sources : s.ref = sha
          /\ readme[sha] = "text" <=> "readme" \in had
          /\ warnings = {} => had \ crowded = {s.name : s \in sources}
          /\ crowded \subseteq {"issues"}
      BY <2>1 DEF OneCommit, Named, Truthful
    <3>4. RowTellsTheTruth'
      BY <2>1, <3>2, <3>3 DEF RowTellsTheTruth, Repo!RowTellsTheTruth
    <3>5. Truthful'
      BY <2>1, <3>2, <3>4 DEF Truthful, Shown, SourceRows, SourceKind, Repo!Commit, Repo!Kinds
    <3> QED BY <2>2, <3>5
  <2>4. CASE Repo!SetStatus("failed", sha)
    <3>1. row' = [row EXCEPT !.status = "failed", !.error = "ingest"]
      BY <2>4 DEF Repo!SetStatus
    <3> QED BY <1>3, <1>4, <2>1, <2>2, <3>1 DEF Truthful
  <2> QED BY <1>17, <2>3, <2>4 DEF Repo!Publish
<1>18. CASE UNCHANGED Repo!vars
  <2>1. Truthful'
    BY <1>18, RowKept DEF Repo!vars, Truthful
  <2>2. OneCommit'
    BY <1>18 DEF Repo!vars, OneCommit, Named, Repo!Source
  <2> QED BY <2>1, <2>2
<1> QED BY <1>1, <1>2, <1>5, <1>6, <1>7, <1>9, <1>10, <1>12, <1>14, <1>15, <1>16, <1>17, <1>18
    DEF Repo!Next, Repo!Sync

(* Whatever happens on GitHub while a sync reads it, and whatever request fails: what a     *)
(* repository shows was read at the commit it shows, and without a warning it is all there  *)
(* was, but for issues that newer pull requests crowd out of their page                      *)
(* (repository.py:162, repository.py:234-251).                                                *)
THEOREM RowAlwaysTellsTheTruth == Repo!Spec => []RowTellsTheTruth
<1> USE CollectionAssumption
<1>1. Repo!Init => Truthful /\ OneCommit
  BY RepoInit
<1>2. Truthful /\ OneCommit /\ [Repo!Next]_(Repo!vars) => (Truthful /\ OneCommit)'
  BY RepoStep
<1>3. Truthful => RowTellsTheTruth
  BY DEF Truthful
<1> QED BY <1>1, <1>2, <1>3, PTL DEF Repo!Spec

-----------------------------------------------------------------------------
(* ResumableRun.  One script: a file that is not there holds nothing and leaves nothing     *)
(* out; the copy fills a new file only; the log is removed when the output says the same;     *)
(* and the last record of a question is where the next start looks, in the log if there is     *)
(* one and in the output otherwise, or it was left out of the log and is in the output.          *)
Has(records, q, record) == q \in DOMAIN records /\ records[q] = record
Fit(where, exists, rows, last, output, left) ==
    /\ where \in {"off", "copy", "ask", "unlink"}
    /\ DOMAIN rows \subseteq Question /\ DOMAIN last \subseteq Question
    /\ left \subseteq Question \ DOMAIN rows
    /\ ~exists => DOMAIN rows = {} /\ left = {}
    /\ where = "copy" => ~exists
    /\ where = "ask" => exists
    /\ where = "unlink" => exists /\ DOMAIN rows = Question /\ output = rows
    /\ output = Script!Nothing \/ DOMAIN output = Question
    /\ \A q \in DOMAIN last :
          IF q \in left \/ ~exists THEN Has(output, q, last[q]) ELSE Has(rows, q, last[q])
Log(rows) == [exists : BOOLEAN, rows : {rows}, end : Script!End]
RunInv ==
    /\ DOMAIN out = Script!Script /\ DOMAIN newest = Script!Script /\ DOMAIN place = Script!Script
    /\ DOMAIN partial = Script!Script /\ DOMAIN leftOut = Script!Script
    /\ \A s \in Script!Script :
          /\ partial[s] \in Log(partial[s].rows)
          /\ Fit(place[s], partial[s].exists, partial[s].rows, newest[s], out[s], leftOut[s])

LEMMA NothingIsEmpty == DOMAIN Script!Nothing = {}
BY DEF Script!Nothing

LEMMA RunInit == ASSUME Script!Init PROVE RunInv
<1>1. Script!NoFile.rows = Script!Nothing /\ ~Script!NoFile.exists
      /\ Script!NoFile \in Log(Script!Nothing)
  BY DEF Script!NoFile, Log, Script!End
<1>2. Fit("off", FALSE, Script!Nothing, Script!Nothing, Script!Nothing, {})
  BY NothingIsEmpty DEF Fit
<1>3. /\ \A s \in Script!Script : /\ out[s] = Script!Nothing /\ partial[s] = Script!NoFile
                                   /\ place[s] = "off" /\ newest[s] = Script!Nothing /\ leftOut[s] = {}
      /\ DOMAIN out = Script!Script /\ DOMAIN newest = Script!Script /\ DOMAIN place = Script!Script
      /\ DOMAIN partial = Script!Script /\ DOMAIN leftOut = Script!Script
  BY DEF Script!Init
<1>4. ASSUME NEW s \in Script!Script
      PROVE  /\ partial[s] \in Log(partial[s].rows)
             /\ Fit(place[s], partial[s].exists, partial[s].rows, newest[s], out[s], leftOut[s])
  <2>1. partial[s].rows = Script!Nothing /\ partial[s].exists = FALSE
    BY <1>1, <1>3
  <2> QED BY <1>1, <1>2, <1>3, <2>1
<1> QED BY <1>3, <1>4 DEF RunInv

(* A step of one script leaves the files of the other alone. *)
LEMMA OneScript ==
    ASSUME RunInv, NEW s \in Script!Script,
           partial'[s] \in Log(partial'[s].rows),
           Fit(place'[s], partial'[s].exists, partial'[s].rows, newest'[s], out'[s], leftOut'[s]),
           DOMAIN out' = DOMAIN out, DOMAIN partial' = DOMAIN partial,
           DOMAIN newest' = DOMAIN newest, DOMAIN place' = DOMAIN place,
           DOMAIN leftOut' = DOMAIN leftOut,
           \A r \in Script!Script : r # s => /\ out'[r] = out[r] /\ partial'[r] = partial[r]
                                            /\ newest'[r] = newest[r] /\ place'[r] = place[r]
                                            /\ leftOut'[r] = leftOut[r]
    PROVE  RunInv'
<1>1. /\ DOMAIN out' = Script!Script /\ DOMAIN newest' = Script!Script
      /\ DOMAIN place' = Script!Script /\ DOMAIN partial' = Script!Script
      /\ DOMAIN leftOut' = Script!Script
  BY DEF RunInv
<1>2. \A r \in Script!Script : partial'[r] \in Log(partial'[r].rows)
  BY DEF RunInv
<1>3. \A r \in Script!Script :
         Fit(place'[r], partial'[r].exists, partial'[r].rows, newest'[r], out'[r], leftOut'[r])
  BY DEF RunInv
<1>4. \A r \in Script!Script :
         /\ Fit(place[r], partial[r].exists, partial[r].rows, newest[r], out[r], leftOut[r])'
         /\ (partial[r] \in Log(partial[r].rows))'
  BY <1>2, <1>3 DEF Fit, Has, Script!Nothing, Log, Script!End
<1> QED BY <1>1, <1>4 DEF RunInv, Script!Script

LEMMA RecordStep ==
    ASSUME Question \subseteq Nat, RunInv, NEW s \in Script!Script, NEW rec,
           NEW end \in {"whole", "open"}, Script!Asking(s), Script!Record(s, rec, end)
    PROVE  RunInv'
<1> DEFINE q == Script!First(Script!Missing(s))
           rows == Script!Put(partial[s].rows, q, rec)
           last == Script!Put(newest[s], q, rec)
           left == leftOut[s] \ {q}
<1>1. q \in Question /\ q \notin DOMAIN partial[s].rows
  <2>1. Script!Missing(s) \in SUBSET Nat /\ Script!Missing(s) # {}
    BY DEF Script!Missing, Script!Asking
  <2>2. q \in Script!Missing(s)
    BY <2>1, LeastNumber DEF Script!First
  <2> QED BY <2>2 DEF Script!Missing
<1>2. /\ DOMAIN rows = DOMAIN partial[s].rows \cup {q} /\ DOMAIN last = DOMAIN newest[s] \cup {q}
      /\ rows[q] = rec /\ last[q] = rec
      /\ \A r \in DOMAIN partial[s].rows : r # q => rows[r] = partial[s].rows[r]
      /\ \A r \in DOMAIN newest[s] : r # q => last[r] = newest[s][r]
  BY DEF Script!Put
<1>3. /\ partial' = [partial EXCEPT ![s].rows = rows,
                                    ![s].end = IF @ = "whole" THEN end ELSE "joined"]
      /\ newest' = [newest EXCEPT ![s] = last]
      /\ leftOut' = [leftOut EXCEPT ![s] = left]
      /\ place' = [place EXCEPT ![s] = IF end = "open" THEN "off" ELSE @]
      /\ out' = out
  BY DEF Script!Record
<1> HIDE DEF q, rows, last, left
<1>4. /\ DOMAIN partial = Script!Script /\ DOMAIN newest = Script!Script
      /\ DOMAIN place = Script!Script /\ DOMAIN leftOut = Script!Script
      /\ partial[s] \in Log(partial[s].rows) /\ place[s] = "ask"
      /\ Fit("ask", partial[s].exists, partial[s].rows, newest[s], out[s], leftOut[s])
  BY DEF RunInv, Script!Asking
<1>5. partial'[s] \in [exists : {TRUE}, rows : {rows}, end : Script!End]
  <2>1. /\ partial[s].exists = TRUE /\ partial[s].end \in Script!End
        /\ partial[s] \in [exists : BOOLEAN, rows : {partial[s].rows}, end : Script!End]
    BY <1>4 DEF Fit, Log
  <2>2. partial'[s] = [partial[s] EXCEPT !.rows = rows,
                                         !.end = IF @ = "whole" THEN end ELSE "joined"]
    BY <1>3, <1>4
  <2>3. {end, "joined"} \subseteq Script!End
    BY DEF Script!End
  <2> HIDE DEF Script!End
  <2> QED BY <2>1, <2>2, <2>3
<1>6. ASSUME NEW w \in {"ask", "off"} PROVE Fit(w, TRUE, rows, last, out[s], left)
  <2>1. /\ DOMAIN rows \subseteq Question /\ DOMAIN last \subseteq Question
        /\ left \subseteq Question \ DOMAIN rows
        /\ out[s] = Script!Nothing \/ DOMAIN out[s] = Question
    BY <1>1, <1>2, <1>4 DEF Fit, left
  <2>2. ASSUME NEW x \in DOMAIN last
        PROVE  IF x \in left THEN Has(out[s], x, last[x]) ELSE Has(rows, x, last[x])
    <3>1. CASE x = q
      BY <1>2, <3>1 DEF left, Has
    <3>2. CASE x # q
      <4>1. x \in DOMAIN newest[s] /\ last[x] = newest[s][x] /\ (x \in left <=> x \in leftOut[s])
        BY <1>2, <3>2 DEF left
      <4>2. IF x \in leftOut[s] THEN Has(out[s], x, newest[s][x])
            ELSE Has(partial[s].rows, x, newest[s][x])
        BY <1>4, <4>1 DEF Fit
      <4> QED BY <1>2, <3>2, <4>1, <4>2 DEF Has
    <3> QED BY <3>1, <3>2
  <2> QED BY <2>1, <2>2 DEF Fit
<1>7. /\ partial'[s] \in Log(partial'[s].rows)
      /\ partial'[s].exists = TRUE /\ partial'[s].rows = rows
  BY <1>5 DEF Log
<1>8. /\ newest'[s] = last /\ leftOut'[s] = left /\ out'[s] = out[s] /\ place'[s] \in {"ask", "off"}
  BY <1>3, <1>4
<1>9. Fit(place'[s], partial'[s].exists, partial'[s].rows, newest'[s], out'[s], leftOut'[s])
  BY <1>6, <1>7, <1>8
<1>10. /\ DOMAIN out' = DOMAIN out /\ DOMAIN partial' = DOMAIN partial
       /\ DOMAIN newest' = DOMAIN newest /\ DOMAIN place' = DOMAIN place
       /\ DOMAIN leftOut' = DOMAIN leftOut
       /\ \A r \in Script!Script : r # s => /\ out'[r] = out[r] /\ partial'[r] = partial[r]
                                          /\ newest'[r] = newest[r] /\ place'[r] = place[r]
                                          /\ leftOut'[r] = leftOut[r]
  BY <1>3, <1>4
<1> QED BY <1>7, <1>9, <1>10, OneScript

LEMMA RunStep ==
    ASSUME Question \subseteq Nat, RunInv, [Script!Next]_(Script!vars)
    PROVE  RunInv'
<1>0. /\ DOMAIN out = Script!Script /\ DOMAIN newest = Script!Script
      /\ DOMAIN place = Script!Script /\ DOMAIN partial = Script!Script
      /\ DOMAIN leftOut = Script!Script
      /\ \A s \in Script!Script :
            /\ partial[s] \in [exists : BOOLEAN, rows : {partial[s].rows}, end : Script!End]
            /\ Fit(place[s], partial[s].exists, partial[s].rows, newest[s], out[s], leftOut[s])
  BY DEF RunInv, Log
(* A script after a step: where it is, its log and output, and what was left out. *)
<1> DEFINE Step(s, w, e, r, n, o, l) ==
       /\ place'[s] = w /\ newest'[s] = n /\ out'[s] = o /\ leftOut'[s] = l
       /\ partial'[s] \in [exists : {e}, rows : {r}, end : Script!End]
       /\ DOMAIN out' = DOMAIN out /\ DOMAIN partial' = DOMAIN partial
       /\ DOMAIN newest' = DOMAIN newest /\ DOMAIN place' = DOMAIN place
       /\ DOMAIN leftOut' = DOMAIN leftOut
       /\ \A t \in Script!Script : t # s => /\ out'[t] = out[t] /\ partial'[t] = partial[t]
                                          /\ newest'[t] = newest[t] /\ place'[t] = place[t]
                                          /\ leftOut'[t] = leftOut[t]
<1>a. ASSUME NEW s \in Script!Script, NEW w, NEW e \in BOOLEAN, NEW r, NEW n, NEW o, NEW l,
             Step(s, w, e, r, n, o, l), Fit(w, e, r, n, o, l)
      PROVE  RunInv'
  <2>1. /\ partial'[s] \in Log(partial'[s].rows)
        /\ partial'[s].exists = e /\ partial'[s].rows = r
    BY <1>a DEF Log
  <2> QED BY <1>a, <2>1, OneScript
<1>1. ASSUME NEW s \in Script!Script, Script!Start(s) PROVE RunInv'
  <2>1. Step(s, "ask", TRUE, partial[s].rows, newest[s], out[s], DOMAIN out[s])
    BY <1>0, <1>1 DEF Script!Start, Script!Open
  <2>2. Fit("ask", TRUE, partial[s].rows, newest[s], out[s], DOMAIN out[s])
    BY <1>0, <1>1, NothingIsEmpty DEF Script!Start, Fit, Has
  <2> HIDE DEF Step
  <2> QED BY <1>a, <2>1, <2>2
<1>2. ASSUME NEW s \in Script!Script, Script!Resume(s) PROVE RunInv'
  <2>1. CASE place' = [place EXCEPT ![s] = "copy"] /\ UNCHANGED partial /\ ~partial[s].exists
    <3>1. Step(s, "copy", FALSE, partial[s].rows, newest[s], out[s], leftOut[s])
      BY <1>0, <1>2, <2>1 DEF Script!Resume
    <3>2. Fit("copy", FALSE, partial[s].rows, newest[s], out[s], leftOut[s])
      BY <1>0, <1>2, <2>1 DEF Script!Resume, Fit
    <3> HIDE DEF Step
    <3> QED BY <1>a, <3>1, <3>2
  <2>2. CASE /\ place' = [place EXCEPT ![s] = "ask"] /\ Script!Open(s)
             /\ Script!LoadCompleted(s) = Script!Nothing \/ partial[s].exists
    <3>1. Step(s, "ask", TRUE, partial[s].rows, newest[s], out[s], leftOut[s])
      BY <1>0, <1>2, <2>2 DEF Script!Resume, Script!Open
    <3>2. ~partial[s].exists => DOMAIN out[s] = {}
      BY <1>2, <2>2, NothingIsEmpty DEF Script!Resume, Script!LoadCompleted
    <3>3. Fit("ask", TRUE, partial[s].rows, newest[s], out[s], leftOut[s])
      BY <1>0, <1>2, <3>2 DEF Script!Resume, Fit, Has
    <3> HIDE DEF Step
    <3> QED BY <1>a, <3>1, <3>3
  <2> QED BY <1>2, <2>1, <2>2 DEF Script!Resume
<1>3. ASSUME NEW s \in Script!Script, Script!Copy(s) PROVE RunInv'
  <2>1. Step(s, "ask", TRUE, out[s], newest[s], out[s], leftOut[s])
    BY <1>0, <1>3 DEF Script!Copy, Script!End
  <2>2. Fit("ask", TRUE, out[s], newest[s], out[s], leftOut[s])
    BY <1>0, <1>3, NothingIsEmpty DEF Script!Copy, Fit, Has
  <2> HIDE DEF Step
  <2> QED BY <1>a, <2>1, <2>2
<1>4. UNCHANGED <<out, partial, newest, place, leftOut>> => RunInv'
  BY DEF RunInv, Log, Script!End, Fit, Has, Script!Nothing, Script!Script
<1>5. ASSUME NEW s \in Script!Script, Script!ReplaceOutput(s) PROVE RunInv'
  <2>1. Step(s, "unlink", TRUE, partial[s].rows, newest[s], partial[s].rows, leftOut[s])
    BY <1>0, <1>5 DEF Script!ReplaceOutput, Fit
  <2>2. Fit("unlink", TRUE, partial[s].rows, newest[s], partial[s].rows, leftOut[s])
    BY <1>0, <1>5 DEF Script!ReplaceOutput, Script!Missing, Fit, Has
  <2> HIDE DEF Step
  <2> QED BY <1>a, <2>1, <2>2
<1>6. Script!NoFile \in [exists : {FALSE}, rows : {Script!Nothing}, end : Script!End]
  BY DEF Script!NoFile, Script!End
<1>7. ASSUME NEW s \in Script!Script, Script!Unlink(s) PROVE RunInv'
  <2>1. Step(s, "off", FALSE, Script!Nothing, newest[s], out[s], leftOut[s])
    BY <1>0, <1>6, <1>7 DEF Script!Unlink
  <2>2. Fit("off", FALSE, Script!Nothing, newest[s], out[s], leftOut[s])
    BY <1>0, <1>7, NothingIsEmpty DEF Script!Unlink, Fit, Has
  <2> HIDE DEF Step
  <2> QED BY <1>a, <2>1, <2>2
<1>8. ASSUME NEW s \in Script!Script, Script!Dies(s) PROVE RunInv'
  <2>1. CASE Script!DiesCopying(s)
    <3>1. PICK n \in Question \cup {0}, end \in Script!End :
             /\ partial' = [partial EXCEPT ![s] = [exists |-> TRUE, end |-> end,
                                                   rows |-> Script!Prefix(out[s], n)]]
             /\ leftOut' = [leftOut EXCEPT ![s] = {q \in DOMAIN out[s] : q > n}]
      BY <2>1 DEF Script!DiesCopying
    <3> DEFINE rows == Script!Prefix(out[s], n)
               left == {q \in DOMAIN out[s] : q > n}
    <3>2. /\ DOMAIN rows = {q \in DOMAIN out[s] : q <= n}
          /\ \A q \in DOMAIN rows : rows[q] = out[s][q]
      BY DEF Script!Prefix
    <3>3. Step(s, "off", TRUE, rows, newest[s], out[s], left)
      BY <1>0, <1>8, <3>1 DEF Script!Dies
    <3>4. /\ DOMAIN out[s] \subseteq Question
          /\ \A q \in DOMAIN newest[s] : Has(out[s], q, newest[s][q])
          /\ DOMAIN newest[s] \subseteq Question
          /\ out[s] = Script!Nothing \/ DOMAIN out[s] = Question
      BY <1>0, <2>1, NothingIsEmpty DEF Script!DiesCopying, Fit
    <3>5. \A q \in DOMAIN out[s] : q \in left <=> q \notin DOMAIN rows
      <4>1. n \in Question \cup {0}
        BY <3>1
      <4>2. DOMAIN out[s] \subseteq Question /\ Question \subseteq Nat
        BY <3>4
      <4>3. n \in Nat
        <5>1. 0 \in Nat
          OBVIOUS
        <5> QED BY <4>1, <4>2, <5>1, Zenon
      <4>4. \A q \in DOMAIN out[s] : q \in Nat
        BY <4>2, Zenon
      <4> QED BY <3>2, <4>3, <4>4
    <3>6. DOMAIN rows \subseteq DOMAIN out[s] /\ left \subseteq DOMAIN out[s]
      BY <3>2
    <3> HIDE DEF rows, left
    <3>7. Fit("off", TRUE, rows, newest[s], out[s], left)
      BY <3>2, <3>4, <3>5, <3>6 DEF Fit, Has
    <3> HIDE DEF Step
    <3> QED BY <1>a, <3>3, <3>7
  <2>2. CASE /\ Script!Asking(s) /\ partial' = [partial EXCEPT ![s].end = "cut"]
             /\ UNCHANGED leftOut
    <3>1. Step(s, "off", partial[s].exists, partial[s].rows, newest[s], out[s], leftOut[s])
      BY <1>0, <1>8, <2>2 DEF Script!Dies, Script!End
    <3>2. Fit("off", partial[s].exists, partial[s].rows, newest[s], out[s], leftOut[s])
      BY <1>0 DEF Fit
    <3>3. partial[s].exists \in BOOLEAN
      BY <1>0
    <3> HIDE DEF Step
    <3> QED BY <1>a, <3>1, <3>2, <3>3
  <2>3. CASE UNCHANGED <<partial, leftOut>>
    <3>1. Step(s, "off", partial[s].exists, partial[s].rows, newest[s], out[s], leftOut[s])
      BY <1>0, <1>8, <2>3 DEF Script!Dies
    <3>2. Fit("off", partial[s].exists, partial[s].rows, newest[s], out[s], leftOut[s])
      BY <1>0 DEF Fit
    <3>3. partial[s].exists \in BOOLEAN
      BY <1>0
    <3> HIDE DEF Step
    <3> QED BY <1>a, <3>1, <3>2, <3>3
  <2> QED BY <1>8, <2>1, <2>2, <2>3 DEF Script!Dies
<1>9. ASSUME NEW s \in Script!Script, Script!Repair(s) PROVE RunInv'
  <2>1. Step(s, place[s], partial[s].exists, partial[s].rows, newest[s], out[s], leftOut[s])
    BY <1>0, <1>9 DEF Script!Repair, Script!End
  <2>2. partial[s].exists \in BOOLEAN
    BY <1>0
  <2> HIDE DEF Step
  <2> QED BY <1>0, <1>a, <2>1, <2>2
<1>10. ASSUME NEW s \in Script!Script, Script!Remove(s) PROVE RunInv'
  <2>1. Step(s, "off", FALSE, Script!Nothing, out[s], out[s], {})
    BY <1>0, <1>6, <1>10 DEF Script!Remove
  <2>2. Fit("off", FALSE, Script!Nothing, out[s], out[s], {})
    BY <1>0, NothingIsEmpty DEF Fit, Has
  <2> HIDE DEF Step
  <2> QED BY <1>a, <2>1, <2>2
<1>11. ASSUME NEW end \in {"whole", "open"}, Script!Ask(end) \/ Script!LastAskFails(end)
       PROVE  RunInv'
  <2>1. "run" \in Script!Script
    BY DEF Script!Script
  <2> QED BY <1>11, <2>1, RecordStep DEF Script!Ask, Script!LastAskFails
<1>12. ASSUME NEW end \in {"whole", "open"},
              \/ Script!JudgeUnanswered(end) \/ Script!LastJudgeFails(end)
              \/ \E pass \in BOOLEAN : Script!Judge(pass, end)
       PROVE  RunInv'
  <2>1. "judge" \in Script!Script
    BY DEF Script!Script
  <2> QED BY <1>12, <2>1, RecordStep
             DEF Script!JudgeUnanswered, Script!LastJudgeFails, Script!Judge
<1>13. (\E s \in Script!Script : Script!AttemptFails(s)) \/ UNCHANGED Script!vars => RunInv'
  BY <1>4 DEF Script!AttemptFails, Script!vars
<1>14. ASSUME NEW s \in Script!Script, Script!FinalLoadRefused(s) PROVE RunInv'
  <2>1. Step(s, "off", partial[s].exists, partial[s].rows, newest[s], out[s], leftOut[s])
    BY <1>0, <1>14 DEF Script!FinalLoadRefused
  <2>2. Fit("off", partial[s].exists, partial[s].rows, newest[s], out[s], leftOut[s])
    BY <1>0 DEF Fit
  <2>3. partial[s].exists \in BOOLEAN
    BY <1>0
  <2> HIDE DEF Step
  <2> QED BY <1>a, <2>1, <2>2, <2>3
<1> QED BY <1>1, <1>2, <1>3, <1>5, <1>7, <1>8, <1>9, <1>10, <1>11, <1>12, <1>13, <1>14
    DEF Script!Next

(* Killed at any step and started again with or without --resume, a script loses no record: *)
(* the next start loads it, but for those it set aside or a killed copy did not come to,       *)
(* which stay in the output (run_user_realistic_160_qa.py:95-110,183-187).                       *)
THEOREM RecordsAlwaysSurvive == Script!Spec => []RecordsSurvive
<1> USE QuestionAssumption
<1>1. Script!Init => RunInv
  BY RunInit
<1>2. RunInv /\ [Script!Next]_(Script!vars) => RunInv'
  BY RunStep
<1>3. RunInv => RecordsSurvive
  BY DEF RunInv, Fit, Has, RecordsSurvive, Script!RecordsSurvive, Script!LoadCompleted,
         Script!Holds, Script!Whole
<1> QED BY <1>1, <1>2, <1>3, PTL DEF Script!Spec

-----------------------------------------------------------------------------
(* MemoryVectors. *)
VectorTypes ==
    /\ items \in [Row -> [exists : BOOLEAN, text : Nat, by : Row \cup RepoRow \cup {NoMemory}]]
    /\ vector \in [Row -> Nat]
    /\ op \subseteq [thread : Thread, row : Row, text : Nat \cup {NoMemory}]
    /\ serving \in BOOLEAN /\ wrong \subseteq Row /\ older \subseteq Row

(* A row that exists has a text, and a successor that is a row exists. *)
ItemsAgree ==
    \A m \in Row : /\ items[m].exists => items[m].text > 0
                   /\ items[m].by \in Row => items[items[m].by].exists
(* No request survives a restart. *)
NoneWhileDown == ~serving => op = {}
(* Requests that overlap on a row are accounted for. *)
OneEach == \A o, p \in op : o.row = p.row /\ o.row \notin wrong => o = p
(* What the vector call of a request will do is still right when it does it. *)
CallsAgree ==
    \A o \in op : o.row \notin wrong =>
        /\ o.text = NoMemory => (vector[o.row] # 0 <=> Vectors!Active(o.row))
        /\ o.text = 0 => ~Vectors!Active(o.row)
        /\ o.text \in Nat \ {0} => /\ Vectors!Active(o.row)
                                   /\ o.row \notin older => o.text = items[o.row].text
(* VectorsFollowRows, also while the server starts. *)
VectorsAgree ==
    \A m \in Row : ~Vectors!Busy(m) /\ m \notin wrong =>
        /\ vector[m] # 0 <=> Vectors!Active(m)
        /\ Vectors!Active(m) /\ m \notin older => vector[m] = items[m].text
VectorInv == VectorTypes /\ ItemsAgree /\ NoneWhileDown /\ OneEach /\ CallsAgree /\ VectorsAgree

(* A commit adds one request, on its row.  What overlaps is accounted for as old. *)
LEMMA CommitAdds ==
    ASSUME NEW m \in Row, NEW content, Vectors!Commit(m, content)
    PROVE  /\ serving
           /\ \E t \in Thread : op' = op \cup {[thread |-> t, row |-> m, text |-> content]}
           /\ older' = IF Vectors!Busy(m) THEN older \cup {m} ELSE older
BY DEF Vectors!Commit

(* A commit that accounts for what it overlaps leaves one request on each other row. *)
LEMMA CommitAlone ==
    ASSUME VectorTypes, NoneWhileDown, OneEach, NEW m \in Row, NEW content, Vectors!Commit(m, content),
           wrong \cup Vectors!Disturbed(m) \subseteq wrong', serving' = serving
    PROVE  NoneWhileDown' /\ OneEach'
<1>1. PICK t \in Thread : op' = op \cup {[thread |-> t, row |-> m, text |-> content]}
  BY CommitAdds
<1>2. NoneWhileDown'
  BY CommitAdds DEF NoneWhileDown
<1>3. ASSUME NEW o \in op', NEW p \in op', o.row = p.row, o.row \notin wrong' PROVE o = p
  <2>1. CASE o.row = m
    <3>1. ~Vectors!Busy(m)
      BY <1>3, <2>1 DEF Vectors!Disturbed
    <3>2. QED BY <1>1, <1>3, <2>1, <3>1 DEF Vectors!Busy
  <2>2. CASE o.row # m
    BY <1>1, <1>3, <2>2 DEF OneEach
  <2>3. QED BY <2>1, <2>2
<1>4. QED BY <1>2, <1>3 DEF OneEach

(* A commit takes its row from what the invariant speaks of, and leaves a row that *)
(* it neither wrote nor reactivated as it was.                                       *)
LEMMA CommitAgrees ==
    ASSUME VectorInv, NEW m \in Row, NEW content, Vectors!Commit(m, content), vector' = vector,
           wrong \subseteq wrong',
           \A n \in Row \ {m} : n \notin wrong' =>
               items'[n].text = items[n].text /\ (Vectors!Active(n)' <=> Vectors!Active(n))
    PROVE  VectorsAgree'
<1>1. PICK t \in Thread : op' = op \cup {[thread |-> t, row |-> m, text |-> content]}
  BY CommitAdds
<1>2. Vectors!Busy(m)'
  <2>1. [thread |-> t, row |-> m, text |-> content] \in op'
    BY <1>1
  <2>2. QED BY <2>1 DEF Vectors!Busy
<1>3. \A n \in Row \ {m} : Vectors!Busy(n)' <=> Vectors!Busy(n)
  BY <1>1 DEF Vectors!Busy
<1>4. older \subseteq older'
  BY CommitAdds
<1>5. ASSUME NEW n \in Row, ~Vectors!Busy(n)', n \notin wrong'
      PROVE  /\ vector'[n] # 0 <=> Vectors!Active(n)'
             /\ Vectors!Active(n)' /\ n \notin older' => vector'[n] = items'[n].text
  <2>1. n # m
    BY <1>2, <1>5
  <2>2. ~Vectors!Busy(n) /\ n \notin wrong
    BY <1>3, <1>5, <2>1
  <2>3. items'[n].text = items[n].text /\ (Vectors!Active(n)' <=> Vectors!Active(n))
    BY <1>5, <2>1
  <2>4. QED BY <1>4, <2>2, <2>3 DEF VectorInv, VectorsAgree
<1>6. QED BY <1>5 DEF VectorsAgree

(* Each step keeps the types. *)
LEMMA VectorTypesKept ==
    ASSUME VectorTypes, Vectors!Next
    PROVE  VectorTypes'
<1> USE VectorsAssumption DEF VectorsAssumption, VectorTypes, Vectors!NoRow
<1>1. ASSUME NEW m \in Row, Vectors!CreateMemory(m) PROVE VectorTypes'
  <2>1. /\ Vectors!Commit(m, 1)
        /\ items' \in [Row -> [exists : BOOLEAN, text : Nat,
                             by : Row \cup RepoRow \cup {NoMemory}]]
    BY <1>1 DEF Vectors!CreateMemory
  <2>2. QED
    BY <1>1, <2>1, CommitAdds DEF Vectors!CreateMemory, Vectors!Disturbed
<1>2. ASSUME NEW m \in Row, Vectors!UpdateMemory(m) PROVE VectorTypes'
  <2>1. Vectors!Commit(m, NoMemory)
    BY <1>2 DEF Vectors!UpdateMemory
  <2>2. QED
    BY <1>2, <2>1, CommitAdds DEF Vectors!UpdateMemory, Vectors!Disturbed
<1>3. ASSUME NEW m \in Row, NEW p \in Row \cup RepoRow,
             Vectors!AcceptSupersede(m, p)
      PROVE  VectorTypes'
  <2>1. Vectors!Commit(m, 0)
    BY <1>3 DEF Vectors!AcceptSupersede
  <2>2. QED
    BY <1>3, <2>1, CommitAdds DEF Vectors!AcceptSupersede, Vectors!Disturbed
<1>4. ASSUME NEW m \in Row, Vectors!DeleteMemory(m) PROVE VectorTypes'
  <2>1. /\ Vectors!Commit(m, 0)
        /\ items' \in [Row -> [exists : BOOLEAN, text : Nat,
                             by : Row \cup RepoRow \cup {NoMemory}]]
    BY <1>4 DEF Vectors!DeleteMemory
  <2>2. wrong' \subseteq Row /\ vector' = vector /\ serving' = serving
    BY <1>4 DEF Vectors!DeleteMemory, Vectors!Disturbed
  <2>3. QED
    BY <2>1, <2>2, CommitAdds
<1>5. ASSUME NEW o \in op, Vectors!ReadRow(o) PROVE VectorTypes'
  BY <1>5 DEF Vectors!ReadRow
<1>6. ASSUME NEW o \in op, Vectors!VectorCall(o) PROVE VectorTypes'
  BY <1>6 DEF Vectors!VectorCall
<1>7. ASSUME NEW o \in op, Vectors!VectorCallFails(o) PROVE VectorTypes'
  BY <1>7 DEF Vectors!VectorCallFails, Vectors!Fault
<1>8. CASE Vectors!Crash
  BY <1>8 DEF Vectors!Crash, Vectors!Fault
<1>9. CASE Vectors!Backfill
  BY <1>9 DEF Vectors!Backfill, Vectors!Reconciled
<1>10. CASE Vectors!BackfillFails
  BY <1>10 DEF Vectors!BackfillFails, Vectors!Fault
<1>11. ASSUME NEW decisions \in SUBSET RepoRow, Vectors!RetireDecisions(decisions)
       PROVE  VectorTypes'
  BY <1>11 DEF Vectors!RetireDecisions
<1>12. ASSUME NEW o \in op, Vectors!ReadRowFails(o) PROVE VectorTypes'
  BY <1>12 DEF Vectors!ReadRowFails, Vectors!Fault
<1>13. QED
  BY <1>1, <1>2, <1>3, <1>4, <1>5, <1>6, <1>7, <1>8, <1>9, <1>10, <1>11, <1>12
     DEF Vectors!Next

(* Each step keeps the rows in agreement. *)
LEMMA ItemsAgreeKept ==
    ASSUME VectorTypes, ItemsAgree, Vectors!Next
    PROVE  ItemsAgree'
<1> USE VectorsAssumption
   DEF VectorsAssumption, VectorTypes, ItemsAgree, Vectors!NoRow, Vectors!Active
<1>1. ASSUME NEW m \in Row, Vectors!CreateMemory(m) PROVE ItemsAgree'
  <2>1. Vectors!Commit(m, 1)
    BY <1>1 DEF Vectors!CreateMemory
  <2>2. QED
    BY <1>1, <2>1, CommitAdds DEF Vectors!CreateMemory, Vectors!Disturbed
<1>2. ASSUME NEW m \in Row, Vectors!UpdateMemory(m) PROVE ItemsAgree'
  <2>1. Vectors!Commit(m, NoMemory)
    BY <1>2 DEF Vectors!UpdateMemory
  <2>2. QED
    BY <1>2, <2>1, CommitAdds DEF Vectors!UpdateMemory, Vectors!Disturbed
<1>3. ASSUME NEW m \in Row, NEW p \in Row \cup RepoRow,
             Vectors!AcceptSupersede(m, p)
      PROVE  ItemsAgree'
  <2>1. Vectors!Commit(m, 0)
    BY <1>3 DEF Vectors!AcceptSupersede
  <2>2. QED
    BY <1>3, <2>1, CommitAdds DEF Vectors!AcceptSupersede, Vectors!Disturbed
<1>4. ASSUME NEW m \in Row, Vectors!DeleteMemory(m) PROVE ItemsAgree'
  <2>1. Vectors!Commit(m, 0)
    BY <1>4 DEF Vectors!DeleteMemory
  <2>2. QED
    BY <1>4, <2>1, CommitAdds DEF Vectors!DeleteMemory, Vectors!Disturbed
<1>5. ASSUME NEW o \in op, Vectors!ReadRow(o) PROVE ItemsAgree'
  BY <1>5 DEF Vectors!ReadRow
<1>6. ASSUME NEW o \in op, Vectors!VectorCall(o) PROVE ItemsAgree'
  BY <1>6 DEF Vectors!VectorCall
<1>7. ASSUME NEW o \in op, Vectors!VectorCallFails(o) PROVE ItemsAgree'
  BY <1>7 DEF Vectors!VectorCallFails, Vectors!Fault
<1>8. CASE Vectors!Crash
  BY <1>8 DEF Vectors!Crash, Vectors!Fault
<1>9. CASE Vectors!Backfill
  BY <1>9 DEF Vectors!Backfill, Vectors!Reconciled
<1>10. CASE Vectors!BackfillFails
  BY <1>10 DEF Vectors!BackfillFails, Vectors!Fault
<1>11. ASSUME NEW decisions \in SUBSET RepoRow, Vectors!RetireDecisions(decisions)
       PROVE  ItemsAgree'
  BY <1>11 DEF Vectors!RetireDecisions
<1>12. ASSUME NEW o \in op, Vectors!ReadRowFails(o) PROVE ItemsAgree'
  BY <1>12 DEF Vectors!ReadRowFails, Vectors!Fault
<1>13. QED
  BY <1>1, <1>2, <1>3, <1>4, <1>5, <1>6, <1>7, <1>8, <1>9, <1>10, <1>11, <1>12
     DEF Vectors!Next

(* Each step leaves the requests on a row one at a time, or accounts for them. *)
LEMMA OneEachKept ==
    ASSUME VectorTypes, NoneWhileDown, OneEach, Vectors!Next
    PROVE  NoneWhileDown' /\ OneEach'
<1> USE VectorsAssumption
   DEF VectorsAssumption, VectorTypes, NoneWhileDown, OneEach, Vectors!Busy
<1>1. ASSUME NEW m \in Row, Vectors!CreateMemory(m) PROVE NoneWhileDown' /\ OneEach'
  BY <1>1, CommitAlone DEF Vectors!CreateMemory
<1>2. ASSUME NEW m \in Row, Vectors!UpdateMemory(m) PROVE NoneWhileDown' /\ OneEach'
  BY <1>2, CommitAlone DEF Vectors!UpdateMemory
<1>3. ASSUME NEW m \in Row, NEW p \in Row \cup RepoRow,
             Vectors!AcceptSupersede(m, p)
      PROVE  NoneWhileDown' /\ OneEach'
  BY <1>3, CommitAlone DEF Vectors!AcceptSupersede
<1>4. ASSUME NEW m \in Row, Vectors!DeleteMemory(m) PROVE NoneWhileDown' /\ OneEach'
  BY <1>4, CommitAlone DEF Vectors!DeleteMemory
<1>5. ASSUME NEW o \in op, Vectors!ReadRow(o) PROVE NoneWhileDown' /\ OneEach'
  BY <1>5 DEF Vectors!ReadRow
<1>6. ASSUME NEW o \in op, Vectors!VectorCall(o) PROVE NoneWhileDown' /\ OneEach'
  BY <1>6 DEF Vectors!VectorCall
<1>7. ASSUME NEW o \in op, Vectors!VectorCallFails(o) PROVE NoneWhileDown' /\ OneEach'
  BY <1>7 DEF Vectors!VectorCallFails, Vectors!Fault
<1>8. CASE Vectors!Crash
  BY <1>8 DEF Vectors!Crash, Vectors!Fault
<1>9. CASE Vectors!Backfill
  BY <1>9 DEF Vectors!Backfill, Vectors!Reconciled
<1>10. CASE Vectors!BackfillFails
  BY <1>10 DEF Vectors!BackfillFails, Vectors!Fault
<1>11. ASSUME NEW decisions \in SUBSET RepoRow, Vectors!RetireDecisions(decisions)
       PROVE  NoneWhileDown' /\ OneEach'
  BY <1>11 DEF Vectors!RetireDecisions
<1>12. ASSUME NEW o \in op, Vectors!ReadRowFails(o) PROVE NoneWhileDown' /\ OneEach'
  BY <1>12 DEF Vectors!ReadRowFails, Vectors!Fault
<1>13. QED
  BY <1>1, <1>2, <1>3, <1>4, <1>5, <1>6, <1>7, <1>8, <1>9, <1>10, <1>11, <1>12
     DEF Vectors!Next

(* No step makes a pending vector call wrong without accounting for it. *)
LEMMA CallsAgreeKept ==
    ASSUME VectorInv, Vectors!Next
    PROVE  CallsAgree'
<1> USE VectorsAssumption
   DEF VectorsAssumption, VectorInv, VectorTypes, ItemsAgree, NoneWhileDown, OneEach,
       CallsAgree, VectorsAgree, Vectors!NoRow, Vectors!Active, Vectors!Busy
<1>1. ASSUME NEW m \in Row, Vectors!CreateMemory(m) PROVE CallsAgree'
  <2>1. Vectors!Commit(m, 1)
    BY <1>1 DEF Vectors!CreateMemory
  <2>2. QED
    BY <1>1, <2>1, CommitAdds DEF Vectors!CreateMemory, Vectors!Disturbed
<1>2. ASSUME NEW m \in Row, Vectors!UpdateMemory(m) PROVE CallsAgree'
  <2>1. Vectors!Commit(m, NoMemory)
    BY <1>2 DEF Vectors!UpdateMemory
  <2>2. QED
    BY <1>2, <2>1, CommitAdds DEF Vectors!UpdateMemory, Vectors!Disturbed
<1>3. ASSUME NEW m \in Row, NEW p \in Row \cup RepoRow,
             Vectors!AcceptSupersede(m, p)
      PROVE  CallsAgree'
  <2>1. Vectors!Commit(m, 0)
    BY <1>3 DEF Vectors!AcceptSupersede
  <2>2. QED
    BY <1>3, <2>1, CommitAdds DEF Vectors!AcceptSupersede, Vectors!Disturbed
<1>4. ASSUME NEW m \in Row, Vectors!DeleteMemory(m) PROVE CallsAgree'
  <2>1. Vectors!Commit(m, 0)
    BY <1>4 DEF Vectors!DeleteMemory
  <2>2. QED
    BY <1>4, <2>1, CommitAdds DEF Vectors!DeleteMemory, Vectors!Disturbed
<1>5. ASSUME NEW o \in op, Vectors!ReadRow(o) PROVE CallsAgree'
  BY <1>5 DEF Vectors!ReadRow
<1>6. ASSUME NEW o \in op, Vectors!VectorCall(o) PROVE CallsAgree'
  BY <1>6 DEF Vectors!VectorCall
<1>7. ASSUME NEW o \in op, Vectors!VectorCallFails(o) PROVE CallsAgree'
  BY <1>7 DEF Vectors!VectorCallFails, Vectors!Fault
<1>8. CASE Vectors!Crash
  BY <1>8 DEF Vectors!Crash, Vectors!Fault
<1>9. CASE Vectors!Backfill
  BY <1>9 DEF Vectors!Backfill, Vectors!Reconciled
<1>10. CASE Vectors!BackfillFails
  BY <1>10 DEF Vectors!BackfillFails, Vectors!Fault
<1>11. ASSUME NEW decisions \in SUBSET RepoRow, Vectors!RetireDecisions(decisions)
       PROVE  CallsAgree'
  BY <1>11 DEF Vectors!RetireDecisions
<1>12. ASSUME NEW o \in op, Vectors!ReadRowFails(o) PROVE CallsAgree'
  BY <1>12 DEF Vectors!ReadRowFails, Vectors!Fault
<1>13. QED
  BY <1>1, <1>2, <1>3, <1>4, <1>5, <1>6, <1>7, <1>8, <1>9, <1>10, <1>11, <1>12
     DEF Vectors!Next

(* Each step leaves the vectors right, or accounts for them. *)
LEMMA VectorsAgreeKept ==
    ASSUME VectorInv, Vectors!Next
    PROVE  VectorsAgree'
<1> USE VectorsAssumption DEF VectorsAssumption
<1>1. ASSUME NEW m \in Row, Vectors!CreateMemory(m) PROVE VectorsAgree'
  <2>1. \A n \in Row \ {m} : n \notin wrong' =>
            items'[n].text = items[n].text /\ (Vectors!Active(n)' <=> Vectors!Active(n))
    BY <1>1 DEF Vectors!CreateMemory, VectorInv, VectorTypes, ItemsAgree, Vectors!Active,
       Vectors!NoRow
  <2>2. QED BY <1>1, <2>1, CommitAgrees DEF Vectors!CreateMemory
<1>2. ASSUME NEW m \in Row, Vectors!UpdateMemory(m) PROVE VectorsAgree'
  <2>1. \A n \in Row \ {m} : n \notin wrong' =>
            items'[n].text = items[n].text /\ (Vectors!Active(n)' <=> Vectors!Active(n))
    BY <1>2 DEF Vectors!UpdateMemory, VectorInv, VectorTypes, ItemsAgree, Vectors!Active,
       Vectors!NoRow
  <2>2. QED BY <1>2, <2>1, CommitAgrees DEF Vectors!UpdateMemory
<1>3. ASSUME NEW m \in Row, NEW p \in Row \cup RepoRow,
             Vectors!AcceptSupersede(m, p)
      PROVE  VectorsAgree'
  <2>1. \A n \in Row \ {m} : n \notin wrong' =>
            items'[n].text = items[n].text /\ (Vectors!Active(n)' <=> Vectors!Active(n))
    BY <1>3 DEF Vectors!AcceptSupersede, VectorInv, VectorTypes, ItemsAgree, Vectors!Active,
       Vectors!NoRow
  <2>2. QED BY <1>3, <2>1, CommitAgrees DEF Vectors!AcceptSupersede
<1>4. ASSUME NEW m \in Row, Vectors!DeleteMemory(m) PROVE VectorsAgree'
  <2>1. \A n \in Row \ {m} : n \notin wrong' =>
            items'[n].text = items[n].text /\ (Vectors!Active(n)' <=> Vectors!Active(n))
    BY <1>4 DEF Vectors!DeleteMemory, VectorInv, VectorTypes, ItemsAgree, Vectors!Active,
       Vectors!NoRow
  <2>2. QED BY <1>4, <2>1, CommitAgrees DEF Vectors!DeleteMemory
<1>5. ASSUME NEW o \in op, Vectors!ReadRow(o) PROVE VectorsAgree'
  <2>1. ASSUME NEW n \in Row, ~Vectors!Busy(n)', n \notin wrong'
        PROVE  /\ vector'[n] # 0 <=> Vectors!Active(n)'
               /\ Vectors!Active(n)' /\ n \notin older' => vector'[n] = items'[n].text
    <3>1. CASE n = o.row
      <4>1. ~Vectors!Active(n)
        <5>1. SUFFICES ASSUME Vectors!Active(n) PROVE Vectors!Busy(n)'
          BY <2>1
        <5>2. [o EXCEPT !.text = items[n].text] \in op' /\ [o EXCEPT !.text = items[n].text].row = n
          BY <1>5, <3>1, <5>1 DEF Vectors!ReadRow, VectorInv, VectorTypes
        <5>3. QED BY <5>2 DEF Vectors!Busy
      <4>2. items' = items /\ vector' = vector /\ wrong' = wrong /\ (Vectors!Active(n)' <=> Vectors!Active(n))
        BY <1>5 DEF Vectors!ReadRow, Vectors!Active
      <4>3. vector[n] # 0 <=> Vectors!Active(n)
        BY <1>5, <2>1, <3>1, <4>2 DEF Vectors!ReadRow, VectorInv, CallsAgree
      <4>4. QED BY <4>1, <4>2, <4>3
    <3>2. CASE n # o.row
      <4>1. ~Vectors!Busy(n)
        BY <1>5, <2>1, <3>2 DEF Vectors!ReadRow, Vectors!Busy, VectorInv, VectorTypes
      <4>2. /\ Vectors!Active(n)' <=> Vectors!Active(n)
            /\ UNCHANGED <<items, vector, older, wrong>>
        BY <1>5 DEF Vectors!ReadRow, Vectors!Active
      <4>3. QED BY <2>1, <4>1, <4>2 DEF VectorInv, VectorsAgree
    <3>3. QED BY <3>1, <3>2
  <2>2. QED BY <2>1 DEF VectorsAgree
<1>6. ASSUME NEW o \in op, Vectors!VectorCall(o) PROVE VectorsAgree'
  BY <1>6 DEF Vectors!VectorCall, VectorsAssumption, VectorInv, VectorTypes, ItemsAgree,
     NoneWhileDown, OneEach, CallsAgree, VectorsAgree, Vectors!NoRow, Vectors!Active,
     Vectors!Busy
<1>7. ASSUME NEW o \in op, Vectors!VectorCallFails(o) PROVE VectorsAgree'
  BY <1>7 DEF Vectors!VectorCallFails, Vectors!Fault, VectorsAssumption, VectorInv,
     VectorTypes, ItemsAgree, NoneWhileDown, OneEach, CallsAgree, VectorsAgree, Vectors!NoRow,
     Vectors!Active, Vectors!Busy
<1>8. CASE Vectors!Crash
  BY <1>8 DEF Vectors!Crash, Vectors!Fault, VectorsAssumption, VectorInv, VectorTypes,
     ItemsAgree, NoneWhileDown, OneEach, CallsAgree, VectorsAgree, Vectors!NoRow,
     Vectors!Active, Vectors!Busy
<1>9. CASE Vectors!Backfill
  BY <1>9 DEF Vectors!Backfill, Vectors!Reconciled, VectorsAssumption, VectorInv, VectorTypes,
     ItemsAgree, NoneWhileDown, OneEach, CallsAgree, VectorsAgree, Vectors!NoRow,
     Vectors!Active, Vectors!Busy
<1>10. CASE Vectors!BackfillFails
  BY <1>10 DEF Vectors!BackfillFails, Vectors!Fault, VectorsAssumption, VectorInv, VectorTypes,
     ItemsAgree, NoneWhileDown, OneEach, CallsAgree, VectorsAgree, Vectors!NoRow,
     Vectors!Active, Vectors!Busy
<1>11. ASSUME NEW decisions \in SUBSET RepoRow, Vectors!RetireDecisions(decisions)
       PROVE  VectorsAgree'
  <2>1. \A n \in Row : n \notin wrong' =>
            items'[n] = items[n] /\ n \notin wrong /\ (Vectors!Active(n)' <=> Vectors!Active(n))
    BY <1>11 DEF Vectors!RetireDecisions, VectorInv, VectorTypes, Vectors!Active
  <2>2. vector' = vector /\ op' = op /\ older' = older
    BY <1>11 DEF Vectors!RetireDecisions
  <2>3. QED BY <2>1, <2>2 DEF VectorInv, VectorsAgree, Vectors!Busy
<1>12. ASSUME NEW o \in op, Vectors!ReadRowFails(o) PROVE VectorsAgree'
  <2>1. /\ items' = items /\ vector' = vector /\ wrong' = wrong /\ o.text = NoMemory
        /\ op' = op \ {o} /\ older' = older \cup {o.row}
        /\ \A n \in Row : Vectors!Active(n)' <=> Vectors!Active(n)
    BY <1>12 DEF Vectors!ReadRowFails, Vectors!Active
  <2>2. ASSUME NEW n \in Row, ~Vectors!Busy(n)', n \notin wrong
        PROVE  /\ vector[n] # 0 <=> Vectors!Active(n)
               /\ Vectors!Active(n) /\ n \notin older' => vector[n] = items[n].text
    <3>1. CASE n = o.row
      BY <2>1, <2>2, <3>1 DEF VectorInv, CallsAgree
    <3>2. CASE n # o.row
      BY <2>1, <2>2, <3>2 DEF VectorInv, VectorsAgree, Vectors!Busy
    <3>3. QED BY <3>1, <3>2
  <2>3. QED BY <2>1, <2>2 DEF VectorsAgree
<1>13. QED
  BY <1>1, <1>2, <1>3, <1>4, <1>5, <1>6, <1>7, <1>8, <1>9, <1>10, <1>11, <1>12
     DEF Vectors!Next

(* What each start puts right stays right: without a request under way, a row has a   *)
(* vector exactly if it is active, and of its text, but for what was accounted for: failed *)
(* calls and readings, overlapping requests, and rows that a deletion or a publication        *)
(* brought back (memory_vector.py:218-229, repository.py:590-597).                             *)
THEOREM VectorsAlwaysFollow == Vectors!Spec => []VectorsFollowRows
<1>1. Vectors!Init => VectorInv
  BY VectorsAssumption
     DEF VectorsAssumption, Vectors!Init, VectorInv, VectorTypes, ItemsAgree, NoneWhileDown,
         OneEach, CallsAgree, VectorsAgree, Vectors!NoRow, Vectors!Active, Vectors!Busy
<1>2. VectorInv /\ [Vectors!Next]_(Vectors!vars) => VectorInv'
  <2>1. ASSUME VectorInv, Vectors!Next PROVE VectorInv'
    BY <2>1, VectorsAssumption, VectorTypesKept, ItemsAgreeKept, OneEachKept, CallsAgreeKept,
       VectorsAgreeKept DEF VectorInv
  <2>2. ASSUME VectorInv, UNCHANGED Vectors!vars PROVE VectorInv'
    BY <2>2 DEF VectorInv, Vectors!vars, VectorTypes, ItemsAgree, NoneWhileDown, OneEach,
       CallsAgree, VectorsAgree, Vectors!Active, Vectors!Busy
  <2>3. QED BY <2>1, <2>2
<1>3. VectorInv => VectorsFollowRows
  BY DEF VectorInv, VectorsFollowRows, VectorsAgree, Vectors!VectorsFollowRows
<1>4. QED BY <1>1, <1>2, <1>3, PTL DEF Vectors!Spec

-----------------------------------------------------------------------------
(* PendingDeletes. *)
UploadStates == {"none", "sent", "stored", "answered", "failed"}
Queueing == {"none", "due", "later", "paused"}
DeleteTypes ==
    /\ upload \in [Queued -> UploadStates]
    /\ cancelled \subseteq Queued /\ server \subseteq Queued /\ unsaved \subseteq Queued
    /\ queue \in [Queued -> Queueing] /\ saved \in [Queued -> Queueing]
    /\ call \in [Queued -> {"none", "sent", "deleted", "missing", "unreachable", "refused"}]

(* A deletion is queued, saved or under way only for an upload that was answered,   *)
(* so nothing can store its document after it was deleted.                            *)
OnlyAnswered ==
    \A u \in Queued : queue[u] # "none" \/ saved[u] # "none" \/ call[u] # "none"
                          => upload[u] = "answered"
(* The server's word that a document is gone stays true while it is on its way.       *)
GoneIsGone == \A u \in Queued : call[u] \in {"deleted", "missing"} => u \notin server
(* What CancelRemembered says of the queue holds of its saved copy, which a restart   *)
(* makes the queue.                                                                     *)
SavedToo == \A u \in cancelled \ unsaved :
                upload[u] = "answered" /\ u \in server => saved[u] # "none"
CancelInv == DeleteTypes /\ OnlyAnswered /\ GoneIsGone /\ SavedToo /\ Deletes!CancelRemembered

(* Each step keeps the types. *)
LEMMA DeletesTypesKept ==
    ASSUME DeleteTypes, Deletes!Next
    PROVE  DeleteTypes'
<1> USE DEF DeleteTypes, UploadStates, Queueing
<1>1. ASSUME NEW u \in Queued, Deletes!Send(u) PROVE DeleteTypes'
  BY <1>1 DEF Deletes!Send, Deletes!client
<1>2. ASSUME NEW u \in Queued, Deletes!Cancel(u) PROVE DeleteTypes'
  BY <1>2 DEF Deletes!Cancel, Deletes!client
<1>3. ASSUME NEW u \in Queued, Deletes!Store(u) PROVE DeleteTypes'
  BY <1>3 DEF Deletes!Store, Deletes!client
<1>4. ASSUME NEW u \in Queued, Deletes!UploadFails(u) PROVE DeleteTypes'
  BY <1>4 DEF Deletes!UploadFails, Deletes!Fault, Deletes!client
<1>5. ASSUME NEW u \in Queued, Deletes!Answer(u) PROVE DeleteTypes'
  BY <1>5 DEF Deletes!Answer, Deletes!Enqueue, Deletes!Attempt, Deletes!Persist,
     Deletes!Entries, Deletes!Fault, Deletes!client
<1>6. ASSUME NEW u \in Queued, Deletes!Serve(u) PROVE DeleteTypes'
  BY <1>6 DEF Deletes!Serve, Deletes!client
<1>7. ASSUME NEW u \in Queued, Deletes!ServeFails(u) PROVE DeleteTypes'
  BY <1>7 DEF Deletes!ServeFails, Deletes!Fault, Deletes!client
<1>8. ASSUME NEW u \in Queued, Deletes!Reply(u) PROVE DeleteTypes'
  BY <1>8 DEF Deletes!Reply, Deletes!Persist, Deletes!Entries, Deletes!Outcome, Deletes!Fault,
     Deletes!client
<1>9. ASSUME NEW u \in Queued, Deletes!TimePasses(u) PROVE DeleteTypes'
  BY <1>9 DEF Deletes!TimePasses, Deletes!client
<1>10. CASE Deletes!Flush
  BY <1>10 DEF Deletes!Flush, Deletes!Attempt, Deletes!client
<1>11. CASE Deletes!BeginSync
  BY <1>11 DEF Deletes!BeginSync, Deletes!Attempt, Deletes!Entries, Deletes!client
<1>12. CASE Deletes!RequestList
  BY <1>12 DEF Deletes!RequestList, Deletes!client
<1>13. CASE Deletes!ServeList
  BY <1>13 DEF Deletes!ServeList, Deletes!client
<1>14. CASE Deletes!ListFails
  BY <1>14 DEF Deletes!ListFails, Deletes!Fault, Deletes!client
<1>15. CASE Deletes!MergeList
  BY <1>15 DEF Deletes!MergeList, Deletes!client
<1>16. CASE Deletes!Restart
  BY <1>16 DEF Deletes!Restart, Deletes!Fault, Deletes!client
<1>17. QED
  BY <1>1, <1>2, <1>3, <1>4, <1>5, <1>6, <1>7, <1>8, <1>9, <1>10, <1>11, <1>12, <1>13, <1>14,
     <1>15, <1>16 DEF Deletes!Next

(* Each step leaves the deletions to answered uploads. *)
LEMMA OnlyAnsweredKept ==
    ASSUME DeleteTypes, OnlyAnswered, Deletes!Next
    PROVE  OnlyAnswered'
<1> USE DEF DeleteTypes, UploadStates, Queueing, OnlyAnswered
<1>1. ASSUME NEW u \in Queued, Deletes!Send(u) PROVE OnlyAnswered'
  BY <1>1 DEF Deletes!Send, Deletes!client
<1>2. ASSUME NEW u \in Queued, Deletes!Cancel(u) PROVE OnlyAnswered'
  BY <1>2 DEF Deletes!Cancel, Deletes!client
<1>3. ASSUME NEW u \in Queued, Deletes!Store(u) PROVE OnlyAnswered'
  BY <1>3 DEF Deletes!Store, Deletes!client
<1>4. ASSUME NEW u \in Queued, Deletes!UploadFails(u) PROVE OnlyAnswered'
  BY <1>4 DEF Deletes!UploadFails, Deletes!Fault, Deletes!client
<1>5. ASSUME NEW u \in Queued, Deletes!Answer(u) PROVE OnlyAnswered'
  BY <1>5 DEF Deletes!Answer, Deletes!Enqueue, Deletes!Attempt, Deletes!Persist,
     Deletes!Entries, Deletes!Fault, Deletes!client
<1>6. ASSUME NEW u \in Queued, Deletes!Serve(u) PROVE OnlyAnswered'
  BY <1>6 DEF Deletes!Serve, Deletes!client
<1>7. ASSUME NEW u \in Queued, Deletes!ServeFails(u) PROVE OnlyAnswered'
  BY <1>7 DEF Deletes!ServeFails, Deletes!Fault, Deletes!client
<1>8. ASSUME NEW u \in Queued, Deletes!Reply(u) PROVE OnlyAnswered'
  BY <1>8 DEF Deletes!Reply, Deletes!Persist, Deletes!Entries, Deletes!Outcome, Deletes!Fault,
     Deletes!client
<1>9. ASSUME NEW u \in Queued, Deletes!TimePasses(u) PROVE OnlyAnswered'
  BY <1>9 DEF Deletes!TimePasses, Deletes!client
<1>10. CASE Deletes!Flush
  BY <1>10 DEF Deletes!Flush, Deletes!Attempt, Deletes!client
<1>11. CASE Deletes!BeginSync
  BY <1>11 DEF Deletes!BeginSync, Deletes!Attempt, Deletes!Entries, Deletes!client
<1>12. CASE Deletes!RequestList
  BY <1>12 DEF Deletes!RequestList, Deletes!client
<1>13. CASE Deletes!ServeList
  BY <1>13 DEF Deletes!ServeList, Deletes!client
<1>14. CASE Deletes!ListFails
  BY <1>14 DEF Deletes!ListFails, Deletes!Fault, Deletes!client
<1>15. CASE Deletes!MergeList
  BY <1>15 DEF Deletes!MergeList, Deletes!client
<1>16. CASE Deletes!Restart
  BY <1>16 DEF Deletes!Restart, Deletes!Fault, Deletes!client
<1>17. QED
  BY <1>1, <1>2, <1>3, <1>4, <1>5, <1>6, <1>7, <1>8, <1>9, <1>10, <1>11, <1>12, <1>13, <1>14,
     <1>15, <1>16 DEF Deletes!Next

(* No step brings back a document the server said is gone. *)
LEMMA GoneIsGoneKept ==
    ASSUME DeleteTypes, OnlyAnswered, GoneIsGone, Deletes!Next
    PROVE  GoneIsGone'
<1> USE DEF DeleteTypes, UploadStates, Queueing, OnlyAnswered, GoneIsGone
<1>1. ASSUME NEW u \in Queued, Deletes!Send(u) PROVE GoneIsGone'
  BY <1>1 DEF Deletes!Send, Deletes!client
<1>2. ASSUME NEW u \in Queued, Deletes!Cancel(u) PROVE GoneIsGone'
  BY <1>2 DEF Deletes!Cancel, Deletes!client
<1>3. ASSUME NEW u \in Queued, Deletes!Store(u) PROVE GoneIsGone'
  BY <1>3 DEF Deletes!Store, Deletes!client
<1>4. ASSUME NEW u \in Queued, Deletes!UploadFails(u) PROVE GoneIsGone'
  BY <1>4 DEF Deletes!UploadFails, Deletes!Fault, Deletes!client
<1>5. ASSUME NEW u \in Queued, Deletes!Answer(u) PROVE GoneIsGone'
  BY <1>5 DEF Deletes!Answer, Deletes!Enqueue, Deletes!Attempt, Deletes!Persist,
     Deletes!Entries, Deletes!Fault, Deletes!client
<1>6. ASSUME NEW u \in Queued, Deletes!Serve(u) PROVE GoneIsGone'
  BY <1>6 DEF Deletes!Serve, Deletes!client
<1>7. ASSUME NEW u \in Queued, Deletes!ServeFails(u) PROVE GoneIsGone'
  BY <1>7 DEF Deletes!ServeFails, Deletes!Fault, Deletes!client
<1>8. ASSUME NEW u \in Queued, Deletes!Reply(u) PROVE GoneIsGone'
  BY <1>8 DEF Deletes!Reply, Deletes!Persist, Deletes!Entries, Deletes!Outcome, Deletes!Fault,
     Deletes!client
<1>9. ASSUME NEW u \in Queued, Deletes!TimePasses(u) PROVE GoneIsGone'
  BY <1>9 DEF Deletes!TimePasses, Deletes!client
<1>10. CASE Deletes!Flush
  BY <1>10 DEF Deletes!Flush, Deletes!Attempt, Deletes!client
<1>11. CASE Deletes!BeginSync
  BY <1>11 DEF Deletes!BeginSync, Deletes!Attempt, Deletes!Entries, Deletes!client
<1>12. CASE Deletes!RequestList
  BY <1>12 DEF Deletes!RequestList, Deletes!client
<1>13. CASE Deletes!ServeList
  BY <1>13 DEF Deletes!ServeList, Deletes!client
<1>14. CASE Deletes!ListFails
  BY <1>14 DEF Deletes!ListFails, Deletes!Fault, Deletes!client
<1>15. CASE Deletes!MergeList
  BY <1>15 DEF Deletes!MergeList, Deletes!client
<1>16. CASE Deletes!Restart
  BY <1>16 DEF Deletes!Restart, Deletes!Fault, Deletes!client
<1>17. QED
  BY <1>1, <1>2, <1>3, <1>4, <1>5, <1>6, <1>7, <1>8, <1>9, <1>10, <1>11, <1>12, <1>13, <1>14,
     <1>15, <1>16 DEF Deletes!Next

(* Each step remembers what is left to delete, in the queue and in its copy. *)
LEMMA RememberedKept ==
    ASSUME CancelInv, Deletes!Next
    PROVE  SavedToo' /\ Deletes!CancelRemembered'
<1> USE DEF CancelInv, DeleteTypes, UploadStates, Queueing, OnlyAnswered, GoneIsGone, SavedToo,
            Deletes!CancelRemembered
<1>1. ASSUME NEW u \in Queued, Deletes!Send(u) PROVE SavedToo' /\ Deletes!CancelRemembered'
  BY <1>1 DEF Deletes!Send, Deletes!client
<1>2. ASSUME NEW u \in Queued, Deletes!Cancel(u) PROVE SavedToo' /\ Deletes!CancelRemembered'
  BY <1>2 DEF Deletes!Cancel, Deletes!client
<1>3. ASSUME NEW u \in Queued, Deletes!Store(u) PROVE SavedToo' /\ Deletes!CancelRemembered'
  BY <1>3 DEF Deletes!Store, Deletes!client
<1>4. ASSUME NEW u \in Queued, Deletes!UploadFails(u) PROVE SavedToo' /\ Deletes!CancelRemembered'
  BY <1>4 DEF Deletes!UploadFails, Deletes!Fault, Deletes!client
<1>5. ASSUME NEW u \in Queued, Deletes!Answer(u) PROVE SavedToo' /\ Deletes!CancelRemembered'
  BY <1>5 DEF Deletes!Answer, Deletes!Enqueue, Deletes!Attempt, Deletes!Persist,
     Deletes!Entries, Deletes!Fault, Deletes!client
<1>6. ASSUME NEW u \in Queued, Deletes!Serve(u) PROVE SavedToo' /\ Deletes!CancelRemembered'
  BY <1>6 DEF Deletes!Serve, Deletes!client
<1>7. ASSUME NEW u \in Queued, Deletes!ServeFails(u) PROVE SavedToo' /\ Deletes!CancelRemembered'
  BY <1>7 DEF Deletes!ServeFails, Deletes!Fault, Deletes!client
<1>8. ASSUME NEW u \in Queued, Deletes!Reply(u) PROVE SavedToo' /\ Deletes!CancelRemembered'
  BY <1>8 DEF Deletes!Reply, Deletes!Persist, Deletes!Entries, Deletes!Outcome, Deletes!Fault,
     Deletes!client
<1>9. ASSUME NEW u \in Queued, Deletes!TimePasses(u) PROVE SavedToo' /\ Deletes!CancelRemembered'
  BY <1>9 DEF Deletes!TimePasses, Deletes!client
<1>10. CASE Deletes!Flush
  BY <1>10 DEF Deletes!Flush, Deletes!Attempt, Deletes!client
<1>11. CASE Deletes!BeginSync
  BY <1>11 DEF Deletes!BeginSync, Deletes!Attempt, Deletes!Entries, Deletes!client
<1>12. CASE Deletes!RequestList
  BY <1>12 DEF Deletes!RequestList, Deletes!client
<1>13. CASE Deletes!ServeList
  BY <1>13 DEF Deletes!ServeList, Deletes!client
<1>14. CASE Deletes!ListFails
  BY <1>14 DEF Deletes!ListFails, Deletes!Fault, Deletes!client
<1>15. CASE Deletes!MergeList
  BY <1>15 DEF Deletes!MergeList, Deletes!client
<1>16. CASE Deletes!Restart
  BY <1>16 DEF Deletes!Restart, Deletes!Fault, Deletes!client
<1>17. QED
  BY <1>1, <1>2, <1>3, <1>4, <1>5, <1>6, <1>7, <1>8, <1>9, <1>10, <1>11, <1>12, <1>13, <1>14,
     <1>15, <1>16 DEF Deletes!Next

(* "The tombstone is persisted before deleteDocument can run"                         *)
(* (pendingDocumentDeletes.ts:345): what a person cancelled and the server stored is     *)
(* deleted or still queued, but for entries that could never be saved.                     *)
THEOREM CancelAlwaysRemembered == Deletes!Spec => []CancelRemembered
<1>1. Deletes!Init => CancelInv
  BY DEF Deletes!Init, CancelInv, DeleteTypes, UploadStates, Queueing, OnlyAnswered,
     GoneIsGone, SavedToo, Deletes!CancelRemembered
<1>2. CancelInv /\ [Deletes!Next]_(Deletes!vars) => CancelInv'
  <2>1. ASSUME CancelInv, Deletes!Next PROVE CancelInv'
    BY <2>1, DeletesTypesKept, OnlyAnsweredKept, GoneIsGoneKept, RememberedKept DEF CancelInv
  <2>2. ASSUME CancelInv, UNCHANGED Deletes!vars PROVE CancelInv'
    BY <2>2 DEF CancelInv, Deletes!vars, DeleteTypes, OnlyAnswered, GoneIsGone, SavedToo,
       Deletes!CancelRemembered
  <2>3. QED BY <2>1, <2>2
<1>3. CancelInv => CancelRemembered
  BY DEF CancelInv, CancelRemembered
<1>4. QED BY <1>1, <1>2, <1>3, PTL DEF Deletes!Spec

-----------------------------------------------------------------------------
(* DocumentUpload.  The instance of its proofs has the definitions of the instance *)
(* that runs.                                                                            *)
Proved == INSTANCE DocumentVersionProofs WITH MaxFaults <- MaxMishaps, faults <- mishaps

LEMMA VersionsSound ==
    Proved!UploadAssumption /\ Proved!BytesAssumption /\ Proved!LimitAssumption
BY VersionsAssumption
   DEF Versions!UploadAssumption, Proved!UploadAssumption, Versions!BytesAssumption,
       Proved!BytesAssumption, Versions!LimitAssumption, Proved!LimitAssumption,
       Versions!IsFiniteSet, Proved!IsFiniteSet, Versions!Kind, Proved!Kind

LEMMA VersionsStart == Versions!Init <=> Proved!Init
BY DEF Versions!Init, Proved!Init

LEMMA VersionsStep == [Versions!Next]_(Versions!vars) <=> [Proved!Next]_(Proved!vars)
BY DEF Versions!Next, Proved!Next, Versions!vars, Proved!vars, Versions!Request,
       Proved!Request, Versions!Worker, Proved!Worker, Versions!UserDelete, Proved!UserDelete,
       Versions!Housekeeping, Proved!Housekeeping, Versions!Crash, Proved!Crash,
       Versions!requestVars, Proved!requestVars, Versions!accountVars, Proved!accountVars,
       Versions!storeVars, Proved!storeVars, Versions!Reserve, Proved!Reserve,
       Versions!WriteTemp, Proved!WriteTemp, Versions!RenameTemp, Proved!RenameTemp,
       Versions!RequestFails, Proved!RequestFails, Versions!Finalize, Proved!Finalize,
       Versions!FinalizeRejected, Proved!FinalizeRejected, Versions!FinalizeAckLost,
       Proved!FinalizeAckLost, Versions!Abandon, Proved!Abandon, Versions!Compensate,
       Proved!Compensate, Versions!AcquireLock, Proved!AcquireLock, Versions!KeepWaiting,
       Proved!KeepWaiting, Versions!BeginWork, Proved!BeginWork, Versions!Transcribed,
       Proved!Transcribed, Versions!ExtractProgress, Proved!ExtractProgress,
       Versions!Extracted, Proved!Extracted, Versions!WorkFails, Proved!WorkFails,
       Versions!IngestBegin, Proved!IngestBegin, Versions!IngestVectors, Proved!IngestVectors,
       Versions!IngestCommit, Proved!IngestCommit, Versions!IngestAckLost,
       Proved!IngestAckLost, Versions!IngestFails, Proved!IngestFails, Versions!WorkerFails,
       Proved!WorkerFails, Versions!ReplaceOld, Proved!ReplaceOld, Versions!Finish,
       Proved!Finish, Versions!StepRaises, Proved!StepRaises, Versions!DeleteDocument,
       Proved!DeleteDocument, Versions!ReservationExpires, Proved!ReservationExpires,
       Versions!LeaseExpires, Proved!LeaseExpires, Versions!RecoverReservation,
       Proved!RecoverReservation, Versions!RecoverStale, Proved!RecoverStale,
       Versions!ReleaseReservationRow, Proved!ReleaseReservationRow,
       Versions!ReleaseDocumentRow, Proved!ReleaseDocumentRow, Versions!CleanupDeferred,
       Proved!CleanupDeferred, Versions!ChargedBytes, Proved!ChargedBytes,
       Versions!ProjectUploads, Proved!ProjectUploads, Versions!UserUploads,
       Proved!UserUploads, Versions!ChargedUnits, Proved!ChargedUnits, Versions!Physical,
       Proved!Physical, Versions!CommitFinalize, Proved!CommitFinalize,
       Versions!AbandonReservation, Proved!AbandonReservation, Versions!FailDocument,
       Proved!FailDocument, Versions!HoldsLock, Proved!HoldsLock, Versions!RenewOrLeave,
       Proved!RenewOrLeave, Versions!Owned, Proved!Owned, Versions!CommitIngest,
       Proved!CommitIngest, Versions!Transfer, Proved!Transfer, Versions!Running,
       Proved!Running, Versions!LiveDocs, Proved!LiveDocs, Versions!Reservations,
       Proved!Reservations, Versions!ResvRows, Proved!ResvRows, Versions!ChargedDocRows,
       Proved!ChargedDocRows, Versions!Cardinality, Proved!Cardinality, Versions!DocRows,
       Proved!DocRows, Versions!SameFile, Proved!SameFile, Versions!ReservationPath,
       Proved!ReservationPath, Versions!RowLocked, Proved!RowLocked, Versions!CleanupRow,
       Proved!CleanupRow

LEMMA VersionsGoal == Versions!VersionsConverge <=> Proved!VersionsConverge
BY DEF Versions!VersionsConverge, Proved!VersionsConverge, Versions!LiveDocs, Proved!LiveDocs,
       Versions!SameFile, Proved!SameFile

(* When every upload ran to its end, one version of each file is left, in whatever  *)
(* order the uploads of it were finalized and processed (ingestor.py:1083).           *)
THEOREM OneVersionIsLeft == Versions!Spec => []VersionsConverge
<1>1. Versions!Spec => Proved!Spec
  BY VersionsStart, VersionsStep, PTL DEF Versions!Spec, Proved!Spec
<1>2. VersionsConverge <=> Proved!VersionsConverge
  BY VersionsGoal DEF VersionsConverge
<1>3. QED BY <1>1, <1>2, VersionsSound, Proved!VersionsAlwaysConverge, PTL

-----------------------------------------------------------------------------
(* EvaluationPipeline: a seal that verifies is of a run the service answered, so what *)
(* is judged, graded and compared is that run; a contract is decided once, from the     *)
(* answer, and grading adds only the scores; and the files a command reads at its         *)
(* start are those it goes on with, whatever replaces them meanwhile.                       *)
(* What the files and the running command hold. *)
Reply == (UNION {Answers[q] : q \in DOMAIN Answers}) \cup {Eval!Unanswered}
QuestionItem == UNION {{Dataset[v][i] : i \in DOMAIN Dataset[v]} : v \in DOMAIN Dataset}
Config == [model : Nat, attempts : Nat]
RunRecord == [id : DOMAIN Answers, question : QuestionItem, model : Nat,
              answer : Reply, output : Reply]
Seal == (DOMAIN Dataset) \X Nat \X Config \X Seq(RunRecord)
RawRun == [questions : DOMAIN Dataset, manifest : Nat, config : Config,
           records : Seq(RunRecord), seal : Seal]
RunJob == [kind : {"run"}, label : Eval!Label, questions : DOMAIN Dataset, manifest : Nat,
           config : Config, records : Seq(RunRecord), tries : Nat, states : Seq(Nat),
           moved : BOOLEAN]
JudgeJob == [kind : {"judge"}, label : Eval!Label, run : RawRun, golden : DOMAIN Gold,
             judge : Nat]
Score == {<<>>} \cup {[m \in q.metrics |-> g[m]] : q \in QuestionItem, g \in Grades}
ScoredRecord == [id : DOMAIN Answers, question : QuestionItem, model : Nat, answer : Reply,
                 output : Reply, contract : BOOLEAN, ragas : Score]
ScoredRun == [questions : DOMAIN Dataset, manifest : Nat, config : Config,
              records : Seq(ScoredRecord), seal : Seal]
GradeJob == [kind : {"grade"}, label : Eval!Label, run : ScoredRun, golden : DOMAIN Gold,
             judge : Nat]
InputTypes == /\ questions \in DOMAIN Dataset /\ golden \in DOMAIN Gold
              /\ manifest \in Nat /\ settings \in [model : Nat, attempts : Nat, judge : Nat]
FileTypes == /\ raw \in [Eval!Label -> SUBSET RawRun] /\ scored \in [Eval!Label -> SUBSET GradeJob]
             /\ produced \subseteq [run : RawRun, states : Seq(Nat), moved : BOOLEAN]

(* Every record of a run is of the model the run is of; and its questions were answered in *)
(* the state it names, unless that was replaced meanwhile.                                  *)
OwnModel(run) == \A i \in DOMAIN run.records : run.records[i].model = run.config.model
InState(run, states, moved) ==
    moved \/ \A i \in DOMAIN run.records : states[i] = run.manifest
ProducedSound == \A p \in produced : OwnModel(p.run) /\ InState(p.run, p.states, p.moved)
RunSound == /\ OwnModel(command) /\ InState(command, command.states, command.moved)
            /\ command.moved \/ manifest = command.manifest
            /\ Len(command.states) = Len(command.records)
(* A seal is of a run the service answered. *)
SealsHold == \A l \in Eval!Label : \A run \in raw[l] :
                \E p \in produced : run.seal = Eval!Fingerprint(p.run)
(* A run is as it was answered, and of the questions it names. *)
Answered(run) ==
    /\ Eval!AsAnswered(run) /\ OwnModel(run)
    /\ DOMAIN run.records = DOMAIN Dataset[run.questions]
    /\ \A i \in DOMAIN run.records : run.records[i].question = Dataset[run.questions][i]
(* A passed contract rests on an answer with evidence of its own kind. *)
Evidenced(record, gold) ==
    \A source \in Eval!Range(gold.sources) :
        IF Eval!IsAttachment(source)
        THEN source \in Eval!RequestedAttachments(record.question) \cap record.answer.extracted
        ELSE /\ source \in Eval!Range(record.answer.projectSources)
             /\ record.answer.substantive /\ record.answer.contexts > 0
Earned(s) == \A i \in DOMAIN s.run.records :
                s.run.records[i].contract =>
                    /\ s.run.records[i].answer.status = 200
                    /\ Evidenced(s.run.records[i], Gold[s.golden][s.run.records[i].id])
JobSound == /\ command.kind = "run" => command \in RunJob /\ RunSound
            /\ command.kind = "judge" => command \in JudgeJob /\ Answered(command.run)
            /\ command.kind = "grade" => /\ command \in GradeJob
                                         /\ Answered(command.run) /\ Earned(command)
ScoredSound == \A l \in Eval!Label : \A s \in scored[l] :
                  Answered(s.run) /\ Earned(s) /\ Eval!CoverageComplete(s.run.records)
EvalInv == InputTypes /\ FileTypes /\ ProducedSound /\ SealsHold /\ JobSound /\ ScoredSound

(* What a passed contract says of the sources (score_contract). *)
LEMMA ContractEvidence ==
    ASSUME EvaluationAssumption, NEW record, record.answer \in Reply, NEW gold, NEW verdicts,
           Eval!ScoreContract(record.question, gold, record.answer, verdicts)
    PROVE  record.answer.status = 200 /\ Evidenced(record, gold)
<1> DEFINE answer == record.answer
<1>1. answer.status = 200
  BY DEF Eval!ScoreContract, Eval!ToolChecks
<1>2. answer.contexts \in Nat /\ answer.contextCount \in Nat
  <2>1. CASE answer = Eval!Unanswered
    BY <2>1 DEF Eval!Unanswered
  <2>2. CASE \E q \in DOMAIN Answers : answer \in Answers[q]
    <3>1. PICK q \in DOMAIN Answers : answer \in Answers[q]
      BY <2>2
    <3>2. \A x \in Answers[q] : x.contextCount \in Nat /\ x.contexts \in Nat
      BY <3>1 DEF EvaluationAssumption
    <3>3. QED BY <3>1, <3>2
  <2>3. QED BY <2>1, <2>2 DEF Reply
<1>3. /\ Eval!SourcesValid(gold, answer)
      /\ Eval!Range(gold.sources) \subseteq Eval!ProjectSources(gold, answer)
                                        \cup Eval!AttachmentSources(record.question, answer)
  BY DEF Eval!ScoreContract, Eval!SourceChecks
<1> SUFFICES ASSUME NEW source \in Eval!Range(gold.sources)
             PROVE  IF Eval!IsAttachment(source)
                    THEN source \in Eval!RequestedAttachments(record.question) \cap answer.extracted
                    ELSE /\ source \in Eval!Range(answer.projectSources)
                         /\ answer.substantive /\ answer.contexts > 0
  BY <1>1 DEF Evidenced
<1>4. CASE source \in Eval!ProjectSources(gold, answer)
  <2>1. Eval!ProjectEvidence(answer) /\ source \in Eval!Range(answer.projectSources)
    BY <1>4 DEF Eval!ProjectSources
  <2>2. ~Eval!IsAttachment(source)
    BY <1>3, <2>1 DEF Eval!SourcesValid, Eval!Range
  <2>3. answer.substantive /\ answer.contexts > 0
    BY <1>2, <2>1 DEF Eval!ProjectEvidence
  <2>4. QED BY <2>1, <2>2, <2>3
<1>5. CASE source \in Eval!AttachmentSources(record.question, answer)
  <2>1. source \in Eval!RequestedAttachments(record.question) \cap answer.extracted
    BY <1>5 DEF Eval!AttachmentSources
  <2>2. Eval!IsAttachment(source)
    <3>1. PICK i, k : source = <<"attachment", i, k>>
      BY <2>1 DEF Eval!RequestedAttachments
    <3>2. QED BY <3>1 DEF Eval!IsAttachment
  <2>3. QED BY <2>1, <2>2
<1>6. QED BY <1>3, <1>4, <1>5

(* Steps that write no file. *)
LEMMA AnsweredStays ==
    ASSUME NEW run, Answered(run), produced \subseteq produced'
    PROVE  Answered(run)'
BY DEF Answered, Eval!AsAnswered, Eval!Given, OwnModel

LEMMA FilesKept ==
    ASSUME EvalInv, UNCHANGED <<raw, scored, produced>>, InputTypes', JobSound'
    PROVE  EvalInv'
<1>1. ScoredSound'
  BY AnsweredStays DEF EvalInv, ScoredSound, Earned
<1>2. QED BY <1>1 DEF EvalInv, FileTypes, ProducedSound, OwnModel, InState, SealsHold,
                      Eval!Fingerprint

(* A command that ends, or goes on as it was. *)
LEMMA JobGone == ASSUME command' = Eval!Idle PROVE JobSound'
BY DEF JobSound, Eval!Idle

LEMMA JobStays ==
    ASSUME JobSound, UNCHANGED command, produced \subseteq produced',
           command.kind = "run" => RunSound'
    PROVE  JobSound'
BY AnsweredStays DEF JobSound, Earned

(* The question that is asked next is one of the file, and the service answers it. *)
LEMMA CurrentIsItem ==
    ASSUME EvaluationAssumption, command.questions \in DOMAIN Dataset,
           command.records \in Seq(RunRecord), Eval!HasNext
    PROVE  Eval!Current \in QuestionItem /\ Eval!Current.id \in DOMAIN Answers
<1>1. Len(command.records) \in Nat /\ Len(command.records) < Len(Dataset[command.questions])
  BY DEF Eval!HasNext
<1>2. Dataset[command.questions] \in Seq(QuestionItem)
  <2> DEFINE v == command.questions
             S == {Dataset[v][i] : i \in DOMAIN Dataset[v]}
  <2>1. Dataset[v] \in Seq(S)
    BY DEF EvaluationAssumption
  <2>2. S \subseteq QuestionItem
    BY DEF QuestionItem
  <2> HIDE DEF S
  <2>3. QED BY <2>1, <2>2
<1>3. Len(command.records) + 1 \in DOMAIN Dataset[command.questions]
  BY <1>1, <1>2
<1>4. Eval!Current \in QuestionItem
  BY <1>3 DEF Eval!Current, QuestionItem
<1>5. \A i \in DOMAIN Dataset[command.questions] :
         Dataset[command.questions][i].id \in DOMAIN Answers
  BY DEF EvaluationAssumption
<1>6. QED BY <1>3, <1>4, <1>5 DEF Eval!Current

(* Attempt, BeginRun: the records of a run are of its questions. *)
LEMMA RunGoesOn ==
    ASSUME EvaluationAssumption, EvalInv, Eval!Attempt
    PROVE  EvalInv'
<1>1. /\ command \in RunJob /\ RunSound /\ command.kind = "run" /\ Eval!HasNext
      /\ UNCHANGED <<Eval!inputs, raw, scored, produced>>
  BY DEF Eval!Attempt, EvalInv, JobSound
<1>2. CASE command' = [command EXCEPT !.tries = @ + 1]
  <2>1. command' \in RunJob
    <3>1. PICK n \in Nat : n = command.tries
      BY <1>1 DEF RunJob
    <3>2. command' = [command EXCEPT !.tries = n + 1] /\ n + 1 \in Nat
      BY <1>2, <3>1
    <3>3. QED BY <1>1, <3>2 DEF RunJob
  <2>2. RunSound'
    BY <1>1, <1>2 DEF RunJob, RunSound, OwnModel, InState, Eval!inputs
  <2>3. QED BY <1>1, <2>1, <2>2, FilesKept DEF JobSound, RunJob, EvalInv, InputTypes, Eval!inputs
<1>3. CASE \E answer \in Reply : Eval!Keep(answer)
  <2>1. PICK answer \in Reply : Eval!Keep(answer)
    BY <1>3
  <2> DEFINE record == Eval!Record(Eval!Current, answer)
             records == Append(command.records, record)
             states == Append(command.states, manifest)
  <2>2. record \in RunRecord /\ record.model = command.config.model
    <3>1. command.questions \in DOMAIN Dataset /\ command.records \in Seq(RunRecord)
          /\ command.config.model \in Nat
      BY <1>1 DEF RunJob, Config
    <3>2. Eval!Current \in QuestionItem /\ Eval!Current.id \in DOMAIN Answers
      BY <1>1, <3>1, CurrentIsItem
    <3>3. QED BY <2>1, <3>1, <3>2 DEF Eval!Record, RunRecord
  <2> HIDE DEF record
  <2>3. /\ command.records \in Seq(RunRecord) /\ command.states \in Seq(Nat)
        /\ Len(command.states) = Len(command.records) /\ manifest \in Nat
    BY <1>1 DEF RunJob, RunSound, EvalInv, InputTypes
  <2>4. /\ records \in Seq(RunRecord) /\ states \in Seq(Nat) /\ Len(states) = Len(records)
        /\ \A i \in DOMAIN records :
              \/ i \in DOMAIN command.records /\ records[i] = command.records[i]
                                             /\ states[i] = command.states[i]
              \/ records[i] = record /\ states[i] = manifest
    BY <2>2, <2>3
  <2>5. command' = [command EXCEPT !.records = records, !.states = states, !.tries = 0]
    BY <2>1 DEF Eval!Keep, record
  <2> HIDE DEF records, states
  <2>6. command' \in RunJob
    BY <1>1, <2>4, <2>5 DEF RunJob
  <2>7. /\ command'.records = records /\ command'.states = states
        /\ command'.config = command.config /\ command'.manifest = command.manifest
        /\ command'.moved = command.moved /\ manifest' = manifest
    BY <1>1, <2>5 DEF RunJob, Eval!inputs
  <2>8. OwnModel(command)' /\ InState(command, command.states, command.moved)'
    BY <1>1, <2>2, <2>4, <2>7 DEF RunSound, OwnModel, InState
  <2>9. RunSound'
    BY <1>1, <2>4, <2>7, <2>8 DEF RunSound
  <2>10. QED BY <1>1, <2>6, <2>9, FilesKept DEF JobSound, RunJob, EvalInv, InputTypes, Eval!inputs
<1>4. \A answer : answer \in Answers[Eval!Current.id] \/ answer = Eval!Unanswered
                  => answer \in Reply
  <2>1. Eval!Current.id \in DOMAIN Answers
    BY <1>1, CurrentIsItem DEF RunJob
  <2>2. QED BY <2>1 DEF Reply
<1>5. QED BY <1>2, <1>3, <1>4 DEF Eval!Attempt

LEMMA RunBegins ==
    ASSUME EvalInv, NEW l \in Eval!Label, Eval!BeginRun(l)
    PROVE  EvalInv'
<1>1. UNCHANGED <<Eval!inputs, raw, scored, produced>>
  BY DEF Eval!BeginRun
<1>2. command' \in RunJob /\ command'.kind = "run"
  <2>1. /\ command' = [kind |-> "run", label |-> l, questions |-> questions,
                       manifest |-> manifest,
                       config |-> [model |-> settings.model, attempts |-> settings.attempts],
                       records |-> <<>>, tries |-> 0, states |-> <<>>, moved |-> FALSE]
        /\ questions \in DOMAIN Dataset /\ manifest \in Nat
    BY DEF Eval!BeginRun, Eval!Start, EvalInv, InputTypes
  <2>2. [model |-> settings.model, attempts |-> settings.attempts] \in Config
    BY DEF EvalInv, InputTypes, Config
  <2>3. QED BY <2>1, <2>2 DEF RunJob
<1>s. RunSound'
  BY DEF Eval!BeginRun, Eval!Start, Eval!inputs, RunSound, OwnModel, InState
<1>3. QED BY <1>1, <1>2, <1>s, FilesKept DEF JobSound, EvalInv, InputTypes, Eval!inputs

(* A run that ends is sealed, and is one the service answered. *)
LEMMA RunEnds ==
    ASSUME EvalInv, Eval!EndRun
    PROVE  EvalInv'
<1> DEFINE run == [questions |-> command.questions, manifest |-> command.manifest,
                   config |-> command.config,
                   records |-> command.records, seal |-> Eval!Fingerprint(command)]
           made == [run |-> run, states |-> command.states, moved |-> command.moved]
<1>1. /\ command.kind = "run" /\ raw' = [raw EXCEPT ![command.label] = {run}]
      /\ produced' = produced \cup {made} /\ command' = Eval!Idle
      /\ UNCHANGED <<Eval!inputs, scored>>
  BY DEF Eval!EndRun
<1>2. command \in RunJob /\ RunSound
  BY <1>1 DEF EvalInv, JobSound
<1>3. run \in RawRun /\ run.seal = Eval!Fingerprint(run) /\ command.label \in Eval!Label
  BY <1>2 DEF RunJob, RawRun, Seal, Eval!Fingerprint
<1>m. OwnModel(run) /\ InState(run, command.states, command.moved)
  BY <1>2 DEF RunSound, OwnModel, InState
<1> HIDE DEF run
<1>p. /\ made \in [run : RawRun, states : Seq(Nat), moved : BOOLEAN] /\ made.run = run
      /\ OwnModel(made.run) /\ InState(made.run, made.states, made.moved)
  BY <1>2, <1>3, <1>m DEF RunJob
<1> HIDE DEF made
<1>q. ProducedSound'
  BY <1>1, <1>p DEF EvalInv, ProducedSound, OwnModel, InState
<1>4. FileTypes' /\ InputTypes'
  BY <1>1, <1>3, <1>p DEF EvalInv, FileTypes, InputTypes, Eval!inputs
<1>5. SealsHold'
  <2>1. SUFFICES ASSUME NEW l \in Eval!Label, NEW r \in raw'[l]
                 PROVE  \E p \in produced' : r.seal = Eval!Fingerprint(p.run)
    BY DEF SealsHold, Eval!Fingerprint
  <2>2. CASE l = command.label
    <3>1. r = run
      BY <1>1, <2>1, <2>2 DEF EvalInv, FileTypes
    <3>2. QED BY <1>1, <1>3, <1>p, <3>1
  <2>3. CASE l # command.label
    <3>1. r \in raw[l]
      BY <1>1, <2>1, <2>3 DEF EvalInv, FileTypes
    <3>2. PICK p \in produced : r.seal = Eval!Fingerprint(p.run)
      BY <3>1 DEF EvalInv, SealsHold
    <3>3. QED BY <1>1, <3>2
  <2>4. QED BY <2>2, <2>3
<1>6. produced \subseteq produced'
  BY <1>1
<1>7. ScoredSound'
  BY <1>1, <1>6, AnsweredStays DEF EvalInv, ScoredSound, Earned
<1>8. QED BY <1>1, <1>4, <1>5, <1>7, <1>q, JobGone DEF EvalInv

(* A raw run that is verified is one of those the service answered. *)
LEMMA ScoreBegins ==
    ASSUME EvalInv, NEW l \in Eval!Label, Eval!BeginScore(l)
    PROVE  EvalInv'
<1>1. PICK run \in raw[l] :
        /\ Eval!VerifyRawRun(run, questions)
        /\ command' = [kind |-> "judge", label |-> l, run |-> run, golden |-> golden,
                   judge |-> settings.judge]
        /\ UNCHANGED <<Eval!inputs, raw, scored, produced>>
  BY DEF Eval!BeginScore, Eval!Start
<1>2. run \in RawRun
  BY DEF EvalInv, FileTypes
<1>3. PICK p \in produced : run.seal = Eval!Fingerprint(p.run)
  BY DEF EvalInv, SealsHold
<1>4. /\ p.run.questions = run.questions /\ p.run.manifest = run.manifest
      /\ p.run.config = run.config /\ p.run.records = run.records
  BY <1>1, <1>3 DEF Eval!VerifyRawRun, Eval!Fingerprint
<1>o. OwnModel(p.run) /\ InState(p.run, p.states, p.moved)
  BY <1>3 DEF EvalInv, ProducedSound
<1>5. Eval!AsAnswered(run) /\ OwnModel(run)
  <2>1. Eval!Given(p.run) = Eval!Given(run)
    BY <1>4 DEF Eval!Given
  <2>2. p.moved \/ \A i \in DOMAIN run.records : p.states[i] = run.manifest
    BY <1>4, <1>o DEF InState
  <2>3. QED BY <1>3, <1>4, <1>o, <2>1, <2>2 DEF Eval!AsAnswered, OwnModel
<1>6. /\ DOMAIN run.records = DOMAIN Dataset[run.questions]
      /\ \A i \in DOMAIN run.records : run.records[i].question = Dataset[run.questions][i]
  <2> DEFINE ids(s) == [i \in DOMAIN s |-> s[i].id]
  <2>1. /\ run.questions = questions
        /\ ids(run.records) = ids(Dataset[questions])
        /\ \A i \in DOMAIN Dataset[questions] : run.records[i].question = Dataset[questions][i]
    BY <1>1 DEF Eval!VerifyRawRun, Eval!SameQuestions
  <2>2. DOMAIN ids(run.records) = DOMAIN run.records
        /\ DOMAIN ids(Dataset[questions]) = DOMAIN Dataset[questions]
    OBVIOUS
  <2> HIDE DEF ids
  <2>3. QED BY <2>1, <2>2
<1>7. Answered(run)
  BY <1>5, <1>6 DEF Answered
<1>8. command' \in JudgeJob /\ command'.kind = "judge" /\ command'.run = run
  BY <1>1, <1>2 DEF JudgeJob, EvalInv, InputTypes
<1>9. Answered(command.run)'
  <2>1. Answered(run)'
    BY <1>1, <1>7, AnsweredStays
  <2>2. QED BY <1>8, <2>1 DEF Answered, Eval!AsAnswered, Eval!Given, OwnModel
<1>10. JobSound'
  BY <1>8, <1>9 DEF JobSound
<1>11. QED BY <1>1, <1>10, FilesKept DEF EvalInv, InputTypes, Eval!inputs

(* Records that are judged or graded stay those of the run. *)
LEMMA RecordsOfRun ==
    ASSUME NEW run, NEW other, Answered(run),
           other.questions = run.questions, other.manifest = run.manifest,
           other.config = run.config, DOMAIN other.records = DOMAIN run.records,
           \A i \in DOMAIN run.records : /\ other.records[i].answer = run.records[i].answer
                                         /\ other.records[i].model = run.records[i].model
                                         /\ other.records[i].question = run.records[i].question
    PROVE  Answered(other)
<1>1. Eval!Given(other) = Eval!Given(run)
  BY DEF Eval!Given
<1>2. Eval!AsAnswered(other)
  BY <1>1 DEF Answered, Eval!AsAnswered
<1>3. QED BY <1>2 DEF Answered, OwnModel

LEMMA AnswersJudged ==
    ASSUME EvaluationAssumption, EvalInv, Eval!JudgeAnswers
    PROVE  EvalInv'
<1> DEFINE run == command.run
           gold(i) == Gold[command.golden][run.records[i].id]
<1>1. /\ command.kind = "judge" /\ command \in JudgeJob /\ Answered(run)
      /\ UNCHANGED <<Eval!inputs, raw, scored, produced>>
  BY DEF Eval!JudgeAnswers, EvalInv, JobSound
<1>2. PICK v :
        command' = [command EXCEPT
                   !.kind = "grade",
                   !.run.records = [i \in DOMAIN @ |->
                       Eval!Judged(@[i].question, gold(i), @[i], v[i])]]
  BY DEF Eval!JudgeAnswers
<1> DEFINE R == [i \in DOMAIN run.records |->
                    Eval!Judged(run.records[i].question, gold(i), run.records[i], v[i])]
<1>3. /\ command'.kind = "grade" /\ command'.label = command.label
      /\ command'.golden = command.golden
      /\ command'.judge = command.judge /\ command'.run = [run EXCEPT !.records = R]
      /\ command' = [command EXCEPT !.kind = "grade", !.run = [run EXCEPT !.records = R]]
  BY <1>1, <1>2 DEF JudgeJob
<1>4. /\ run \in RawRun /\ command.label \in Eval!Label /\ command.golden \in DOMAIN Gold
      /\ command.judge \in Nat
  BY <1>1 DEF JudgeJob
<1>5. run.records \in Seq(RunRecord)
  BY <1>4 DEF RawRun
<1>6. \A i \in DOMAIN run.records :
        /\ run.records[i] \in RunRecord
        /\ R[i] \in ScoredRecord
        /\ R[i].answer = run.records[i].answer /\ R[i].question = run.records[i].question
        /\ R[i].model = run.records[i].model
        /\ R[i].contract => /\ R[i].answer.status = 200
                            /\ Evidenced(R[i], Gold[command.golden][R[i].id])
  <2> SUFFICES ASSUME NEW i \in DOMAIN run.records
               PROVE  /\ run.records[i] \in RunRecord
                      /\ R[i] \in ScoredRecord
                      /\ R[i].answer = run.records[i].answer
                      /\ R[i].question = run.records[i].question
                      /\ R[i].model = run.records[i].model
                      /\ R[i].contract => R[i].answer.status = 200
                                          /\ Evidenced(R[i], Gold[command.golden][R[i].id])
    OBVIOUS
  <2> DEFINE record == run.records[i]
             passed == Eval!ScoreContract(record.question, gold(i), record.answer, v[i])
  <2>1. record \in RunRecord
    BY <1>5
  <2>2. R[i] = [id |-> record.id, question |-> record.question, model |-> record.model,
                answer |-> record.answer, output |-> record.output, contract |-> passed, ragas |-> <<>>]
    BY DEF Eval!Judged
  <2>3. passed \in BOOLEAN
    BY DEF Eval!ScoreContract
  <2> HIDE DEF R, passed
  <2>4. R[i] \in ScoredRecord
    BY <2>1, <2>2, <2>3 DEF RunRecord, ScoredRecord, Score
  <2>5. ASSUME passed
        PROVE  R[i].answer.status = 200 /\ Evidenced(R[i], Gold[command.golden][R[i].id])
    <3>1. record.answer \in Reply
      BY <2>1 DEF RunRecord
    <3>2. record.answer.status = 200 /\ Evidenced(record, gold(i))
      <4>1. PICK rec, g, w : rec = record /\ g = gold(i) /\ w = v[i]
        OBVIOUS
      <4>2. Eval!ScoreContract(rec.question, g, rec.answer, w) /\ rec.answer \in Reply
        BY <2>5, <3>1, <4>1 DEF passed
      <4>3. rec.answer.status = 200 /\ Evidenced(rec, g)
        BY <4>2, ContractEvidence
      <4>4. QED BY <4>1, <4>3
    <3>3. QED BY <2>2, <3>2 DEF Evidenced
  <2>6. QED BY <2>1, <2>2, <2>4, <2>5
<1>7. R \in Seq(ScoredRecord) /\ DOMAIN R = DOMAIN run.records
  <2>1. PICK n \in Nat : n = Len(run.records)
    BY <1>5
  <2>2. DOMAIN run.records = 1..n
    BY <1>5, <2>1
  <2>3. R \in [1..n -> ScoredRecord]
    BY <1>6, <2>2
  <2> HIDE DEF R
  <2>4. QED BY <2>2, <2>3
<1> HIDE DEF R
<1>8. command'.run \in ScoredRun /\ command' \in GradeJob
  <2>1. [run EXCEPT !.records = R] \in ScoredRun
    BY <1>4, <1>7 DEF RawRun, ScoredRun
  <2>2. QED BY <1>1, <1>3, <1>4, <2>1 DEF JudgeJob, GradeJob
<1>9. /\ command'.run.records = R /\ command'.run.questions = run.questions
      /\ command'.run.manifest = run.manifest /\ command'.run.config = run.config
  BY <1>3, <1>4 DEF RawRun
<1>10. Answered(command.run)'
  <2>1. PICK other : other = command'.run
    OBVIOUS
  <2>2. Answered(other)
    BY <1>1, <1>6, <1>7, <1>9, <2>1, RecordsOfRun
  <2>3. QED BY <1>1, <2>1, <2>2 DEF Answered, Eval!AsAnswered, Eval!Given, OwnModel
<1>11. Earned(command)'
  BY <1>3, <1>6, <1>7, <1>9 DEF Earned, Evidenced
<1>12. JobSound'
  BY <1>3, <1>8, <1>10, <1>11 DEF JobSound
<1>13. QED BY <1>1, <1>12, FilesKept DEF EvalInv, InputTypes, Eval!inputs

LEMMA RecordGraded ==
    ASSUME EvalInv, Eval!Grade
    PROVE  EvalInv'
<1>1. /\ command.kind = "grade" /\ command \in GradeJob /\ Answered(command.run) /\ Earned(command)
      /\ UNCHANGED <<Eval!inputs, raw, scored, produced>>
  BY DEF Eval!Grade, EvalInv, JobSound
<1> DEFINE run == command.run
<1>2. PICK i : \E g \in Grades :
        command' = [command EXCEPT !.run.records[i].ragas =
                   [m \in command.run.records[i].question.metrics |-> g[m]]]
  BY DEF Eval!Grade
<1>g. PICK g \in Grades :
        command' = [command EXCEPT !.run.records[i].ragas =
                   [m \in command.run.records[i].question.metrics |-> g[m]]]
  BY <1>2
<1> DEFINE scores == [m \in run.records[i].question.metrics |-> g[m]]
           R == [run.records EXCEPT ![i] = [run.records[i] EXCEPT !.ragas = scores]]
<1>3. /\ run \in ScoredRun /\ command.label \in Eval!Label /\ command.golden \in DOMAIN Gold
      /\ command.judge \in Nat
  BY <1>1 DEF GradeJob
<1>4. command' = [command EXCEPT !.run = [run EXCEPT !.records = R]]
  BY <1>1, <1>g, <1>3
<1>5. run.records \in Seq(ScoredRecord)
  BY <1>3 DEF ScoredRun
<1>6. \A k \in DOMAIN run.records :
        /\ R[k] \in ScoredRecord
        /\ R[k].answer = run.records[k].answer /\ R[k].question = run.records[k].question
        /\ R[k].id = run.records[k].id /\ R[k].contract = run.records[k].contract
        /\ R[k].model = run.records[k].model
  <2> SUFFICES ASSUME NEW k \in DOMAIN run.records
               PROVE  /\ R[k] \in ScoredRecord
                      /\ R[k].answer = run.records[k].answer
                      /\ R[k].question = run.records[k].question
                      /\ R[k].id = run.records[k].id /\ R[k].contract = run.records[k].contract
                      /\ R[k].model = run.records[k].model
    OBVIOUS
  <2>1. run.records[k] \in ScoredRecord
    BY <1>5
  <2>2. CASE k = i
    <3>1. R[k] = [run.records[k] EXCEPT !.ragas = scores]
      BY <2>2
    <3>2. scores \in Score
      BY <2>1, <2>2 DEF ScoredRecord, Score
    <3> HIDE DEF R, scores
    <3>3. QED BY <2>1, <3>1, <3>2 DEF ScoredRecord
  <2>3. CASE k # i
    <3>1. R[k] = run.records[k]
      BY <2>3
    <3> HIDE DEF R
    <3>2. QED BY <2>1, <3>1
  <2>4. QED BY <2>2, <2>3
<1>7. R \in Seq(ScoredRecord) /\ DOMAIN R = DOMAIN run.records
  <2>1. PICK n \in Nat : n = Len(run.records)
    BY <1>5
  <2>2. DOMAIN run.records = 1..n /\ DOMAIN R = 1..n
    BY <1>5, <2>1
  <2>3. R \in [1..n -> ScoredRecord]
    <3>1. R = [k \in 1..n |-> R[k]]
      BY <2>2
    <3> HIDE DEF R
    <3>2. QED BY <1>6, <2>2, <3>1
  <2> HIDE DEF R
  <2>4. QED BY <2>2, <2>3
<1> HIDE DEF R, scores
<1>8. /\ command'.run = [run EXCEPT !.records = R] /\ command'.kind = "grade"
      /\ command'.golden = command.golden
  BY <1>1, <1>4 DEF GradeJob
<1>9. command' \in GradeJob
  <2>1. [run EXCEPT !.records = R] \in ScoredRun
    BY <1>3, <1>7 DEF ScoredRun
  <2>2. QED BY <1>1, <1>4, <2>1 DEF GradeJob
<1>10. /\ command'.run.records = R /\ command'.run.questions = run.questions
       /\ command'.run.manifest = run.manifest /\ command'.run.config = run.config
  BY <1>3, <1>8 DEF ScoredRun
<1>11. Answered(command.run)'
  <2>1. PICK other : other = command'.run
    OBVIOUS
  <2>2. Answered(other)
    BY <1>1, <1>6, <1>7, <1>10, <2>1, RecordsOfRun
  <2>3. QED BY <1>1, <2>1, <2>2 DEF Answered, Eval!AsAnswered, Eval!Given, OwnModel
<1>12. Earned(command)'
  <2>1. SUFFICES ASSUME NEW k \in DOMAIN R, R[k].contract
                 PROVE  R[k].answer.status = 200 /\ Evidenced(R[k], Gold[command.golden][R[k].id])
    BY <1>8, <1>10 DEF Earned, Evidenced
  <2>2. /\ run.records[k].answer.status = 200
        /\ Evidenced(run.records[k], Gold[command.golden][run.records[k].id])
    BY <1>1, <1>6, <1>7, <2>1 DEF Earned
  <2>3. QED BY <1>6, <1>7, <2>1, <2>2 DEF Evidenced
<1>13. JobSound'
  BY <1>8, <1>9, <1>11, <1>12 DEF JobSound
<1>14. QED BY <1>1, <1>13, FilesKept DEF EvalInv, InputTypes, Eval!inputs

LEMMA ScoreEnds ==
    ASSUME EvalInv, Eval!EndScore
    PROVE  EvalInv'
<1>1. /\ command.kind = "grade" /\ command \in GradeJob /\ Answered(command.run) /\ Earned(command)
      /\ Eval!CoverageComplete(command.run.records)
      /\ scored' = [scored EXCEPT ![command.label] = {command}] /\ command' = Eval!Idle
      /\ UNCHANGED <<Eval!inputs, raw, produced>>
  BY DEF Eval!EndScore, EvalInv, JobSound
<1>2. command.label \in Eval!Label
  BY <1>1 DEF GradeJob
<1>3. \A l \in Eval!Label : \A s \in scored'[l] : s = command \/ s \in scored[l]
  BY <1>1 DEF EvalInv, FileTypes
<1>4. FileTypes' /\ SealsHold' /\ ProducedSound'
  BY <1>1, <1>2 DEF EvalInv, FileTypes, SealsHold, ProducedSound, OwnModel, InState,
                    Eval!Fingerprint
<1>5. ScoredSound'
  <2>1. SUFFICES ASSUME NEW l \in Eval!Label, NEW s \in scored'[l]
                 PROVE  Answered(s.run)' /\ Earned(s) /\ Eval!CoverageComplete(s.run.records)
    BY DEF ScoredSound, Earned, Eval!CoverageComplete, Eval!Coverage, Evidenced
  <2>2. Answered(s.run) /\ Earned(s) /\ Eval!CoverageComplete(s.run.records)
    BY <1>1, <1>3 DEF EvalInv, ScoredSound
  <2>3. QED BY <1>1, <2>2, AnsweredStays
<1>6. QED BY <1>1, <1>4, <1>5, JobGone DEF EvalInv, InputTypes, Eval!inputs

(* People change the inputs, or an answer of a raw run: its seal then holds no more. *)
LEMMA InputsChange ==
    ASSUME EvalInv, Eval!EditQuestions \/ Eval!EditGolden \/ Eval!EditSettings
    PROVE  EvalInv'
<1>1. UNCHANGED <<raw, scored, command, produced, manifest>>
  BY DEF Eval!EditQuestions, Eval!EditGolden, Eval!EditSettings
<1>2. InputTypes'
  BY DEF Eval!EditQuestions, Eval!EditGolden, Eval!EditSettings, EvalInv, InputTypes
<1>3. command.kind = "run" => RunSound'
  BY <1>1 DEF EvalInv, JobSound, RunSound, OwnModel, InState
<1>4. QED BY <1>1, <1>2, <1>3, JobStays, FilesKept DEF EvalInv

(* The state is prepared anew: a run that goes on is told by its history. *)
LEMMA StatePrepared ==
    ASSUME EvalInv, Eval!Prepare
    PROVE  EvalInv'
<1>1. /\ UNCHANGED <<raw, scored, produced>> /\ InputTypes'
  BY DEF Eval!Prepare, EvalInv, InputTypes
<1>2. CASE command.kind = "run"
  <2>1. command' = [command EXCEPT !.moved = TRUE] /\ command \in RunJob /\ RunSound
    BY <1>2 DEF Eval!Prepare, EvalInv, JobSound
  <2>2. command' \in RunJob /\ command'.kind = "run" /\ RunSound'
    BY <2>1 DEF RunJob, RunSound, OwnModel, InState
  <2>3. QED BY <1>1, <2>2, FilesKept DEF JobSound
<1>3. CASE command.kind # "run"
  BY <1>1, <1>3, JobStays, FilesKept DEF Eval!Prepare, EvalInv
<1>4. QED BY <1>2, <1>3

LEMMA RawReplaced ==
    ASSUME EvalInv, NEW l \in Eval!Label, NEW run \in raw[l], NEW edited \in RawRun,
           edited.seal = run.seal, raw' = [raw EXCEPT ![l] = {edited}],
           UNCHANGED <<Eval!inputs, scored, command, produced>>
    PROVE  EvalInv'
<1>1. FileTypes' /\ InputTypes' /\ ProducedSound'
  BY DEF EvalInv, FileTypes, InputTypes, Eval!inputs, ProducedSound, OwnModel, InState
<1>2. SealsHold'
  <2>1. SUFFICES ASSUME NEW k \in Eval!Label, NEW r \in raw'[k]
                 PROVE  \E p \in produced : r.seal = Eval!Fingerprint(p.run)
    BY DEF SealsHold, Eval!Fingerprint
  <2>2. (r = edited /\ k = l) \/ r \in raw[k]
    BY <2>1 DEF EvalInv, FileTypes
  <2>3. QED BY <2>2 DEF EvalInv, SealsHold
<1>3. JobSound'
  <2>1. command.kind = "run" => RunSound'
    BY DEF EvalInv, JobSound, RunSound, OwnModel, InState, Eval!inputs
  <2>2. QED BY <2>1, JobStays DEF EvalInv
<1>4. ScoredSound'
  BY AnsweredStays DEF EvalInv, ScoredSound, Earned
<1>5. QED BY <1>1, <1>2, <1>3, <1>4 DEF EvalInv

LEMMA RawEdited ==
    ASSUME EvaluationAssumption, EvalInv, NEW l \in Eval!Label, Eval!EditRaw(l)
    PROVE  EvalInv'
<1>r. PICK run \in raw[l] : \E i \in DOMAIN run.records :
        \/ \E answer \in Answers[run.records[i].id] :
              raw' = [raw EXCEPT ![l] = {[run EXCEPT !.records[i].answer = answer]}]
        \/ \E f \in {"model", "attempts"} :
              raw' = [raw EXCEPT ![l] = {[run EXCEPT !.config[f] = @ + 1]}]
  BY DEF Eval!EditRaw
<1>1. PICK i \in DOMAIN run.records :
        \/ \E answer \in Answers[run.records[i].id] :
              raw' = [raw EXCEPT ![l] = {[run EXCEPT !.records[i].answer = answer]}]
        \/ \E f \in {"model", "attempts"} :
              raw' = [raw EXCEPT ![l] = {[run EXCEPT !.config[f] = @ + 1]}]
  BY <1>r
<1>2. UNCHANGED <<Eval!inputs, scored, command, produced>>
  BY DEF Eval!EditRaw
<1>3. run \in RawRun /\ run \in raw[l]
  BY DEF EvalInv, FileTypes
<1>4. CASE \E answer \in Answers[run.records[i].id] :
             raw' = [raw EXCEPT ![l] = {[run EXCEPT !.records[i].answer = answer]}]
  <2>1. PICK answer \in Answers[run.records[i].id] :
          raw' = [raw EXCEPT ![l] = {[run EXCEPT !.records[i].answer = answer]}]
    BY <1>4
  <2> DEFINE R == [run.records EXCEPT ![i] = [run.records[i] EXCEPT !.answer = answer]]
             edited == [run EXCEPT !.records = R]
  <2>2. raw' = [raw EXCEPT ![l] = {edited}]
    BY <2>1
  <2>3. run.records \in Seq(RunRecord) /\ i \in DOMAIN run.records /\ run.records[i] \in RunRecord
    BY <1>1, <1>3 DEF RawRun
  <2>4. R \in Seq(RunRecord)
    <3>1. answer \in Reply
      BY <2>1, <2>3 DEF Reply, RunRecord
    <3>2. [run.records[i] EXCEPT !.answer = answer] \in RunRecord
      BY <2>3, <3>1 DEF RunRecord
    <3>3. QED BY <2>3, <3>2
  <2> HIDE DEF R
  <2>5. edited \in RawRun /\ edited.seal = run.seal
    BY <1>3, <2>4 DEF RawRun
  <2> HIDE DEF edited
  <2>6. QED BY <1>2, <1>3, <2>2, <2>5, RawReplaced
<1>5. CASE \E f \in {"model", "attempts"} :
             raw' = [raw EXCEPT ![l] = {[run EXCEPT !.config[f] = @ + 1]}]
  <2>1. PICK f \in {"model", "attempts"} :
          raw' = [raw EXCEPT ![l] = {[run EXCEPT !.config[f] = @ + 1]}]
    BY <1>5
  <2> DEFINE config == [run.config EXCEPT ![f] = @ + 1]
             edited == [run EXCEPT !.config = config]
  <2>2. raw' = [raw EXCEPT ![l] = {edited}]
    BY <2>1
  <2>3. config \in Config
    BY <1>3, <2>1 DEF RawRun, Config
  <2> HIDE DEF config
  <2>4. edited \in RawRun /\ edited.seal = run.seal
    BY <1>3, <2>3 DEF RawRun
  <2> HIDE DEF edited
  <2>5. QED BY <1>2, <1>3, <2>2, <2>4, RawReplaced
<1>6. QED BY <1>1, <1>4, <1>5

LEMMA EvalInit == ASSUME EvaluationAssumption, Eval!Init PROVE EvalInv
<1>1. InputTypes /\ FileTypes
  BY DEF Eval!Init, EvaluationAssumption, InputTypes, FileTypes
<1>2. SealsHold /\ ScoredSound /\ ProducedSound
  BY DEF Eval!Init, SealsHold, ScoredSound, ProducedSound
<1>3. JobSound
  BY DEF Eval!Init, JobSound, Eval!Idle
<1>4. QED BY <1>1, <1>2, <1>3 DEF EvalInv

LEMMA EvalStep ==
    ASSUME EvaluationAssumption, EvalInv, [Eval!Next]_(Eval!vars)
    PROVE  EvalInv'
<1>1. ASSUME NEW l \in Eval!Label, Eval!BeginRun(l) PROVE EvalInv'
  BY <1>1, RunBegins
<1>2. ASSUME NEW l \in Eval!Label, Eval!BeginScore(l) PROVE EvalInv'
  BY <1>2, ScoreBegins
<1>3. ASSUME NEW l \in Eval!Label, Eval!EditRaw(l) PROVE EvalInv'
  BY <1>3, RawEdited
<1>4. CASE Eval!Attempt
  BY <1>4, RunGoesOn
<1>5. CASE Eval!EndRun
  BY <1>5, RunEnds
<1>6. CASE Eval!JudgeAnswers
  BY <1>6, AnswersJudged
<1>7. CASE Eval!Grade
  BY <1>7, RecordGraded
<1>8. CASE Eval!EndScore
  BY <1>8, ScoreEnds
<1>9. CASE Eval!Fails
  <2>1. UNCHANGED <<Eval!inputs, raw, scored, produced>> /\ command' = Eval!Idle
    BY <1>9 DEF Eval!Fails
  <2>2. QED BY <2>1, JobGone, FilesKept DEF EvalInv, InputTypes, Eval!inputs
<1>10. CASE Eval!EditQuestions \/ Eval!EditGolden \/ Eval!EditSettings
  BY <1>10, InputsChange
<1>p. CASE Eval!Prepare
  BY <1>p, StatePrepared
<1>11. CASE UNCHANGED Eval!vars
  <2>1. UNCHANGED <<Eval!inputs, raw, scored, command, produced>>
    BY <1>11 DEF Eval!vars
  <2>s. command.kind = "run" => RunSound'
    BY <2>1 DEF EvalInv, JobSound, RunSound, OwnModel, InState, Eval!inputs
  <2>2. QED BY <2>1, <2>s, JobStays, FilesKept DEF EvalInv, InputTypes, Eval!inputs
<1>12. QED
  BY <1>1, <1>2, <1>3, <1>4, <1>5, <1>6, <1>7, <1>8, <1>9, <1>10, <1>11, <1>p
  DEF Eval!Next

LEMMA EvidenceForPass == ASSUME EvalInv PROVE Eval!PassIsDeserved
BY DEF EvalInv, ScoredSound, Earned, Evidenced, Eval!PassIsDeserved

LEMMA ReportOfPair == ASSUME EvalInv PROVE Eval!ReportsPair
<1> SUFFICES ASSUME NEW r \in Eval!Reports, r.passed
             PROVE  LET before == r.before.run
                        after == r.after.run
                    IN  /\ Eval!AsAnswered(before) /\ Eval!AsAnswered(after)
                        /\ before.questions = after.questions /\ before.manifest = after.manifest
                        /\ before.config = after.config
                        /\ r.before.golden = r.after.golden /\ r.before.judge = r.after.judge
                        /\ \A run \in {before, after} :
                              /\ DOMAIN run.records = DOMAIN Dataset[after.questions]
                              /\ \A i \in DOMAIN run.records :
                                    /\ run.records[i].question = Dataset[after.questions][i]
                                    /\ run.records[i].model = run.config.model
                                    /\ DOMAIN run.records[i].ragas
                                          = Dataset[after.questions][i].metrics
                        /\ \A i \in DOMAIN after.records : after.records[i].answer.status = 200
  BY DEF Eval!ReportsPair
<1>1. PICK b \in scored["baseline"], c \in scored["candidate"] : r \in Eval!CompareRuns(b, c)
  BY DEF Eval!Reports
<1>2. /\ Eval!Comparable(b, c) /\ r.before = b /\ r.after = c
      /\ Eval!Passed(b.run.records, c.run.records)
  BY <1>1 DEF Eval!CompareRuns
<1>3. \A s \in {b, c} : Answered(s.run) /\ Earned(s) /\ Eval!CoverageComplete(s.run.records)
  BY <1>1 DEF EvalInv, ScoredSound, Eval!Label
<1>4. /\ b.run.questions = c.run.questions /\ b.golden = c.golden
      /\ b.run.manifest = c.run.manifest /\ b.judge = c.judge
      /\ b.run.config = c.run.config
  BY <1>2 DEF Eval!Comparable
<1>5. \A i \in DOMAIN c.run.records : c.run.records[i].contract
  BY <1>2 DEF Eval!Passed
<1>6. \A i \in DOMAIN c.run.records : c.run.records[i].answer.status = 200
  BY <1>3, <1>5 DEF Earned
<1>7. \A s \in {b, c} :
        /\ Eval!AsAnswered(s.run) /\ DOMAIN s.run.records = DOMAIN Dataset[s.run.questions]
        /\ \A i \in DOMAIN s.run.records :
              /\ s.run.records[i].question = Dataset[s.run.questions][i]
              /\ s.run.records[i].model = s.run.config.model
              /\ DOMAIN s.run.records[i].ragas = Dataset[s.run.questions][i].metrics
  BY <1>3 DEF Answered, OwnModel, Eval!CoverageComplete
<1>8. QED BY <1>2, <1>4, <1>6, <1>7

LEMMA EvalInvAlways == Eval!Spec => []EvalInv
<1>1. Eval!Init => EvalInv
  BY EvaluationAssumption, EvalInit
<1>2. EvalInv /\ [Eval!Next]_(Eval!vars) => EvalInv'
  BY EvaluationAssumption, EvalStep
<1>3. QED BY <1>1, <1>2, PTL DEF Eval!Spec

(* EvaluationPipeline: whatever is replaced, touched or interrupted between the three         *)
(* commands, a report that lets a change pass compares two runs the service gave, of one        *)
(* model, to the same questions in one state, unless that was replaced under a run; every          *)
(* question has its scores, and of the change every question was answered with success.              *)
THEOREM ReportsAlwaysPair == Eval!Spec => []ReportsPair
<1>1. EvalInv => ReportsPair
  BY ReportOfPair DEF ReportsPair
<1>2. QED BY <1>1, EvalInvAlways, PTL

(* EvaluationPipeline: an answer that passed its contract has evidence of its own kind for   *)
(* every source the golden answer rests on, whatever the service answers and the judge says. *)
THEOREM PassAlwaysDeserved == Eval!Spec => []PassIsDeserved
<1>1. EvalInv => PassIsDeserved
  BY EvidenceForPass DEF PassIsDeserved
<1>2. QED BY <1>1, EvalInvAlways, PTL

-----------------------------------------------------------------------------
(* Extraction, of a text of any length.  The sums, the filters and the chunks are each a      *)
(* function over the places of a sequence, whose values exist by Recursion and are followed    *)
(* from one place to the next.  The chunks cover the text without a gap, and two that follow    *)
(* each other within a paragraph share the overlap; so a statement of one paragraph, no longer  *)
(* than the overlap, lies wholly in one of them.                                                 *)

(* Lengths is what its equation says, and never falls. *)
LEMMA LengthsSum ==
    ASSUME NEW units \in Seq(Nat)
    PROVE  /\ Lengths(units) \in [0..Len(units) -> Nat]
           /\ Lengths(units)[0] = 0
           /\ \A k \in 1..Len(units) : Lengths(units)[k] = Lengths(units)[k - 1] + units[k]
<1> DEFINE n == Len(units)
           Eq(f) == f = [k \in 0..n |-> IF k = 0 THEN 0 ELSE f[k - 1] + units[k]]
           step == [p \in (1..n) \X Nat |-> p[2] + units[p[1]]]
<1>0. n \in Nat /\ step \in [(1..n) \X Nat -> Nat]
  OBVIOUS
<1>1. \E f : Eq(f)
  <2>1. PICK f \in [0..n -> Nat] : GoesOn(f, n, 0, step)
    <3> HIDE DEF n, step
    <3> QED BY <1>0, Recursion
  <2>2. \A k \in 0..n : f[k] = IF k = 0 THEN 0 ELSE f[k - 1] + units[k]
    <3> SUFFICES ASSUME NEW k \in 0..n, k # 0 PROVE f[k] = f[k - 1] + units[k]
      BY <2>1 DEF GoesOn
    <3>1. <<k, f[k - 1]>> \in (1..n) \X Nat
      OBVIOUS
    <3> QED BY <2>1, <3>1 DEF GoesOn
  <2>3. Eq(f)
    BY <2>2
  <2> QED BY <2>3
<1>2. Eq(Lengths(units))
  BY <1>1, Zenon DEF Lengths
<1> DEFINE L == Lengths(units)
<1>3. \A k \in 0..n : L[k] = IF k = 0 THEN 0 ELSE L[k - 1] + units[k]
  BY <1>2
<1> DEFINE S == {k \in Nat : k <= n => L[k] \in Nat}
<1>4. \A m \in Nat : m \in S
  <2>1. 0 \in S
    BY <1>0, <1>3
  <2>2. ASSUME NEW k \in Nat, k \in S PROVE k + 1 \in S
    <3> SUFFICES ASSUME k + 1 <= n PROVE L[k + 1] \in Nat
      OBVIOUS
    <3>1. k + 1 \in 0..n /\ k + 1 # 0 /\ (k + 1) - 1 = k /\ units[k + 1] \in Nat
      OBVIOUS
    <3>2. L[k + 1] = L[k] + units[k + 1]
      BY <1>3, <3>1
    <3> QED BY <2>2, <3>1, <3>2
  <2> HIDE DEF S
  <2> QED BY <2>1, <2>2, NumberInduction
<1>5. L \in [0..n -> Nat]
  <2> HIDE DEF L
  <2>1. \A k \in 0..n : L[k] \in Nat
    BY <1>4
  <2>2. L = [k \in 0..n |-> L[k]]
    BY <1>2 DEF L
  <2> QED BY <2>1, <2>2
<1> HIDE DEF L
<1> QED BY <1>3, <1>5 DEF L

LEMMA LengthsRise ==
    ASSUME NEW units \in Seq(Nat), NEW j \in 0..Len(units), NEW k \in 0..Len(units), j <= k
    PROVE  Lengths(units)[j] <= Lengths(units)[k]
<1> DEFINE n == Len(units)
           L == Lengths(units)
           S == {m \in Nat : j + m <= n => L[j] <= L[j + m]}
<1>0. L \in [0..n -> Nat] /\ \A i \in 1..n : L[i] = L[i - 1] + units[i]
  BY LengthsSum
<1> HIDE DEF L
<1>1. 0 \in S
  BY <1>0
<1>2. ASSUME NEW m \in Nat, m \in S PROVE m + 1 \in S
  <2> SUFFICES ASSUME j + (m + 1) <= n PROVE L[j] <= L[j + (m + 1)]
    OBVIOUS
  <2>1. j + m + 1 \in 1..n /\ (j + m + 1) - 1 = j + m /\ j + (m + 1) = j + m + 1
    OBVIOUS
  <2>2. L[j + m + 1] = L[j + m] + units[j + m + 1]
    BY <1>0, <2>1
  <2>3. L[j + m] \in Nat /\ L[j] \in Nat /\ units[j + m + 1] \in Nat
    <3>1. j + m \in 0..n /\ j \in 0..n
      OBVIOUS
    <3>2. L[j + m] \in Nat /\ L[j] \in Nat
      BY <1>0, <3>1
    <3> QED BY <2>1, <3>2
  <2>4. L[j] <= L[j + m]
    BY <1>2
  <2> QED BY <2>1, <2>2, <2>3, <2>4
<1>3. k - j \in S
  <2>1. k - j \in Nat
    OBVIOUS
  <2> HIDE DEF S
  <2> QED BY <1>1, <1>2, <2>1, NumberInduction
<1>4. j + (k - j) = k /\ k <= n
  OBVIOUS
<1> QED BY <1>3, <1>4 DEF L

(* What is picked of s are its elements at the places of T, each place once. *)
Picks(p, s, T) ==
    \E g \in [1..Len(p) -> T] :
       /\ \A a, b \in 1..Len(p) : g[a] = g[b] => a = b
       /\ \A i \in T : \E a \in 1..Len(p) : g[a] = i
       /\ \A a \in 1..Len(p) : p[a] = s[g[a]]

LEMMA PicksOneMore ==
    ASSUME NEW V, NEW p \in Seq(V), NEW s \in Seq(V), NEW k \in Nat, k + 1 \in 1..Len(s),
           NEW T \in SUBSET (1..k), Picks(p, s, T)
    PROVE  Picks(Append(p, s[k + 1]), s, T \cup {k + 1})
<1> DEFINE n == Len(p)
           q == Append(p, s[k + 1])
           U == T \cup {k + 1}
<1>1. PICK g \in [1..n -> T] : /\ \A a, b \in 1..n : g[a] = g[b] => a = b
                               /\ \A i \in T : \E a \in 1..n : g[a] = i
                               /\ \A a \in 1..n : p[a] = s[g[a]]
  BY DEF Picks
<1> DEFINE h == [a \in 1..n + 1 |-> IF a <= n THEN g[a] ELSE k + 1]
<1>2. n \in Nat /\ Len(q) = n + 1 /\ q[n + 1] = s[k + 1] /\ \A a \in 1..n : q[a] = p[a]
  OBVIOUS
<1>3. \A a \in 1..n + 1 : (a \in 1..n /\ h[a] = g[a] /\ h[a] \in T) \/ (a = n + 1 /\ h[a] = k + 1)
  OBVIOUS
<1>4. \A i \in T : i # k + 1
  OBVIOUS
<1>5. h \in [1..n + 1 -> U] /\ h[n + 1] = k + 1 /\ \A a \in 1..n : h[a] = g[a]
  OBVIOUS
<1> HIDE DEF h, q, n
<1>6. \A a, b \in 1..n + 1 : h[a] = h[b] => a = b
  BY <1>1, <1>3, <1>4
<1>7. \A i \in U : \E a \in 1..n + 1 : h[a] = i
  <2>1. \A i \in T : \E a \in 1..n : h[a] = i
    BY <1>1, <1>5
  <2>2. n + 1 \in 1..n + 1 /\ 1..n \subseteq 1..n + 1
    BY <1>2
  <2> QED BY <1>5, <2>1, <2>2
<1>8. \A a \in 1..n + 1 : q[a] = s[h[a]]
  BY <1>1, <1>2, <1>3
<1> QED BY <1>2, <1>5, <1>6, <1>7, <1>8 DEF Picks, q

LEMMA PickedPicks ==
    ASSUME NEW V, NEW s \in Seq(V), NEW S
    PROVE  Picked(s, S) \in Seq(V) /\ Picks(Picked(s, S), s, S \cap (1..Len(s)))
<1> DEFINE n == Len(s)
           Eq(f) == f = [k \in 0..n |-> IF k = 0 THEN <<>>
                                        ELSE IF k \in S THEN Append(f[k - 1], s[k]) ELSE f[k - 1]]
           step == [p \in (1..n) \X Seq(V) |-> IF p[1] \in S THEN Append(p[2], s[p[1]]) ELSE p[2]]
<1>0. n \in Nat /\ \A k \in 1..n : s[k] \in V
  OBVIOUS
<1>1. step \in [(1..n) \X Seq(V) -> Seq(V)]
  <2> SUFFICES ASSUME NEW k \in 1..n, NEW p \in Seq(V)
               PROVE  (IF k \in S THEN Append(p, s[k]) ELSE p) \in Seq(V)
    OBVIOUS
  <2> QED BY <1>0
<1>2. \E f : Eq(f)
  <2>1. PICK f \in [0..n -> Seq(V)] : GoesOn(f, n, <<>>, step)
    <3>1. <<>> \in Seq(V)
      OBVIOUS
    <3> HIDE DEF n, step
    <3> QED BY <1>0, <1>1, <3>1, Recursion
  <2>2. \A k \in 0..n : f[k] = IF k = 0 THEN <<>>
                               ELSE IF k \in S THEN Append(f[k - 1], s[k]) ELSE f[k - 1]
    <3> SUFFICES ASSUME NEW k \in 0..n, k # 0
                 PROVE  f[k] = IF k \in S THEN Append(f[k - 1], s[k]) ELSE f[k - 1]
      BY <2>1 DEF GoesOn
    <3>1. <<k, f[k - 1]>> \in (1..n) \X Seq(V)
      OBVIOUS
    <3> QED BY <2>1, <3>1 DEF GoesOn
  <2>3. Eq(f)
    BY <2>2
  <2> QED BY <2>3
<1> DEFINE P == CHOOSE f : Eq(f)
<1>3. Eq(P)
  BY <1>2, Zenon
<1>4. Picked(s, S) = P[n]
  BY Zenon DEF Picked
<1>5. \A k \in 0..n : P[k] = IF k = 0 THEN <<>>
                             ELSE IF k \in S THEN Append(P[k - 1], s[k]) ELSE P[k - 1]
  BY <1>3
<1> HIDE DEF P
<1> DEFINE Fine(k) == P[k] \in Seq(V) /\ Picks(P[k], s, S \cap (1..k))
           M == {k \in Nat : k <= n => Fine(k)}
<1>6. 0 \in M
  <2>1. P[0] = <<>> /\ S \cap (1..0) = {} /\ Len(<<>>) = 0 /\ 1..0 = {}
    BY <1>0, <1>5
  <2>2. Picks(<<>>, s, {})
    <3> DEFINE g == [a \in {} |-> a]
    <3>1. g \in [1..0 -> {}]
      BY <2>1
    <3> QED BY <2>1, <3>1 DEF Picks
  <2>3. <<>> \in Seq(V) /\ 0 \in Nat
    OBVIOUS
  <2>4. Fine(0)
    BY <2>1, <2>2, <2>3, Zenon
  <2> HIDE DEF Fine
  <2> QED BY <2>3, <2>4
<1>7. ASSUME NEW k \in Nat, k \in M PROVE k + 1 \in M
  <2> SUFFICES ASSUME k + 1 <= n PROVE Fine(k + 1)
    OBVIOUS
  <2>1. Fine(k) /\ k + 1 \in 1..n /\ k + 1 \in 0..n /\ k + 1 # 0 /\ (k + 1) - 1 = k
    BY <1>0, <1>7
  <2>2. P[k + 1] = IF k + 1 \in S THEN Append(P[k], s[k + 1]) ELSE P[k]
    BY <1>5, <2>1
  <2>3. CASE k + 1 \in S
    <3>1. S \cap (1..(k + 1)) = (S \cap (1..k)) \cup {k + 1}
      BY <2>3
    <3>2. Picks(Append(P[k], s[k + 1]), s, (S \cap (1..k)) \cup {k + 1})
      <4>1. S \cap (1..k) \in SUBSET (1..k)
        OBVIOUS
      <4> QED BY <2>1, <4>1, PicksOneMore
    <3>3. Append(P[k], s[k + 1]) \in Seq(V)
      BY <1>0, <2>1
    <3> QED BY <2>2, <2>3, <3>1, <3>2, <3>3
  <2>4. CASE k + 1 \notin S
    <3>1. S \cap (1..(k + 1)) = S \cap (1..k)
      BY <2>4
    <3> QED BY <2>1, <2>2, <2>4, <3>1
  <2> QED BY <2>3, <2>4
<1>8. n \in M
  <2> HIDE DEF M
  <2> QED BY <1>0, <1>6, <1>7, NumberInduction
<1> QED BY <1>0, <1>4, <1>8

(* What the quotient says, and that products rise. *)
LEMMA Quotient ==
    ASSUME NEW x \in Nat, NEW d \in Nat \ {0}
    PROVE  /\ x \div d \in Nat
           /\ (x \div d) * d <= x
           /\ x < (x \div d) * d + d
OBVIOUS

LEMMA ProductRises ==
    ASSUME NEW m \in Nat, NEW q \in Nat, NEW d \in Nat, m <= q
    PROVE  m * d \in Nat /\ m * d <= q * d
<1>1. m * d \in Nat /\ q * d \in Nat /\ (q - m) * d \in Nat
  OBVIOUS
<1>2. q * d = m * d + (q - m) * d
  OBVIOUS
<1> QED BY <1>1, <1>2

(* A stretch of the text inside one of the chunks. *)
Part == [from : Int, to : Int]
Covered(cs, a, b) == \E k \in 1..Len(cs) : cs[k].from <= a /\ b <= cs[k].to

LEMMA SharedSmall ==
    ASSUME ExtractionAssumption
    PROVE  ChunkSize \in Nat \ {0} /\ Shared \in Nat /\ Shared < ChunkSize
BY DEF ExtractionAssumption, Shared, Lower

LEMMA SlicesArePart ==
    ASSUME ExtractionAssumption, NEW from \in Nat, NEW n \in Nat
    PROVE  SliceChunks(from, n) \in Seq(Part)
<1>0. ChunkSize \in Nat \ {0} /\ Shared \in Nat /\ Shared < ChunkSize
  BY SharedSmall
<1>1. CASE n <= ChunkSize
  <2>1. Chunk(from, n) \in Part
    BY DEF Chunk, Part
  <2> QED BY <1>1, <2>1 DEF SliceChunks
<1>2. CASE ~ (n <= ChunkSize)
  <2> DEFINE step == ChunkSize - Shared
             m == (n - ChunkSize + step - 1) \div step
             c(k) == Chunk(from + (k - 1) * step, Lower(ChunkSize, n - (k - 1) * step))
  <2>1. step \in Nat \ {0} /\ n - ChunkSize + step - 1 \in Nat
    BY <1>0, <1>2
  <2>2. m \in Nat
    <3> HIDE DEF step
    <3> QED BY <1>0, <2>1, Quotient
  <2>3. SliceChunks(from, n) = [k \in 1..(1 + m) |-> c(k)]
    BY <1>2 DEF SliceChunks
  <2>4. ASSUME NEW k \in 1..(1 + m) PROVE c(k) \in Part
    <3>1. (k - 1) * step \in Int
      <4>1. k - 1 \in Int /\ step \in Int
        BY <2>1, <2>2
      <4> HIDE DEF step
      <4> QED BY <4>1
    <3> HIDE DEF step
    <3> QED BY <1>0, <3>1 DEF Chunk, Part, Lower
  <2> HIDE DEF m, c
  <2> QED BY <2>2, <2>3, <2>4
<1> QED BY <1>1, <1>2

LEMMA SlicesCover ==
    ASSUME ExtractionAssumption, NEW from \in Nat, NEW n \in Nat, NEW a \in Nat, NEW b \in Nat,
           from <= a, a <= b, b <= from + n, b - a <= Shared
    PROVE  Covered(SliceChunks(from, n), a, b)
<1>0. ChunkSize \in Nat \ {0} /\ Shared \in Nat /\ Shared < ChunkSize
  BY SharedSmall
<1>1. CASE n <= ChunkSize
  <2>1. SliceChunks(from, n) = <<Chunk(from, n)>>
    BY <1>1 DEF SliceChunks
  <2>2. Chunk(from, n).from <= a /\ b <= Chunk(from, n).to
    BY DEF Chunk
  <2> QED BY <2>1, <2>2 DEF Covered
<1>2. CASE ~ (n <= ChunkSize)
  <2> DEFINE step == ChunkSize - Shared
             m == (n - ChunkSize + step - 1) \div step
             q == (a - from) \div step
             c(k) == Chunk(from + (k - 1) * step, Lower(ChunkSize, n - (k - 1) * step))
  <2>1. step \in Nat \ {0} /\ n - ChunkSize + step - 1 \in Nat /\ a - from \in Nat
    BY <1>0, <1>2
  <2>2. /\ m \in Nat /\ n - ChunkSize <= m * step /\ m * step \in Nat
        /\ q \in Nat /\ q * step <= a - from /\ a - from < q * step + step /\ q * step \in Nat
    <3> HIDE DEF step
    <3>1. m \in Nat /\ n - ChunkSize + step - 1 < m * step + step
      BY <2>1, Quotient
    <3>2. q \in Nat /\ q * step <= a - from /\ a - from < q * step + step
      BY <2>1, Quotient
    <3>3. m * step \in Nat /\ q * step \in Nat
      <4> HIDE DEF m, q
      <4> QED BY <2>1, <3>1, <3>2, ProductRises
    <3> HIDE DEF m, q
    <3> QED BY <1>0, <2>1, <3>1, <3>2, <3>3
  <2>3. SliceChunks(from, n) = [k \in 1..(1 + m) |-> c(k)]
    BY <1>2 DEF SliceChunks
  <2> SUFFICES \E k \in 1..(1 + m) : c(k).from <= a /\ b <= c(k).to
    <3>1. Len(SliceChunks(from, n)) = 1 + m
      <4> HIDE DEF m, c
      <4> QED BY <2>2, <2>3
    <3> HIDE DEF m, c
    <3> QED BY <2>3, <3>1 DEF Covered
  <2>4. \A j \in Nat : /\ c(j + 1).from = from + j * step
                       /\ c(j + 1).to = from + j * step + Lower(ChunkSize, n - j * step)
    <3> SUFFICES ASSUME NEW j \in Nat
                 PROVE  /\ c(j + 1).from = from + j * step
                        /\ c(j + 1).to = from + j * step + Lower(ChunkSize, n - j * step)
      OBVIOUS
    <3>1. (j + 1) - 1 = j
      OBVIOUS
    <3> HIDE DEF step
    <3> QED BY <3>1 DEF Chunk
  <2> HIDE DEF c, m, q
  <2>5. CASE q <= m
    <3>1. c(q + 1).from <= a
      <4>1. c(q + 1).from = from + q * step
        BY <2>2, <2>4
      <4> DEFINE z == q * step
      <4>2. z \in Nat /\ z <= a - from
        BY <2>2
      <4> HIDE DEF z
      <4>3. from + z <= a
        BY <4>2
      <4> QED BY <4>1, <4>3 DEF z
    <3>2. b <= c(q + 1).to
      <4>1. c(q + 1).to = from + q * step + Lower(ChunkSize, n - q * step)
        BY <2>2, <2>4
      <4> DEFINE z == q * step
      <4>2. z \in Nat /\ a - from < z + (ChunkSize - Shared)
        BY <2>2
      <4> HIDE DEF z
      <4>3. b <= from + z + Lower(ChunkSize, n - z)
        BY <1>0, <4>2 DEF Lower
      <4> QED BY <4>1, <4>3 DEF z
    <3>3. q + 1 \in 1..(1 + m)
      BY <2>2, <2>5
    <3> QED BY <3>1, <3>2, <3>3
  <2>6. CASE m < q
    <3>1. m * step <= q * step
      <4> HIDE DEF step
      <4> QED BY <2>1, <2>2, <2>6, ProductRises
    <3>2. c(m + 1).from = from + m * step
          /\ c(m + 1).to = from + m * step + Lower(ChunkSize, n - m * step)
      BY <2>2, <2>4
    <3> DEFINE z == m * step
    <3>3. z \in Nat /\ z <= a - from /\ n - ChunkSize <= z
      <4> DEFINE y == q * step
      <4>1. z <= y /\ y <= a - from /\ y \in Nat /\ z \in Nat
        BY <2>2, <3>1
      <4> HIDE DEF y
      <4>2. z <= a - from
        <5> HIDE DEF z
        <5> QED BY <4>1
      <4> QED BY <2>2, <4>2
    <3>4. c(m + 1).from <= a /\ b <= c(m + 1).to
      <4>0. c(m + 1).from = from + z /\ c(m + 1).to = from + z + Lower(ChunkSize, n - z)
        BY <3>2
      <4> HIDE DEF z
      <4> QED BY <1>0, <3>3, <4>0 DEF Lower
    <3>5. m + 1 \in 1..(1 + m)
      BY <2>2
    <3> QED BY <3>4, <3>5
  <2> QED BY <2>2, <2>5, <2>6
<1> QED BY <1>1, <1>2

(* What was joined so far: chunks, and an end of the text that is none yet; a short      *)
(* stretch of a paragraph that was passed is in one or the other.                          *)
Progress == [at : Nat, len : Nat, open : BOOLEAN, chunks : Seq(Part)]
Kept(s, a, b) ==
    \/ Covered(s.chunks, a, b)
    \/ s.open /\ s.at - s.len <= a /\ b <= s.at

LEMMA CoveredStays ==
    ASSUME NEW cs \in Seq(Part), NEW ds \in Seq(Part), NEW a \in Nat, NEW b \in Nat
    PROVE  /\ Covered(cs, a, b) => Covered(cs \o ds, a, b)
           /\ Covered(ds, a, b) => Covered(cs \o ds, a, b)
<1>1. ASSUME NEW k \in 1..Len(cs) PROVE k \in 1..Len(cs \o ds) /\ (cs \o ds)[k] = cs[k]
  OBVIOUS
<1>2. ASSUME NEW k \in 1..Len(ds)
      PROVE  Len(cs) + k \in 1..Len(cs \o ds) /\ (cs \o ds)[Len(cs) + k] = ds[k]
  OBVIOUS
<1> QED BY <1>1, <1>2 DEF Covered

LEMMA CoveredAppend ==
    ASSUME NEW cs \in Seq(Part), NEW c \in Part, NEW a \in Nat, NEW b \in Nat
    PROVE  /\ Append(cs, c) \in Seq(Part)
           /\ Covered(cs, a, b) => Covered(Append(cs, c), a, b)
           /\ c.from <= a /\ b <= c.to => Covered(Append(cs, c), a, b)
<1>1. ASSUME NEW k \in 1..Len(cs)
      PROVE  k \in 1..Len(Append(cs, c)) /\ Append(cs, c)[k] = cs[k]
  OBVIOUS
<1>2. Len(cs) + 1 \in 1..Len(Append(cs, c)) /\ Append(cs, c)[Len(cs) + 1] = c
  OBVIOUS
<1> QED BY <1>1, <1>2 DEF Covered

LEMMA FlushedKeeps ==
    ASSUME NEW s \in Progress
    PROVE  /\ Flushed(s) \in Seq(Part)
           /\ \A a, b \in Nat : Kept(s, a, b) => Covered(Flushed(s), a, b)
<1>1. s.chunks \in Seq(Part) /\ s.at \in Nat /\ s.len \in Nat /\ s.open \in BOOLEAN
  BY DEF Progress
<1> DEFINE c == Chunk(s.at - s.len, s.len)
<1>2. c \in Part /\ c.from = s.at - s.len /\ c.to = s.at
  BY <1>1 DEF Chunk, Part
<1> HIDE DEF c
<1>3. Flushed(s) = IF s.open THEN Append(s.chunks, c) ELSE s.chunks
  BY DEF Flushed, c
<1>4. Flushed(s) \in Seq(Part)
  BY <1>1, <1>2, <1>3, CoveredAppend
<1>5. ASSUME NEW a \in Nat, NEW b \in Nat, Kept(s, a, b) PROVE Covered(Flushed(s), a, b)
  <2>1. CASE s.open
    <3>1. Flushed(s) = Append(s.chunks, c)
      BY <1>3, <2>1
    <3> QED BY <1>1, <1>2, <1>5, <3>1, CoveredAppend DEF Kept
  <2>2. CASE ~s.open
    BY <1>3, <1>5, <2>2 DEF Kept
  <2> QED BY <2>1, <2>2
<1> QED BY <1>4, <1>5

LEMMA AddUnitKeeps ==
    ASSUME ExtractionAssumption, NEW s \in Progress, NEW n \in Nat
    PROVE  LET t == AddUnit(s, n)
           IN  /\ t \in Progress /\ t.at = s.at + n
               /\ (~s.open => s.len = 0) => (~t.open => t.len = 0)
               /\ \A a, b \in Nat : Kept(s, a, b) => Kept(t, a, b)
               /\ (~s.open => s.len = 0) =>
                     \A a, b \in Nat : s.at <= a /\ a <= b /\ b <= s.at + n /\ b - a <= Shared
                                          => Kept(t, a, b)
<1> DEFINE t == AddUnit(s, n)
<1>0. s.chunks \in Seq(Part) /\ s.at \in Nat /\ s.len \in Nat /\ s.open \in BOOLEAN
  BY DEF Progress
<1>1. Flushed(s) \in Seq(Part) /\ \A a, b \in Nat : Kept(s, a, b) => Covered(Flushed(s), a, b)
  BY FlushedKeeps
<1>2. CASE n > ChunkSize
  <2> DEFINE new == SliceChunks(s.at, n)
  <2>1. t = [at |-> s.at + n, len |-> 0, open |-> FALSE, chunks |-> Flushed(s) \o new]
    BY <1>2 DEF AddUnit
  <2>2. new \in Seq(Part)
    BY <1>0, SlicesArePart
  <2>3. \A a, b \in Nat : Kept(s, a, b) => Covered(Flushed(s) \o new, a, b)
    <3> HIDE DEF new
    <3> QED BY <1>1, <2>2, CoveredStays
  <2>4. ASSUME NEW a \in Nat, NEW b \in Nat, s.at <= a, a <= b, b <= s.at + n, b - a <= Shared
        PROVE  Covered(Flushed(s) \o new, a, b)
    <3>1. Covered(new, a, b)
      BY <1>0, <2>4, SlicesCover
    <3> HIDE DEF new
    <3> QED BY <1>1, <2>2, <3>1, CoveredStays
  <2>5. t \in Progress
    <3> HIDE DEF new
    <3>1. Flushed(s) \o new \in Seq(Part)
      BY <1>1, <2>2
    <3> QED BY <1>0, <2>1, <3>1 DEF Progress
  <2> HIDE DEF new, t
  <2> QED BY <2>1, <2>3, <2>4, <2>5 DEF Kept, t
<1>3. CASE ~(n > ChunkSize) /\ s.open /\ s.len + n > ChunkSize
  <2>1. t = [at |-> s.at + n, len |-> n, open |-> TRUE, chunks |-> Flushed(s)]
    BY <1>3 DEF AddUnit
  <2>2. t \in Progress
    BY <1>0, <1>1, <2>1 DEF Progress
  <2>3. (s.at + n) - n = s.at
    BY <1>0
  <2> HIDE DEF t
  <2> QED BY <1>1, <2>1, <2>2, <2>3 DEF Kept, t
<1>4. CASE ~(n > ChunkSize) /\ ~(s.open /\ s.len + n > ChunkSize)
  <2>1. t = [at |-> s.at + n, len |-> s.len + n, open |-> TRUE, chunks |-> s.chunks]
    BY <1>4 DEF AddUnit
  <2>2. t \in Progress
    BY <1>0, <2>1 DEF Progress
  <2>3. (s.at + n) - (s.len + n) = s.at - s.len /\ s.at - s.len <= s.at
    BY <1>0
  <2>4. \A a, b \in Nat : Kept(s, a, b) => Kept(t, a, b)
    <3> SUFFICES ASSUME NEW a \in Nat, NEW b \in Nat, Kept(s, a, b) PROVE Kept(t, a, b)
      OBVIOUS
    <3>1. b <= s.at => b <= s.at + n
      BY <1>0
    <3> HIDE DEF t
    <3> QED BY <2>1, <2>3, <3>1 DEF Kept
  <2>5. ASSUME NEW a \in Nat, NEW b \in Nat, s.at <= a, b <= s.at + n PROVE Kept(t, a, b)
    <3>1. s.at - s.len <= a
      BY <1>0, <2>5
    <3> HIDE DEF t
    <3> QED BY <2>1, <2>3, <2>5, <3>1 DEF Kept
  <2> HIDE DEF t
  <2>6. /\ t.at = s.at + n /\ t.open = TRUE
        /\ \A a, b \in Nat : s.at <= a /\ a <= b /\ b <= s.at + n /\ b - a <= Shared
                               => Kept(t, a, b)
    BY <2>1, <2>5
  <2> QED BY <2>2, <2>4, <2>6 DEF t
<1> QED BY <1>2, <1>3, <1>4 DEF t

(* A short stretch of the u-th paragraph. *)
Stretch(units, u, a, b) ==
    /\ Lengths(units)[u - 1] <= a /\ a <= b /\ b <= Lengths(units)[u] /\ b - a <= Shared

LEMMA JoinedKeeps ==
    ASSUME ExtractionAssumption, NEW units \in Seq(Nat)
    PROVE  \A k \in 0..Len(units) :
              /\ Joined(units)[k] \in Progress
              /\ Joined(units)[k].at = Lengths(units)[k]
              /\ \A u \in 1..k, a, b \in Nat :
                    Stretch(units, u, a, b) => Kept(Joined(units)[k], a, b)
<1> DEFINE n == Len(units)
           L == Lengths(units)
           start == [at |-> 0, len |-> 0, open |-> FALSE, chunks |-> <<>>]
           Eq(f) == f = [k \in 0..n |-> IF k = 0 THEN start ELSE AddUnit(f[k - 1], units[k])]
           step == [p \in (1..n) \X Progress |-> AddUnit(p[2], units[p[1]])]
<1>0. n \in Nat /\ \A k \in 1..n : units[k] \in Nat
  OBVIOUS
<1>1. step \in [(1..n) \X Progress -> Progress]
  <2> SUFFICES ASSUME NEW k \in 1..n, NEW s \in Progress PROVE AddUnit(s, units[k]) \in Progress
    OBVIOUS
  <2> QED BY <1>0, AddUnitKeeps
<1>2. start \in Progress
  <2>1. <<>> \in Seq(Part)
    OBVIOUS
  <2> QED BY <2>1 DEF Progress
<1>3. \E f : Eq(f)
  <2>1. PICK f \in [0..n -> Progress] : GoesOn(f, n, start, step)
    <3> HIDE DEF n, step, start
    <3> QED BY <1>0, <1>1, <1>2, Recursion
  <2>2. \A k \in 0..n : f[k] = IF k = 0 THEN start ELSE AddUnit(f[k - 1], units[k])
    <3> HIDE DEF start
    <3> SUFFICES ASSUME NEW k \in 0..n, k # 0 PROVE f[k] = AddUnit(f[k - 1], units[k])
      BY <2>1 DEF GoesOn
    <3>1. <<k, f[k - 1]>> \in (1..n) \X Progress
      OBVIOUS
    <3> QED BY <2>1, <3>1 DEF GoesOn
  <2>3. Eq(f)
    <3> HIDE DEF start
    <3> QED BY <2>2
  <2> QED BY <2>3
<1> DEFINE J == Joined(units)
<1>4. Eq(J)
  BY <1>3, Zenon DEF Joined
<1>5. \A k \in 0..n : J[k] = IF k = 0 THEN start ELSE AddUnit(J[k - 1], units[k])
  <2> HIDE DEF start, J
  <2> QED BY <1>4
<1>6. L[0] = 0 /\ (\A k \in 1..n : L[k] = L[k - 1] + units[k]) /\ \A k \in 0..n : L[k] \in Nat
  BY LengthsSum
<1> HIDE DEF J, L
<1> DEFINE Fine(k) == /\ J[k] \in Progress
                      /\ J[k].at = L[k]
                      /\ ~J[k].open => J[k].len = 0
                      /\ \A u \in 1..k, a, b \in Nat :
                            Stretch(units, u, a, b) => Kept(J[k], a, b)
           S == {k \in Nat : k <= n => Fine(k)}
<1>7. 0 \in S
  <2>1. J[0] = start
    BY <1>0, <1>5
  <2>2. start.at = 0 /\ start.len = 0
    OBVIOUS
  <2> HIDE DEF start
  <2>3. Fine(0)
    BY <1>2, <1>6, <2>1, <2>2
  <2> HIDE DEF Fine
  <2> QED BY <2>3
<1>8. ASSUME NEW k \in Nat, k \in S PROVE k + 1 \in S
  <2> SUFFICES ASSUME k + 1 <= n PROVE Fine(k + 1)
    <3>1. k + 1 \in Nat
      OBVIOUS
    <3> HIDE DEF Fine
    <3> QED BY <3>1
  <2>1. Fine(k) /\ k + 1 \in 1..n /\ k + 1 \in 0..n /\ k + 1 # 0 /\ (k + 1) - 1 = k /\ k \in 0..n
    BY <1>0, <1>8
  <2>2. PICK s \in Progress : s = J[k]
    BY <2>1
  <2>3. PICK m \in Nat : m = units[k + 1]
    BY <1>0, <2>1
  <2>4. J[k + 1] = AddUnit(s, m) /\ L[k + 1] = s.at + m /\ s.at = L[k] /\ (~s.open => s.len = 0)
    BY <1>5, <1>6, <2>1, <2>2, <2>3
  <2>5. /\ J[k + 1] \in Progress /\ J[k + 1].at = s.at + m
        /\ ~J[k + 1].open => J[k + 1].len = 0
        /\ \A a, b \in Nat : Kept(s, a, b) => Kept(J[k + 1], a, b)
        /\ \A a, b \in Nat : s.at <= a /\ a <= b /\ b <= s.at + m /\ b - a <= Shared
                                => Kept(J[k + 1], a, b)
    <3> DEFINE t == AddUnit(s, m)
    <3>1. /\ t \in Progress /\ t.at = s.at + m
          /\ (~s.open => s.len = 0) => (~t.open => t.len = 0)
          /\ \A a, b \in Nat : Kept(s, a, b) => Kept(t, a, b)
          /\ (~s.open => s.len = 0) =>
                \A a, b \in Nat : s.at <= a /\ a <= b /\ b <= s.at + m /\ b - a <= Shared
                                     => Kept(t, a, b)
      BY AddUnitKeeps, Zenon
    <3> HIDE DEF t
    <3>2. J[k + 1] = t
      BY <2>4 DEF t
    <3> QED BY <2>4, <3>1, <3>2
  <2>6. ASSUME NEW u \in 1..(k + 1), NEW a \in Nat, NEW b \in Nat, Stretch(units, u, a, b)
        PROVE  Kept(J[k + 1], a, b)
    <3>1. CASE u = k + 1
      <4>1. s.at <= a /\ a <= b /\ b <= s.at + m /\ b - a <= Shared
        BY <2>1, <2>4, <2>6, <3>1 DEF Stretch, L
      <4> QED BY <2>5, <4>1
    <3>2. CASE u # k + 1
      <4>1. u \in 1..k
        BY <3>2
      <4>2. Kept(s, a, b)
        BY <2>1, <2>2, <2>6, <4>1
      <4> QED BY <2>5, <4>2
    <3> QED BY <3>1, <3>2
  <2> QED BY <2>4, <2>5, <2>6
<1>9. \A k \in Nat : k \in S
  <2> HIDE DEF S
  <2> QED BY <1>7, <1>8, NumberInduction
<1>10. \A k \in 0..n : Fine(k)
  <2> HIDE DEF Fine
  <2> QED BY <1>0, <1>9
<1> QED BY <1>10 DEF J, L

(* A statement no longer than the overlap is in one of the chunks. *)
LEMMA SplitCovers ==
    ASSUME ExtractionAssumption, NEW units \in Seq(Nat)
    PROVE  /\ SplitChunks(units) \in Seq(Part)
           /\ \A u \in 1..Len(units), a, b \in Nat :
                 Stretch(units, u, a, b) => Covered(SplitChunks(units), a, b)
<1> DEFINE n == Len(units)
           L == Lengths(units)
<1>1. n \in Nat /\ L \in [0..n -> Nat] /\ L[0] = 0
  BY LengthsSum
<1>2. \A j, k \in 0..n : j <= k => L[j] <= L[k]
  BY LengthsRise
<1> HIDE DEF L
<1>3. CASE Sizes(units) <= ChunkSize
  <2> DEFINE c == Chunk(0, Sizes(units))
  <2>1. Sizes(units) = L[n] /\ L[n] \in Nat
    BY <1>1 DEF Sizes, L
  <2>2. SplitChunks(units) = <<c>>
    BY <1>3 DEF SplitChunks
  <2>3. c \in Part /\ c.from = 0 /\ c.to = L[n]
    BY <2>1 DEF Chunk, Part
  <2>4. ASSUME NEW u \in 1..n, NEW a \in Nat, NEW b \in Nat, Stretch(units, u, a, b)
        PROVE  c.from <= a /\ b <= c.to
    <3>1. u \in 0..n /\ n \in 0..n /\ u <= n
      BY <1>1
    <3>2. L[u] <= L[n] /\ L[u] \in Nat
      BY <1>1, <1>2, <3>1
    <3> HIDE DEF c
    <3> QED BY <2>1, <2>3, <2>4, <3>2 DEF Stretch, L
  <2> HIDE DEF c
  <2> QED BY <2>2, <2>3, <2>4 DEF Covered
<1>4. CASE ~(Sizes(units) <= ChunkSize)
  <2>1. PICK s \in Progress : s = Joined(units)[n]
    BY <1>1, JoinedKeeps
  <2>2. SplitChunks(units) = Flushed(s)
    BY <1>4, <2>1 DEF SplitChunks
  <2>3. \A u \in 1..n, a, b \in Nat : Stretch(units, u, a, b) => Kept(s, a, b)
    BY <1>1, <2>1, JoinedKeeps
  <2> QED BY <2>2, <2>3, FlushedKeeps
<1> QED BY <1>3, <1>4

(* Statements are finitely many, short, and each of one paragraph. *)
Statement == [from : Nat, to : Nat]

LEMMA StatementsAreShort ==
    ASSUME ExtractionAssumption, NEW units \in Seq(Nat), NEW before \in Nat,
           NEW s \in Statements(units, before)
    PROVE  /\ s \in Statement /\ s.from <= s.to /\ s.to - s.from <= Shared
           /\ \E u \in 1..Len(units) : /\ before + Lengths(units)[u - 1] <= s.from
                                       /\ s.to <= before + Lengths(units)[u]
<1> DEFINE n == Len(units)
           L == Lengths(units)
           begin == [u \in DOMAIN units |-> before + L[u - 1]]
           w(u) == Lower(Shared, units[u])
           Within(u) == {[from |-> x, to |-> x + w(u)] : x \in begin[u]..(begin[u] + units[u] - w(u))}
<1>1. PICK u \in 1..n : s \in Within(u)
  <2>1. Statements(units, before) = UNION {Within(u) : u \in {v \in DOMAIN units : units[v] > 0}}
    BY Zenon DEF Statements
  <2>2. \A u \in {v \in DOMAIN units : units[v] > 0} : u \in 1..n
    OBVIOUS
  <2> HIDE DEF Within
  <2> QED BY <2>1, <2>2
<1>2. /\ L[u - 1] \in Nat /\ L[u] = L[u - 1] + units[u] /\ units[u] \in Nat
      /\ begin[u] = before + L[u - 1]
  <2>1. u - 1 \in 0..n /\ u \in 1..n /\ units[u] \in Nat /\ begin[u] = before + L[u - 1]
    OBVIOUS
  <2>2. L \in [0..n -> Nat] /\ \A k \in 1..n : L[k] = L[k - 1] + units[k]
    BY LengthsSum
  <2> HIDE DEF L, begin
  <2> QED BY <2>1, <2>2
<1>3. Shared \in Nat
  BY SharedSmall
<1>4. w(u) \in Nat /\ w(u) <= Shared /\ w(u) <= units[u]
  BY <1>2, <1>3 DEF Lower
<1>5. PICK x \in begin[u]..(begin[u] + units[u] - w(u)) : s = [from |-> x, to |-> x + w(u)]
  BY <1>1
<1> HIDE DEF begin, w, L
<1>6. x \in Nat /\ before + L[u - 1] <= x /\ x + w(u) <= before + L[u]
  BY <1>2, <1>4, <1>5
<1>7. s.from = x /\ s.to = x + w(u) /\ s \in Statement
  BY <1>4, <1>5, <1>6 DEF Statement
<1>8. s.from <= s.to /\ s.to - s.from <= Shared
  BY <1>3, <1>4, <1>6, <1>7
<1>9. before + L[u - 1] <= s.from /\ s.to <= before + L[u]
  BY <1>6, <1>7
<1> QED BY <1>7, <1>8, <1>9 DEF L

LEMMA StatementsAreFinite ==
    ASSUME ExtractionAssumption, NEW units \in Seq(Nat), NEW before \in Nat
    PROVE  IsFiniteSet(Statements(units, before))
<1> DEFINE n == Len(units)
           L == Lengths(units)
           N == before + L[n]
           S == Statements(units, before)
           f == [s \in S |-> <<s.from, s.to>>]
<1>1. n \in Nat /\ L \in [0..n -> Nat]
  BY LengthsSum
<1>2. N \in Nat
  <2> HIDE DEF L
  <2> QED BY <1>1
<1>3. ASSUME NEW s \in S PROVE s \in Statement /\ s.from \in 0..N /\ s.to \in 0..N
  <2>1. PICK u \in 1..n : s.to <= before + L[u]
    BY StatementsAreShort
  <2>2. s \in Statement /\ s.from <= s.to
    BY StatementsAreShort
  <2>3. L[u] <= L[n] /\ L[u] \in Nat
    <3>1. u \in 0..n /\ n \in 0..n /\ u <= n
      BY <1>1
    <3> QED BY <1>1, <3>1, LengthsRise
  <2>4. s.from \in Nat /\ s.to \in Nat
    BY <2>2 DEF Statement
  <2>5. s.to <= N
    <3> DEFINE x == L[u]
               y == L[n]
    <3>1. x \in Nat /\ y \in Nat /\ x <= y /\ s.to <= before + x /\ N = before + y
      BY <1>1, <2>1, <2>3
    <3> HIDE DEF x, y, N
    <3> QED BY <2>4, <3>1
  <2> HIDE DEF N, S
  <2> QED BY <1>2, <2>2, <2>4, <2>5
<1> HIDE DEF S, N
<1>4. f \in Injection(S, (0..N) \X (0..N))
  <2>1. f \in [S -> (0..N) \X (0..N)]
    BY <1>3
  <2>2. ASSUME NEW s \in S, NEW r \in S, f[s] = f[r] PROVE s = r
    <3>1. s.from = r.from /\ s.to = r.to
      BY <2>2
    <3>2. s \in Statement /\ r \in Statement
      BY <1>3
    <3> QED BY <3>1, <3>2 DEF Statement
  <2> HIDE DEF f
  <2> QED BY <2>1, <2>2 DEF Injection, IsInjective
<1>5. IsFiniteSet((0..N) \X (0..N))
  <2>1. IsFiniteSet(0..N)
    BY <1>2, FS_Interval
  <2> QED BY <2>1, FS_Product
<1>6. IsFiniteSet(S)
  BY <1>4, <1>5, FS_Injection
<1> QED BY <1>6 DEF S

(* What is found of a text: items of its statements, nothing that was to be left out. *)
Memo == [statement : Statement, completed : BOOLEAN, date : Dates, source : Sources]
Wanted(s) == ~(input.kind = "repo_readme" /\ Blocked(s))
Only(ms) ==
    \A i \in 1..Len(ms) :
       /\ ms[i].statement \in text.statements /\ Wanted(ms[i].statement)
       /\ input.kind = "repo_commits" /\ IsAction(ms[i].statement) => ms[i].completed
Tells(ms, s) == \E i \in 1..Len(ms) : ms[i].statement = s
Once(ms) == \A i, j \in 1..Len(ms) : Key(ms[i]) = Key(ms[j]) => i = j
Inside(c, s) == c.from <= s.from /\ s.to <= c.to

LEMMA Enumerated ==
    ASSUME NEW S, IsFiniteSet(S)
    PROVE  /\ Cardinality(S) \in Nat
           /\ SetToSeq(S) \in [1..Cardinality(S) -> S]
           /\ \A i, j \in 1..Cardinality(S) : SetToSeq(S)[i] = SetToSeq(S)[j] => i = j
           /\ \A s \in S : \E i \in 1..Cardinality(S) : SetToSeq(S)[i] = s
<1> DEFINE n == Cardinality(S)
<1>1. n \in Nat /\ ExistsBijection(1..n, S)
  BY FS_CardinalityType
<1> DEFINE f == SetToSeq(S)
<1>2. \E g \in [1..n -> S] : IsInjective(g)
  BY <1>1 DEF ExistsBijection, Bijection, Injection
<1>3. f \in [1..n -> S] /\ IsInjective(f)
  BY <1>2 DEF SetToSeq
<1> HIDE DEF f
<1>4. IsFiniteSet(1..n) /\ Cardinality(1..n) = n
  BY <1>1, FS_Interval
<1>5. f \in Injection(1..n, S)
  BY <1>3 DEF Injection
<1>6. f \in Surjection(1..n, S)
  BY <1>4, <1>5, FS_Injection
<1> QED BY <1>1, <1>3, <1>6 DEF f, IsInjective, Surjection

LEMMA RepliesTell ==
    ASSUME text.statements \in SUBSET Statement, IsFiniteSet(text.statements),
           NEW c \in Part, NEW t \in Dates \X {"null", "other"}
    PROVE  LET r == Replies(c, t)
           IN  /\ r \in Seq(Memo) /\ Once(r)
               /\ \A i \in 1..Len(r) : r[i].statement \in text.statements
               /\ \A s \in text.statements : Inside(c, s) => Tells(r, s)
<1> DEFINE S == {s \in text.statements : c.from <= s.from /\ s.to <= c.to}
           f == SetToSeq(S)
           n == Cardinality(S)
           r == Replies(c, t)
<1>1. IsFiniteSet(S) /\ S \subseteq Statement
  <2>1. S \in SUBSET text.statements
    OBVIOUS
  <2> QED BY <2>1, FS_Subset
<1>2. /\ n \in Nat /\ f \in [1..n -> S]
      /\ \A i, j \in 1..n : f[i] = f[j] => i = j
      /\ \A s \in S : \E i \in 1..n : f[i] = s
  <2> HIDE DEF S
  <2> QED BY <1>1, Enumerated
<1>3. r = [i \in 1..n |-> [statement |-> f[i], completed |-> FALSE,
                          date |-> t[1], source |-> SourceOr(t[2])]]
  BY Zenon DEF Replies
<1>t. t[1] \in Dates /\ SourceOr(t[2]) \in Sources
  BY DEF SourceOr, Sources
<1>4. S \subseteq text.statements /\ \A s \in text.statements : Inside(c, s) => s \in S
  BY DEF Inside
<1> HIDE DEF f, n, r, S
<1>5. Len(r) = n /\ \A i \in 1..n : r[i].statement = f[i] /\ r[i] \in Memo
  <2>1. Len(r) = n
    BY <1>2, <1>3
  <2>2. ASSUME NEW i \in 1..n PROVE r[i].statement = f[i] /\ r[i] \in Memo
    <3>1. f[i] \in Statement
      BY <1>1, <1>2
    <3> QED BY <1>3, <1>t, <3>1 DEF Memo
  <2> QED BY <2>1, <2>2
<1>6. r \in Seq(Memo)
  <2>1. r = [i \in 1..n |-> r[i]]
    BY <1>3
  <2>2. r \in [1..n -> Memo]
    BY <1>5, <2>1
  <2> QED BY <1>2, <2>2
<1>7. Once(r)
  BY <1>2, <1>5 DEF Once, Key
<1>8. \A s \in text.statements : Inside(c, s) => Tells(r, s)
  BY <1>2, <1>4, <1>5 DEF Tells
<1>9. \A i \in 1..Len(r) : r[i].statement \in text.statements
  BY <1>2, <1>4, <1>5
<1> QED BY <1>6, <1>7, <1>8, <1>9 DEF r

(* What is picked of items that tell of everything once. *)
LEMMA PickedTells ==
    ASSUME NEW ms \in Seq(Memo), NEW S \in SUBSET (1..Len(ms))
    PROVE  LET p == Picked(ms, S)
           IN  /\ p \in Seq(Memo)
               /\ \A k \in 1..Len(p) : \E i \in S : p[k] = ms[i]
               /\ \A i \in S : \E k \in 1..Len(p) : p[k] = ms[i]
               /\ (\A i, j \in S : Key(ms[i]) = Key(ms[j]) => i = j) => Once(p)
<1> DEFINE p == Picked(ms, S)
<1>1. p \in Seq(Memo) /\ Picks(p, ms, S)
  <2>1. S \cap (1..Len(ms)) = S
    OBVIOUS
  <2> QED BY <2>1, PickedPicks
<1> HIDE DEF p
<1>2. PICK g \in [1..Len(p) -> S] : /\ \A a, b \in 1..Len(p) : g[a] = g[b] => a = b
                                    /\ \A i \in S : \E a \in 1..Len(p) : g[a] = i
                                    /\ \A a \in 1..Len(p) : p[a] = ms[g[a]]
  BY <1>1 DEF Picks
<1>3. \A k \in 1..Len(p) : \E i \in S : p[k] = ms[i]
  BY <1>2
<1>4. \A i \in S : \E k \in 1..Len(p) : p[k] = ms[i]
  BY <1>2
<1>5. (\A i, j \in S : Key(ms[i]) = Key(ms[j]) => i = j) => Once(p)
  <2> SUFFICES ASSUME \A i, j \in S : Key(ms[i]) = Key(ms[j]) => i = j,
                      NEW a \in 1..Len(p), NEW b \in 1..Len(p), Key(p[a]) = Key(p[b])
               PROVE  a = b
    BY DEF Once
  <2>1. g[a] \in S /\ g[b] \in S /\ p[a] = ms[g[a]] /\ p[b] = ms[g[b]]
    BY <1>2
  <2>2. g[a] = g[b]
    BY <2>1
  <2> QED BY <1>2, <2>2
<1> QED BY <1>1, <1>3, <1>4, <1>5 DEF p

(* The answer about one chunk: what is in it, once. *)
LEMMA AnswerTells ==
    ASSUME text.statements \in SUBSET Statement, IsFiniteSet(text.statements),
           NEW c \in Part, NEW t \in Dates \X {"null", "other"}
    PROVE  LET r == PostProcess(Replies(c, t))
           IN  /\ r \in Seq(Memo) /\ Once(r) /\ Only(r)
               /\ \A s \in text.statements : Inside(c, s) /\ Wanted(s) => Tells(r, s)
<1> DEFINE m == Replies(c, t)
           r == PostProcess(m)
<1> SUFFICES /\ r \in Seq(Memo) /\ Once(r) /\ Only(r)
             /\ \A s \in text.statements : Inside(c, s) /\ Wanted(s) => Tells(r, s)
  BY Zenon
<1>1. /\ m \in Seq(Memo) /\ Once(m)
      /\ \A i \in 1..Len(m) : m[i].statement \in text.statements
      /\ \A s \in text.statements : Inside(c, s) => Tells(m, s)
  BY RepliesTell, Zenon
<1> HIDE DEF m
<1>2. CASE input.kind = "repo_commits"
  <2>1. r = [i \in DOMAIN m |-> [m[i] EXCEPT !.completed = IsAction(m[i].statement)]]
    BY <1>2 DEF PostProcess
  <2> HIDE DEF r
  <2>2. DOMAIN m = 1..Len(m) /\ Len(m) \in Nat /\ \A i \in 1..Len(m) : m[i] \in Memo
    BY <1>1
  <2>3. ASSUME NEW i \in 1..Len(m)
        PROVE  r[i] \in Memo /\ r[i].statement = m[i].statement /\ Key(r[i]) = Key(m[i])
               /\ (IsAction(r[i].statement) => r[i].completed)
    BY <2>1, <2>2 DEF Memo, IsAction, Key
  <2>4. r = [i \in 1..Len(m) |-> r[i]] /\ Len(r) = Len(m)
    BY <2>1, <2>2
  <2>5. r \in Seq(Memo)
    <3>1. r \in [1..Len(m) -> Memo]
      BY <2>3, <2>4
    <3> QED BY <2>2, <3>1
  <2>6. Once(r)
    BY <1>1, <2>3, <2>4 DEF Once
  <2>7. Only(r)
    BY <1>1, <1>2, <2>3, <2>4 DEF Only, Wanted
  <2>8. \A s \in text.statements : Inside(c, s) => Tells(r, s)
    BY <1>1, <2>3, <2>4 DEF Tells
  <2> QED BY <2>5, <2>6, <2>7, <2>8
<1>3. CASE input.kind = "repo_readme"
  <2> DEFINE S == {i \in DOMAIN m : ~Blocked(m[i].statement)}
  <2>1. r = Picked(m, S)
    BY <1>3 DEF PostProcess
  <2>2. S \in SUBSET (1..Len(m)) /\ \A i \in 1..Len(m) : ~Blocked(m[i].statement) => i \in S
    BY <1>1
  <2>3. \A i \in S : ~Blocked(m[i].statement)
    OBVIOUS
  <2> HIDE DEF r, S
  <2>4. /\ r \in Seq(Memo)
        /\ \A k \in 1..Len(r) : \E i \in S : r[k] = m[i]
        /\ \A i \in S : \E k \in 1..Len(r) : r[k] = m[i]
        /\ (\A i, j \in S : Key(m[i]) = Key(m[j]) => i = j) => Once(r)
    BY <1>1, <2>1, <2>2, PickedTells
  <2>5. Once(r)
    BY <1>1, <2>2, <2>4 DEF Once
  <2>6. Only(r)
    <3> SUFFICES ASSUME NEW k \in 1..Len(r)
                 PROVE  r[k].statement \in text.statements /\ ~Blocked(r[k].statement)
      BY <1>3 DEF Only, Wanted
    <3> QED BY <1>1, <2>2, <2>3, <2>4
  <2>7. ASSUME NEW s \in text.statements, Inside(c, s), Wanted(s) PROVE Tells(r, s)
    <3>1. PICK i \in 1..Len(m) : m[i].statement = s
      BY <1>1, <2>7 DEF Tells
    <3>2. i \in S
      BY <1>3, <2>2, <2>7, <3>1 DEF Wanted
    <3> QED BY <2>4, <3>1, <3>2 DEF Tells
  <2> QED BY <2>4, <2>5, <2>6, <2>7
<1>4. CASE input.kind # "repo_commits" /\ input.kind # "repo_readme"
  <2>1. r = m
    BY <1>4 DEF PostProcess
  <2>2. Only(m)
    BY <1>1, <1>4 DEF Only, Wanted
  <2> HIDE DEF r
  <2> QED BY <1>1, <2>1, <2>2
<1> QED BY <1>2, <1>3, <1>4

(* Joining loses nothing and leaves nothing twice. *)
LEMMA DedupTells ==
    ASSUME NEW ms \in Seq(Memo)
    PROVE  LET d == Dedup(ms)
           IN  /\ d \in Seq(Memo) /\ Once(d)
               /\ Only(ms) => Only(d)
               /\ \A s : Tells(ms, s) => Tells(d, s)
<1> DEFINE S == {i \in DOMAIN ms : \A j \in 1..(i - 1) : Key(ms[j]) # Key(ms[i])}
           d == Dedup(ms)
<1>1. d = Picked(ms, S)
  BY DEF Dedup
<1>2. S \in SUBSET (1..Len(ms)) /\ Len(ms) \in Nat
  OBVIOUS
<1>3. \A i, j \in S : Key(ms[i]) = Key(ms[j]) => i = j
  <2> SUFFICES ASSUME NEW i \in S, NEW j \in S, Key(ms[i]) = Key(ms[j]), i # j PROVE FALSE
    OBVIOUS
  <2>1. i \in 1..(j - 1) \/ j \in 1..(i - 1)
    BY <1>2
  <2> QED BY <2>1
<1>4. ASSUME NEW k \in 1..Len(ms) PROVE \E i \in S : ms[i].statement = ms[k].statement
  <2> DEFINE T == {i \in 1..Len(ms) : Key(ms[i]) = Key(ms[k])}
  <2>1. PICK i \in T : \A j \in T : i <= j
    <3>1. T \in SUBSET Nat /\ T # {}
      OBVIOUS
    <3> HIDE DEF T
    <3> QED BY <3>1, LeastNumber
  <2>2. i \in S
    <3> SUFFICES ASSUME NEW j \in 1..(i - 1) PROVE Key(ms[j]) # Key(ms[i])
      OBVIOUS
    <3>1. j \in 1..Len(ms) /\ ~(i <= j)
      BY <1>2
    <3> QED BY <2>1, <3>1
  <2>3. ms[i].statement = ms[k].statement
    BY <2>1 DEF Key
  <2> QED BY <2>2, <2>3
<1> HIDE DEF S, d
<1>5. /\ d \in Seq(Memo)
      /\ \A k \in 1..Len(d) : \E i \in S : d[k] = ms[i]
      /\ \A i \in S : \E k \in 1..Len(d) : d[k] = ms[i]
      /\ Once(d)
  BY <1>1, <1>2, <1>3, PickedTells
<1>6. Only(ms) => Only(d)
  <2> SUFFICES ASSUME Only(ms), NEW k \in 1..Len(d)
               PROVE  /\ d[k].statement \in text.statements /\ Wanted(d[k].statement)
                      /\ input.kind = "repo_commits" /\ IsAction(d[k].statement) => d[k].completed
    BY DEF Only
  <2>1. PICK i \in 1..Len(ms) : d[k] = ms[i]
    BY <1>2, <1>5
  <2> QED BY <2>1 DEF Only
<1>7. ASSUME NEW s, Tells(ms, s) PROVE Tells(d, s)
  <2>1. PICK k \in 1..Len(ms) : ms[k].statement = s
    BY <1>7 DEF Tells
  <2>2. PICK i \in S : ms[i].statement = s
    BY <1>4, <2>1
  <2> QED BY <1>5, <2>2 DEF Tells
<1> QED BY <1>5, <1>6, <1>7 DEF d

(* The text that was read of the input: the statements lie in its paragraphs. *)
TextRead ==
    /\ text.units \in Seq(Nat)
    /\ text.statements \in SUBSET Statement /\ IsFiniteSet(text.statements)
    /\ \A s \in text.statements :
          \E u \in 1..Len(text.units) : Stretch(text.units, u, s.from, s.to)
    /\ input.kind = "transcript" => Sizes(text.units) = Lines + NoticeSize
(* What was found so far: every statement of the chunks that were asked about, unless one of  *)
(* them failed, and only statements of the text that are wanted of this kind of source.        *)
FoundSoFar ==
    /\ chunks = SplitChunks(text.units)
    /\ idx \in 0..Len(chunks) /\ failed \in Nat /\ progress = <<idx, Len(chunks)>>
    /\ found \in Seq(Memo) /\ Only(found)
    /\ failed = 0 => \A s \in text.statements, k \in 1..idx :
                        Inside(chunks[k], s) /\ Wanted(s) => Tells(found, s)
    /\ idx = 0 => found = <<>>
    /\ Len(chunks) = 1 => Once(found)
(* The inductive invariant: what a stage has read and found, and that nothing is stored before *)
(* the last one.                                                                                *)
ExtractInv ==
    /\ input \in Input
    /\ stage \in {"submitted", "read", "extracting", "ingested", "failed"}
    /\ stage \in {"submitted", "read"} =>
          chunks = <<>> /\ idx = 0 /\ found = <<>> /\ failed = 0 /\ progress = <<0, 0>>
    /\ stage \in {"read", "extracting"} => TextRead
    /\ stage = "extracting" => FoundSoFar
    /\ stage # "ingested" => stored = None
    /\ StoredIsWhole

(* A document or a source of a repository: its paragraphs are those of the text. *)
LEMMA TextOfParagraphs ==
    ASSUME ExtractionAssumption, NEW units \in Seq(Nat), NEW s \in Statements(units, 0)
    PROVE  \E u \in 1..Len(units) : Stretch(units, u, s.from, s.to)
<1>1. PICK u \in 1..Len(units) : /\ 0 + Lengths(units)[u - 1] <= s.from
                                 /\ s.to <= 0 + Lengths(units)[u]
  BY StatementsAreShort
<1>2. s.from <= s.to /\ s.to - s.from <= Shared
  BY StatementsAreShort
<1>3. Lengths(units)[u - 1] \in Nat /\ Lengths(units)[u] \in Nat
  <2>1. u - 1 \in 0..Len(units) /\ u \in 0..Len(units)
    OBVIOUS
  <2> QED BY <2>1, LengthsSum
<1> QED BY <1>1, <1>2, <1>3 DEF Stretch

LEMMA LengthOfOne == ASSUME NEW n \in Nat PROVE Lengths(<<n>>)[0] = 0 /\ Lengths(<<n>>)[1] = n
<1>1. <<n>> \in Seq(Nat) /\ Len(<<n>>) = 1 /\ <<n>>[1] = n /\ 1 \in 1..1 /\ 1 - 1 = 0
  OBVIOUS
<1>2. Lengths(<<n>>)[0] = 0 /\ Lengths(<<n>>)[1] = Lengths(<<n>>)[1 - 1] + <<n>>[1]
  BY <1>1, LengthsSum
<1> QED BY <1>1, <1>2

(* A recording: one paragraph, whose statements are those of its segments. *)
LEMMA TextOfSegments ==
    ASSUME ExtractionAssumption, input \in Input, input.kind = "transcript"
    PROVE  LET lens == [i \in DOMAIN Spoken |-> Spoken[i].length]
               units == <<NoticeSize + Lines>>
           IN  /\ lens \in Seq(Nat) /\ NoticeSize \in Nat /\ Lines \in Nat
               /\ units \in Seq(Nat) /\ Sizes(units) = Lines + NoticeSize
               /\ \A s \in Statements(lens, NoticeSize) :
                     \E u \in 1..Len(units) : Stretch(units, u, s.from, s.to)
<1> DEFINE lens == [i \in DOMAIN Spoken |-> Spoken[i].length]
           n == NoticeSize + Lines
           units == <<n>>
           V == [length : Nat, speaker : BOOLEAN]
<1>1. Spoken \in Seq(V)
  <2>1. input.segments \in Seq(V)
    BY DEF ExtractionAssumption
  <2> DEFINE S == {i \in DOMAIN input.segments : input.segments[i].length > 0}
  <2>2. Picked(input.segments, S) \in Seq(V)
    <3> HIDE DEF S, V
    <3> QED BY <2>1, PickedPicks
  <2> QED BY <2>2 DEF Spoken
<1>2. lens \in Seq(Nat)
  <2>1. Len(Spoken) \in Nat /\ DOMAIN Spoken = 1..Len(Spoken)
    BY <1>1
  <2>2. lens \in [1..Len(Spoken) -> Nat]
    <3>1. \A i \in 1..Len(Spoken) : Spoken[i] \in V
      <4> HIDE DEF V
      <4> QED BY <1>1
    <3>2. \A i \in 1..Len(Spoken) : Spoken[i].length \in Nat
      BY <3>1
    <3> QED BY <2>1, <3>2
  <2> QED BY <2>1, <2>2
<1>3. Lines = Lengths(lens)[Len(lens)]
  BY DEF Lines, Sizes
<1> HIDE DEF lens
<1>4. Lines \in Nat
  <2>1. Len(lens) \in 0..Len(lens)
    BY <1>2
  <2> QED BY <1>2, <1>3, <2>1, LengthsSum
<1>5. NoticeSize \in Nat
  BY DEF NoticeSize, ExtractionAssumption
<1>6. n \in Nat /\ n = Lines + NoticeSize
  BY <1>4, <1>5
<1>7. units \in Seq(Nat) /\ Len(units) = 1
  BY <1>6
<1> HIDE DEF n
<1>8. Lengths(units)[0] = 0 /\ Lengths(units)[1] = n /\ Sizes(units) = n
  BY <1>6, <1>7, LengthOfOne DEF Sizes
<1> HIDE DEF units
<1>9. ASSUME NEW s \in Statements(lens, NoticeSize) PROVE Stretch(units, 1, s.from, s.to)
  <2>1. /\ s \in Statement /\ s.from <= s.to /\ s.to - s.from <= Shared
        /\ \E u \in 1..Len(lens) : /\ NoticeSize + Lengths(lens)[u - 1] <= s.from
                                   /\ s.to <= NoticeSize + Lengths(lens)[u]
    BY <1>2, <1>5, StatementsAreShort
  <2>2. PICK u \in 1..Len(lens) : s.to <= NoticeSize + Lengths(lens)[u]
    BY <2>1
  <2>3. Lengths(lens)[u] \in Nat /\ Lengths(lens)[u] <= Lines
    <3>1. u \in 0..Len(lens) /\ Len(lens) \in 0..Len(lens) /\ u <= Len(lens)
      BY <1>2
    <3> QED BY <1>2, <1>3, <3>1, LengthsSum, LengthsRise
  <2>4. 0 <= s.from /\ s.to <= n
    <3>1. s.from \in Nat /\ s.to \in Nat
      BY <2>1 DEF Statement
    <3> QED BY <1>4, <1>5, <1>6, <2>2, <2>3, <3>1
  <2>5. 1 - 1 = 0
    OBVIOUS
  <2> QED BY <1>8, <2>1, <2>4, <2>5 DEF Stretch
<1>10. 1 \in 1..Len(units)
  BY <1>7
<1>11. \A s \in Statements(lens, NoticeSize) : \E u \in 1..Len(units) : Stretch(units, u, s.from, s.to)
  BY <1>9, <1>10
<1> QED BY <1>2, <1>4, <1>5, <1>6, <1>7, <1>8, <1>11 DEF lens, units, n

LEMMA FoundGrows ==
    ASSUME NEW ms \in Seq(Memo), NEW r \in Seq(Memo)
    PROVE  /\ ms \o r \in Seq(Memo)
           /\ Only(ms) /\ Only(r) => Only(ms \o r)
           /\ \A s : Tells(ms, s) \/ Tells(r, s) => Tells(ms \o r, s)
           /\ ms = <<>> => ms \o r = r
<1>1. /\ ms \o r \in Seq(Memo) /\ Len(ms \o r) = Len(ms) + Len(r)
      /\ Len(ms) \in Nat /\ Len(r) \in Nat
  OBVIOUS
<1>2. ASSUME NEW i \in 1..Len(ms) PROVE i \in 1..Len(ms \o r) /\ (ms \o r)[i] = ms[i]
  OBVIOUS
<1>3. ASSUME NEW i \in 1..Len(r)
      PROVE  Len(ms) + i \in 1..Len(ms \o r) /\ (ms \o r)[Len(ms) + i] = r[i]
  OBVIOUS
<1>4. ASSUME NEW i \in 1..Len(ms \o r)
      PROVE  (\E k \in 1..Len(ms) : (ms \o r)[i] = ms[k]) \/ (\E k \in 1..Len(r) : (ms \o r)[i] = r[k])
  <2>1. CASE i <= Len(ms)
    BY <1>1, <1>2, <2>1
  <2>2. CASE ~(i <= Len(ms))
    <3>1. i - Len(ms) \in 1..Len(r) /\ Len(ms) + (i - Len(ms)) = i
      BY <1>1, <2>2
    <3> QED BY <1>3, <3>1
  <2> QED BY <2>1, <2>2
<1>5. Only(ms) /\ Only(r) => Only(ms \o r)
  BY <1>4 DEF Only
<1>6. \A s : Tells(ms, s) \/ Tells(r, s) => Tells(ms \o r, s)
  BY <1>2, <1>3 DEF Tells
<1>7. ms = <<>> => ms \o r = r
  OBVIOUS
<1> QED BY <1>1, <1>5, <1>6, <1>7

(* Two items that say the same have one key. *)
LEMMA AlikeHaveOneKey == ASSUME NEW a, NEW b, Alike(a, b) PROVE Key(a) = Key(b)
BY DEF Alike, Known, Key, NormDate

(* Items that tell of everything that was wanted, once, and of nothing else. *)
LEMMA WholeItems ==
    ASSUME NEW ms \in Seq(Memo), Only(ms), Once(ms),
           \A s \in text.statements : Wanted(s) => Tells(ms, s)
    PROVE  /\ \A s \in text.statements :
                 {i \in DOMAIN ms : ms[i].statement = s} = {}
                     <=> input.kind = "repo_readme" /\ Blocked(s)
           /\ \A i, j \in DOMAIN ms : /\ ms[i].statement \in text.statements
                                      /\ Alike(ms[i], ms[j]) => i = j
           /\ input.kind = "repo_commits" =>
                 \A i \in DOMAIN ms : IsAction(ms[i].statement) => ms[i].completed
<1>0. DOMAIN ms = 1..Len(ms)
  OBVIOUS
<1>1. ASSUME NEW s \in text.statements
      PROVE  {i \in DOMAIN ms : ms[i].statement = s} = {}
                 <=> input.kind = "repo_readme" /\ Blocked(s)
  <2>1. CASE Wanted(s)
    <3>1. PICK i \in 1..Len(ms) : ms[i].statement = s
      BY <2>1 DEF Tells
    <3>2. {k \in DOMAIN ms : ms[k].statement = s} # {}
      BY <1>0, <3>1
    <3> QED BY <2>1, <3>2 DEF Wanted
  <2>2. CASE ~Wanted(s)
    <3>1. {i \in DOMAIN ms : ms[i].statement = s} = {}
      BY <1>0, <2>2 DEF Only
    <3> QED BY <2>2, <3>1 DEF Wanted
  <2> QED BY <2>1, <2>2
<1>2. ASSUME NEW i \in DOMAIN ms, NEW j \in DOMAIN ms
      PROVE  ms[i].statement \in text.statements /\ (Alike(ms[i], ms[j]) => i = j)
  BY <1>0, AlikeHaveOneKey DEF Only, Once
<1>3. ASSUME input.kind = "repo_commits", NEW i \in DOMAIN ms, IsAction(ms[i].statement)
      PROVE  ms[i].completed
  BY <1>0, <1>3 DEF Only
<1> QED BY <1>1, <1>2, <1>3

(* When every chunk was answered, every statement that is wanted was found. *)
LEMMA AllFound ==
    ASSUME ExtractionAssumption, TextRead, FoundSoFar, failed = 0, idx = Len(chunks)
    PROVE  \A s \in text.statements : Wanted(s) => Tells(found, s)
<1> SUFFICES ASSUME NEW s \in text.statements, Wanted(s) PROVE Tells(found, s)
  OBVIOUS
<1>1. s \in Statement /\ s.from \in Nat /\ s.to \in Nat
  BY DEF TextRead, Statement
<1>2. PICK u \in 1..Len(text.units) : Stretch(text.units, u, s.from, s.to)
  BY DEF TextRead
<1>3. text.units \in Seq(Nat)
  BY DEF TextRead
<1>4. Covered(chunks, s.from, s.to)
  BY <1>1, <1>2, <1>3, SplitCovers DEF FoundSoFar
<1>5. PICK k \in 1..Len(chunks) : Inside(chunks[k], s)
  BY <1>4 DEF Covered, Inside
<1> QED BY <1>5 DEF FoundSoFar

LEMMA SplitIsParts ==
    ASSUME ExtractionAssumption, TextRead, FoundSoFar
    PROVE  chunks \in Seq(Part) /\ Len(chunks) \in Nat
<1>1. text.units \in Seq(Nat)
  BY DEF TextRead
<1>2. chunks \in Seq(Part)
  BY <1>1, SplitCovers DEF FoundSoFar
<1> QED BY <1>2

LEMMA ExtractInit == ASSUME Init PROVE ExtractInv
BY DEF Init, ExtractInv, StoredIsWhole

LEMMA Reading ==
    ASSUME ExtractionAssumption, ExtractInv, ReadText
    PROVE  ExtractInv'
<1> DEFINE units == input.units
<1>1. units \in Seq(Nat) /\ input.kind # "transcript"
  <2>1. input \in Input /\ input.kind # "transcript"
    BY DEF ExtractInv, ReadText
  <2> QED BY <2>1 DEF ExtractionAssumption
<1>2. text' = [units |-> units, statements |-> Statements(units, 0)]
  BY DEF ReadText
<1> HIDE DEF units
<1>3. \A s \in Statements(units, 0) : s \in Statement
  BY <1>1, StatementsAreShort
<1>4. IsFiniteSet(Statements(units, 0))
  BY <1>1, StatementsAreFinite
<1>5. \A s \in Statements(units, 0) : \E u \in 1..Len(units) : Stretch(units, u, s.from, s.to)
  BY <1>1, TextOfParagraphs
<1>6. text'.units = units /\ text'.statements = Statements(units, 0) /\ input' = input
  BY <1>2 DEF ReadText
<1>7. TextRead'
  BY <1>1, <1>3, <1>4, <1>5, <1>6 DEF TextRead
<1> QED BY <1>7 DEF ReadText, ExtractInv, StoredIsWhole

LEMMA Transcribing ==
    ASSUME ExtractionAssumption, ExtractInv, Transcribe
    PROVE  ExtractInv'
<1>1. CASE stage' = "failed"
  BY <1>1 DEF Transcribe, ExtractInv, StoredIsWhole
<1>2. CASE stage' = "read"
  <2> DEFINE lens == [i \in DOMAIN Spoken |-> Spoken[i].length]
             units == <<NoticeSize + Lines>>
             S == Statements(lens, NoticeSize)
  <2>1. input \in Input /\ input.kind = "transcript" /\ input' = input
    BY DEF ExtractInv, Transcribe
  <2>2. text' = [units |-> units, statements |-> S]
    BY <1>2 DEF Transcribe
  <2>3. /\ lens \in Seq(Nat) /\ NoticeSize \in Nat /\ Lines \in Nat
        /\ units \in Seq(Nat) /\ Sizes(units) = Lines + NoticeSize
        /\ \A s \in S : \E u \in 1..Len(units) : Stretch(units, u, s.from, s.to)
    BY <2>1, TextOfSegments, Zenon
  <2> HIDE DEF lens, units
  <2>4. IsFiniteSet(S) /\ \A s \in S : s \in Statement
    BY <2>3, StatementsAreFinite, StatementsAreShort
  <2> HIDE DEF S
  <2>5. text'.units = units /\ text'.statements = S /\ Lines' = Lines /\ NoticeSize' = NoticeSize
    BY <2>1, <2>2 DEF Lines, NoticeSize, Spoken, HasSpeakers
  <2>6. TextRead'
    BY <2>1, <2>3, <2>4, <2>5 DEF TextRead
  <2> QED BY <1>2, <2>6 DEF Transcribe, ExtractInv, StoredIsWhole
<1> QED BY <1>1, <1>2 DEF Transcribe

LEMMA Beginning ==
    ASSUME ExtractionAssumption, ExtractInv, BeginExtract
    PROVE  ExtractInv'
<1>1. TextRead /\ stage = "read" /\ idx = 0 /\ found = <<>> /\ failed = 0
  BY DEF BeginExtract, ExtractInv
<1>2. /\ chunks' = SplitChunks(text.units) /\ progress' = <<0, Len(chunks')>>
      /\ stage' = "extracting"
      /\ UNCHANGED <<input, text, idx, found, failed, stored>>
  BY DEF BeginExtract
<1>3. text.units \in Seq(Nat)
  BY <1>1 DEF TextRead
<1>4. SplitChunks(text.units) \in Seq(Part)
  BY <1>3, SplitCovers
<1>5. chunks' \in Seq(Part) /\ Len(chunks') \in Nat
  BY <1>2, <1>4
<1>6. TextRead'
  BY <1>1, <1>2 DEF TextRead, Stretch, Lines, NoticeSize, Spoken, HasSpeakers
<1>7. FoundSoFar'
  <2>1. found' = <<>> /\ idx' = 0 /\ failed' = 0 /\ idx' \in 0..Len(chunks')
    BY <1>1, <1>2, <1>5
  <2>2. <<>> \in Seq(Memo) /\ Len(<<>>) = 0
    OBVIOUS
  <2>3. Only(found)' /\ Once(found)'
    BY <2>1 DEF Only, Once
  <2> QED BY <1>2, <2>1, <2>2, <2>3 DEF FoundSoFar
<1> QED BY <1>1, <1>2, <1>6, <1>7 DEF ExtractInv, StoredIsWhole

(* The text stays while the chunks are asked about. *)
LEMMA TextStays ==
    ASSUME TextRead, UNCHANGED <<input, text>>
    PROVE  TextRead'
BY DEF TextRead, Stretch, Lines, NoticeSize, Spoken, HasSpeakers

LEMMA Extracting ==
    ASSUME ExtractionAssumption, ExtractInv, NEW t \in Telling, ExtractChunk(t)
    PROVE  ExtractInv'
<1>1. TextRead /\ FoundSoFar /\ stage = "extracting" /\ idx < Len(chunks)
  BY DEF ExtractChunk, ExtractInv
<1>2. chunks \in Seq(Part) /\ Len(chunks) \in Nat /\ idx \in Nat
  BY <1>1, SplitIsParts DEF FoundSoFar
<1> DEFINE c == chunks[idx + 1]
           r == PostProcess(Replies(c, t))
<1>3. c \in Part /\ idx + 1 \in 1..Len(chunks)
  BY <1>1, <1>2
<1>4. /\ r \in Seq(Memo) /\ Once(r) /\ Only(r)
      /\ \A s \in text.statements : Inside(c, s) /\ Wanted(s) => Tells(r, s)
  <2>1. text.statements \in SUBSET Statement /\ IsFiniteSet(text.statements)
    BY <1>1 DEF TextRead
  <2>2. t \in Dates \X {"null", "other"}
    BY DEF ExtractionAssumption
  <2> HIDE DEF c
  <2> QED BY <1>3, <2>1, <2>2, AnswerTells, Zenon
<1>5. /\ found' = found \o r /\ idx' = idx + 1 /\ progress' = <<idx + 1, Len(chunks)>>
      /\ UNCHANGED <<input, text, chunks, failed, stage, stored>>
  BY DEF ExtractChunk, Asked
<1> HIDE DEF r
<1>6. /\ found \o r \in Seq(Memo) /\ Only(found \o r)
      /\ \A s : Tells(found, s) \/ Tells(r, s) => Tells(found \o r, s)
      /\ found = <<>> => found \o r = r
  BY <1>1, <1>4, FoundGrows DEF FoundSoFar
<1>7. failed = 0 => \A s \in text.statements, k \in 1..(idx + 1) :
                       Inside(chunks[k], s) /\ Wanted(s) => Tells(found \o r, s)
  <2> SUFFICES ASSUME failed = 0, NEW s \in text.statements, NEW k \in 1..(idx + 1),
                      Inside(chunks[k], s), Wanted(s)
               PROVE  Tells(found \o r, s)
    OBVIOUS
  <2>1. CASE k = idx + 1
    BY <1>4, <1>6, <2>1
  <2>2. CASE k # idx + 1
    <3>1. k \in 1..idx
      BY <1>2, <2>2
    <3> QED BY <1>1, <1>6, <3>1 DEF FoundSoFar
  <2> QED BY <2>1, <2>2
<1>8. Len(chunks) = 1 => Once(found \o r)
  <2> SUFFICES ASSUME Len(chunks) = 1 PROVE Once(found \o r)
    OBVIOUS
  <2>1. idx = 0
    BY <1>1, <1>2
  <2> QED BY <1>1, <1>4, <1>6, <2>1 DEF FoundSoFar
<1>9. FoundSoFar'
  <2> DEFINE all == found \o r
  <2>1. Only(found)' /\ (failed = 0 => \A s \in text.statements, k \in 1..idx :
                            Inside(chunks[k], s) /\ Wanted(s) => Tells(found, s))'
        /\ (Len(chunks) = 1 => Once(found))'
    <3> HIDE DEF c
    <3> QED BY <1>5, <1>6, <1>7, <1>8 DEF Only, Wanted, Tells, Once
  <2>2. idx' # 0 /\ idx' \in 0..Len(chunks') /\ failed' \in Nat
    BY <1>1, <1>2, <1>5 DEF FoundSoFar
  <2> QED BY <1>1, <1>5, <1>6, <2>1, <2>2 DEF FoundSoFar
<1> QED BY <1>1, <1>5, <1>9, TextStays DEF ExtractInv, StoredIsWhole

LEMMA Failing ==
    ASSUME ExtractionAssumption, ExtractInv, ChunkFails
    PROVE  ExtractInv'
<1>1. TextRead /\ FoundSoFar /\ stage = "extracting" /\ idx < Len(chunks)
  BY DEF ChunkFails, ExtractInv
<1>2. Len(chunks) \in Nat /\ idx \in Nat /\ failed \in Nat
  BY <1>1, SplitIsParts DEF FoundSoFar
<1>3. /\ failed' = failed + 1 /\ idx' = idx + 1 /\ progress' = <<idx + 1, Len(chunks)>>
      /\ UNCHANGED <<input, text, chunks, found, stage, stored>>
  BY DEF ChunkFails, Asked
<1>4. FoundSoFar'
  <2>1. failed' # 0 /\ failed' \in Nat /\ idx' # 0 /\ idx' \in 0..Len(chunks')
    BY <1>1, <1>2, <1>3
  <2>2. Only(found)' /\ (Len(chunks) = 1 => Once(found))'
    BY <1>1, <1>3 DEF FoundSoFar, Only, Wanted, Once
  <2> QED BY <1>1, <1>3, <2>1, <2>2 DEF FoundSoFar
<1> QED BY <1>1, <1>3, <1>4, TextStays DEF ExtractInv, StoredIsWhole

LEMMA Ingesting ==
    ASSUME ExtractionAssumption, ExtractInv, Ingest
    PROVE  ExtractInv'
<1>1. TextRead /\ FoundSoFar /\ stage = "extracting" /\ idx = Len(chunks) /\ failed = 0
  BY DEF Ingest, ExtractInv
<1> DEFINE ms == IF Len(chunks) = 1 THEN found ELSE Dedup(found)
<1>2. ms \in Seq(Memo) /\ Only(ms) /\ Once(ms)
      /\ \A s \in text.statements : Wanted(s) => Tells(ms, s)
  <2>1. /\ found \in Seq(Memo) /\ Only(found)
        /\ \A s \in text.statements : Wanted(s) => Tells(found, s)
    BY <1>1, AllFound DEF FoundSoFar
  <2>2. CASE Len(chunks) = 1
    BY <1>1, <2>1, <2>2 DEF FoundSoFar
  <2>3. CASE Len(chunks) # 1
    <3> DEFINE d == Dedup(found)
    <3>1. d \in Seq(Memo) /\ Once(d) /\ (Only(found) => Only(d))
          /\ \A s : Tells(found, s) => Tells(d, s)
      BY <2>1, DedupTells, Zenon
    <3>2. ms = d
      BY <2>3
    <3> HIDE DEF d, ms
    <3> QED BY <2>1, <3>1, <3>2
  <2> QED BY <2>2, <2>3
<1>3. /\ stored' = [items |-> ms, warned |-> FALSE,
                    size |-> IF input.kind = "transcript" THEN Lines ELSE Sizes(input.units)]
      /\ stage' = "ingested"
      /\ UNCHANGED <<input, text, chunks, idx, found, failed, progress>>
  BY DEF Ingest, Stored
<1> HIDE DEF ms
<1>4. /\ \A s \in text.statements :
            {i \in DOMAIN ms : ms[i].statement = s} = {}
                <=> input.kind = "repo_readme" /\ Blocked(s)
      /\ \A i, j \in DOMAIN ms : /\ ms[i].statement \in text.statements
                                 /\ Alike(ms[i], ms[j]) => i = j
      /\ input.kind = "repo_commits" =>
            \A i \in DOMAIN ms : IsAction(ms[i].statement) => ms[i].completed
  BY <1>2, WholeItems
<1>5. stored'.items = ms /\ stored'.warned = FALSE
      /\ (input.kind = "transcript" => stored'.size = Lines)
  BY <1>3
<1>6. Whole'
  <2>1. (\A s \in text.statements :
            Copies(s) = {} <=> input.kind = "repo_readme" /\ Blocked(s))'
    BY <1>3, <1>4, <1>5 DEF Copies
  <2>s. (\A i, j \in DOMAIN stored.items :
            /\ stored.items[i].statement \in text.statements
            /\ Alike(stored.items[i], stored.items[j]) => i = j)'
    BY <1>3, <1>4, <1>5 DEF Alike
  <2>2. (failed = 0 /\ progress = <<Len(chunks), Len(chunks)>>)'
    BY <1>1, <1>3 DEF FoundSoFar
  <2>3. (input.kind = "repo_commits" =>
            \A i \in DOMAIN stored.items :
               IsAction(stored.items[i].statement) => stored.items[i].completed)'
    BY <1>3, <1>4, <1>5
  <2>4. (input.kind = "transcript" => Sizes(text.units) = stored.size + NoticeSize)'
    BY <1>1, <1>3, <1>5 DEF TextRead, NoticeSize, HasSpeakers, Spoken
  <2> QED BY <2>1, <2>2, <2>3, <2>4, <2>s DEF Whole
<1> QED BY <1>3, <1>5, <1>6 DEF ExtractInv, StoredIsWhole

LEMMA Giving ==
    ASSUME ExtractionAssumption, ExtractInv, ExtractFails \/ IngestFails
    PROVE  ExtractInv'
<1>1. CASE ExtractFails /\ Repository
  <2>1. /\ stored' = [items |-> <<>>, warned |-> TRUE,
                      size |-> IF input.kind = "transcript" THEN Lines ELSE Sizes(input.units)]
        /\ stage' = "ingested" /\ input' = input
    BY <1>1 DEF ExtractFails, Stored
  <2>2. stored'.items = <<>> /\ stored'.warned = TRUE /\ Repository'
    BY <1>1, <2>1 DEF Repository
  <2> QED BY <2>1, <2>2 DEF ExtractInv, StoredIsWhole
<1>2. CASE (ExtractFails /\ ~Repository) \/ IngestFails
  <2>1. stage = "extracting" /\ stage' = "failed" /\ stored' = stored /\ input' = input
    BY <1>2 DEF ExtractFails, IngestFails
  <2> QED BY <2>1 DEF ExtractInv, StoredIsWhole
<1> QED BY <1>1, <1>2

LEMMA ExtractStays == ASSUME ExtractInv, UNCHANGED vars PROVE ExtractInv'
<1>1. TextRead => TextRead'
  BY TextStays DEF vars
<1>2. FoundSoFar => FoundSoFar'
  BY DEF vars, FoundSoFar, Only, Wanted, Tells, Once
<1>3. StoredIsWhole => StoredIsWhole'
  <2>1. Whole => Whole'
    BY DEF vars, Whole, Copies, Alike, NoticeSize, Spoken, HasSpeakers
  <2>2. UNCHANGED <<stage, stored, input>>
    BY DEF vars
  <2> QED BY <2>1, <2>2 DEF StoredIsWhole, Repository
<1> QED BY <1>1, <1>2, <1>3 DEF ExtractInv, vars

LEMMA ExtractStep ==
    ASSUME ExtractionAssumption, ExtractInv, [Next]_vars
    PROVE  ExtractInv'
BY Reading, Transcribing, Beginning, Extracting, Failing, Ingesting, Giving, ExtractStays
   DEF Next

(* StoredIsWhole: whatever the sizes of chunk and overlap, and wherever a text or a recording *)
(* is cut, what is stored without a warning holds every statement no longer than the overlap,  *)
(* but for what a README tells of its setup, and no statement of one day and one source twice;  *)
(* a source of a repository of which some chunk failed is stored without items and with a         *)
(* warning, and of other sources nothing is (extractor.py:10, stt/pipeline.py:40).               *)
THEOREM StoredAlwaysWhole == Spec => []StoredIsWhole
<1>1. Init => ExtractInv
  BY ExtractInit
<1>2. ExtractInv /\ [Next]_vars => ExtractInv'
  BY ExtractionAssumption, ExtractStep
<1>3. ExtractInv => StoredIsWhole
  BY DEF ExtractInv
<1> QED BY <1>1, <1>2, <1>3, PTL DEF Spec
=============================================================================
