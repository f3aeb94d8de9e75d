------------------------ MODULE RepositoryCollection ------------------------
(* What one sync reads of a repository on GitHub, request by request, while the   *)
(* repository changes under it, and what the row of the repository says of it      *)
(* afterwards.  The fence and the staging of the generation are RepositorySync's.  *)
(*   src/backend/api/repository.py                                                  *)
EXTENDS Naturals, FiniteSets

CONSTANTS MaxPushes, \* bound: pushes and other changes of the repository on GitHub
          MaxSyncs,  \* bound: syncs
          MaxFaults  \* bound: requests that fail

VARIABLES head,    \* commit the branch is at
          readme,  \* README of each commit; "blank" also when GitHub sends no content
          open,    \* what is open: issues, pull requests, as many as a page holds and newer
          gone,    \* the repository was deleted or hidden
          row,     \* the row in repositories, and the generation published with it
          at,      \* the request the sync makes next
          sha, sources, warnings, \* what it has collected
          had,     \* history: the kinds GitHub had something of when it was asked
          crowded, \* history: of these, those the page that was read shows nothing of
          syncs, faults
vars == <<head, readme, open, gone, row, at, sha, sources, warnings, had, crowded, syncs, faults>>
github == <<head, readme, open, gone>>

Commit == 0..MaxPushes
Source(name) == [name |-> name, ref |-> sha]
NoRow == [status |-> "none", commit |-> 0, warned |-> FALSE, error |-> "none",
          published |-> {}, had |-> {}, crowded |-> {}]
Opens == {o \in SUBSET {"issue", "pull", "crowd"} : "crowd" \in o => "pull" \in o}

Init == /\ head = 0 /\ gone = FALSE
        /\ readme \in [Commit -> {"absent", "blank", "text"}]
        /\ open \in Opens
        /\ row = NoRow /\ at = "idle"
        /\ sha = 0 /\ sources = {} /\ warnings = {} /\ had = {} /\ crowded = {}
        /\ syncs = 0 /\ faults = 0

-----------------------------------------------------------------------------
(* A push; or, counted as one, an issue or a pull request is opened or closed.     *)
Push == /\ head < MaxPushes /\ ~gone /\ head' = head + 1
        /\ open' \in Opens
        /\ UNCHANGED <<readme, gone, row, at, sha, sources, warnings, had, crowded, syncs, faults>>
Hide == /\ ~gone /\ gone' = TRUE
        /\ UNCHANGED <<head, readme, open, row, at, sha, sources, warnings, had, crowded, syncs, faults>>

Fault == faults < MaxFaults /\ faults' = faults + 1
(* _gh_get: 401, 403, 404, or anything else; GitHub says 404 of what is hidden. *)
Answered == ~gone /\ UNCHANGED faults
Denied(kind) == \/ gone /\ kind = "not_found" /\ UNCHANGED faults
                \/ ~gone /\ kind \in {"auth", "permission", "unavailable"} /\ Fault
Kinds == {"auth", "permission", "not_found", "unavailable"}

(* _parse_github_full_name, the metadata of the repository, its default branch. *)
Connect ==
    /\ row.status = "none" /\ at = "idle"
    /\ Answered
    /\ row' = [row EXCEPT !.status = "connected"]
    /\ UNCHANGED <<github, at, sha, sources, warnings, had, crowded, syncs>>
ConnectFails ==
    /\ row.status = "none" /\ at = "idle"
    /\ \E kind \in Kinds : Denied(kind)
    /\ UNCHANGED <<github, row, at, sha, sources, warnings, had, crowded, syncs>>

(* The token of the GitHub session first, then the claim; an old warning goes. *)
Claim ==
    /\ row.status # "none" /\ at = "idle" /\ syncs < MaxSyncs
    /\ row' = [row EXCEPT !.status = "syncing", !.warned = FALSE, !.error = "none"]
    /\ at' = "head" /\ syncs' = syncs + 1
    /\ sources' = {} /\ warnings' = {} /\ had' = {} /\ crowded' = {}
    /\ UNCHANGED <<github, sha, faults>>

(* _set_repo_status: a run that failed leaves what the last one published. *)
SetFailed(code) ==
    /\ row' = [row EXCEPT !.status = "failed", !.error = code]
    /\ at' = "idle"
    /\ UNCHANGED <<github, sha, sources, warnings, had, crowded, syncs>>

SetStatus(status, commit) ==
    row' = IF status = "indexed"
           THEN [row EXCEPT !.status = status, !.commit = commit, !.published = sources,
                            !.had = had, !.crowded = crowded, !.warned = warnings # {}]
           ELSE [row EXCEPT !.status = status, !.error = "ingest"]

GetHead ==
    /\ at = "head"
    /\ \/ Answered /\ sha' = head /\ at' = "commits"
          /\ UNCHANGED <<github, row, sources, warnings, had, crowded, syncs>>
       \/ \E kind \in Kinds : Denied(kind) /\ SetFailed(kind)
(* The log of a commit holds at least that commit. *)
GetCommits ==
    /\ at = "commits"
    /\ \/ Answered /\ sources' = {Source("commits")} /\ had' = {"commits"} /\ at' = "readme"
          /\ UNCHANGED <<github, row, sha, warnings, crowded, syncs>>
       \/ \E kind \in Kinds : Denied(kind) /\ SetFailed(kind)

(* What may be missing: a failed request is a warning, the sync goes on.  Of what there *)
(* is, one page is read, which may not show it.                                          *)
Collect(name, present, shown, quiet, next) ==
    /\ had' = IF present THEN had \cup {name} ELSE had
    /\ crowded' = IF present /\ ~shown THEN crowded \cup {name} ELSE crowded
    /\ at' = next
    /\ \/ /\ Answered /\ UNCHANGED warnings
          /\ sources' = IF shown THEN sources \cup {Source(name)} ELSE sources
       \/ /\ UNCHANGED sources
          /\ \E kind \in Kinds :
                /\ Denied(kind)
                /\ warnings' = IF kind \in quiet THEN warnings ELSE warnings \cup {name}
    /\ UNCHANGED <<github, row, sha, syncs>>

\* Mutant: the README of the branch, which may have moved on.
ReadmeOfBranch ==
    /\ at = "readme"
    /\ had' = IF readme[head] = "text" THEN had \cup {"readme"} ELSE had
    /\ at' = "issues"
    /\ sources' = IF readme[head] = "text"
                  THEN sources \cup {[name |-> "readme", ref |-> head]} ELSE sources
    /\ Answered /\ UNCHANGED <<github, row, sha, syncs, warnings, crowded>>

(* A repository without a README is nothing to warn of: 404 stays quiet. *)
HasReadme == readme[sha] = "text"
GetReadme == at = "readme" /\ Collect("readme", HasReadme, HasReadme, {"not_found"}, "issues")
(* The newest twenty issues and pull requests, of which the pull requests are dropped. *)
HasIssue == "issue" \in open
IssueShown == HasIssue /\ "crowd" \notin open
\* Mutant: a failed request reads as an empty list.
GetIssuesQuietly == at = "issues" /\ Collect("issues", HasIssue, IssueShown, Kinds, "pulls")
GetIssues == at = "issues" /\ Collect("issues", HasIssue, IssueShown, {}, "pulls")
HasPull == "pull" \in open
GetPulls == at = "pulls" /\ Collect("pulls", HasPull, HasPull, {}, "merged")
(* _collect_merged_prs: see PrReconciler; its failure is a warning. *)
CollectMergedPrs ==
    /\ at = "merged" /\ at' = "extract"
    /\ \/ Answered /\ UNCHANGED warnings
       \/ \E kind \in Kinds : Denied(kind) /\ warnings' = warnings \cup {"merged_pulls"}
    /\ UNCHANGED <<github, row, sha, sources, had, crowded, syncs>>
(* Extraction of one source fails: its text is stored all the same, with a warning. *)
ExtractSources ==
    /\ at = "extract" /\ at' = "publish"
    /\ \/ UNCHANGED <<warnings, faults>>
       \/ Fault /\ \E s \in sources : warnings' = warnings \cup {s.name}
    /\ UNCHANGED <<github, row, sha, sources, had, crowded, syncs>>
Publish ==
    /\ at = "publish" /\ at' = "idle"
    /\ \/ SetStatus("indexed", sha) /\ UNCHANGED faults
       \/ Fault /\ SetStatus("failed", sha)
    /\ UNCHANGED <<github, sha, sources, warnings, had, crowded, syncs>>

Sync == \/ Claim \/ GetHead \/ GetCommits \/ GetReadme \/ GetIssues \/ GetPulls
        \/ CollectMergedPrs \/ ExtractSources \/ Publish
Next == Push \/ Hide \/ Connect \/ ConnectFails \/ Sync
Spec == Init /\ [][Next]_vars

-----------------------------------------------------------------------------
(* The commit a repository shows is the one every published source was read at,    *)
(* and the README is that commit's, though pushes arrive while it is read and later  *)
(* syncs fail (repository.py:162).  And a sync that ended without a warning           *)
(* published a source of each kind GitHub had something of, also when the repository   *)
(* disappeared half way, which looks like a missing README; but for one: issues that    *)
(* are all behind a page of newer pull requests are left out without a warning.           *)
RowTellsTheTruth ==
    /\ \A s \in row.published : s.ref = row.commit
    /\ row.published # {} => (readme[row.commit] = "text" <=> "readme" \in row.had)
    /\ row.status = "indexed" /\ ~row.warned =>
          /\ {s.name : s \in row.published} = row.had \ row.crowded
          /\ row.crowded \subseteq {"issues"}
=============================================================================
