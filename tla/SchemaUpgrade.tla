---------------------------- MODULE SchemaUpgrade ----------------------------
(* Bringing the schema of an existing database up to date before the server       *)
(* accepts requests.  The first two functions may fail and are only logged, the     *)
(* third stops the start; each may be cut short at any statement and starts over    *)
(* at the next start.  MySQL commits implicitly before and after every change of    *)
(* the schema; what an open transaction wrote otherwise is lost with it.            *)
(*   src/backend/startup.py, lifespan in src/backend/main.py                        *)
EXTENDS Naturals, Sequences, SequencesExt

CONSTANTS Doc,       \* rows of documents, as numbers: the backfill goes in their order
          MaxFaults  \* bound: failing statements and deaths of the process

VARIABLES installed, \* columns, tables, constraints and indexes that exist
          active,    \* definition of the view active_memory
          dangling,  \* some superseded_by points at no row
          doc,       \* committed rows of documents; size "null" also without the column
          work,      \* <<dangling, doc>> as the open transaction sees them
          file,      \* managed files that exist
          stage, at, \* the function that runs and the statement it is at
          faults
vars == <<installed, active, dangling, doc, work, file, stage, at, faults>>

(* ensure_runtime_schema: two tables and five columns, then a data fix. *)
RuntimeScript == <<"memory_sources", "project_memory", "progress_done", "progress_total",
                   "completion_status", "completion_status_source", "sync_started_at">>
V8Script == <<"clear_dangling", "fk_superseded_by", "raw_view">>
(* ensure_schema_v9, in the order of its statements. *)
V9Script ==
    <<"size_bytes", "uploaded_by", "processing_token", "lease_expires_at",
      "active_sync_run_id", "current_sync_run_id", "sync_started_at", "repo_sync_run_id",
      "upload_quota_reservations", "storage_cleanup_pending",
      "backfill", "size_not_null", "idx_uploaded_by", "fk_uploaded_by",
      "idx_active_sync", "idx_current_sync", "idx_repo_sync", "published_memory",
      "published_view">>
Script == [runtime |-> RuntimeScript, v8 |-> V8Script, v9 |-> V9Script]
Following == [runtime |-> "v8", v8 |-> "v9", v9 |-> "serving"]
V9Objects == Range(V9Script) \ {"backfill", "published_view"}

(* A column is added AFTER another, a constraint on one, a view over another. *)
Needs == [s \in {"size_bytes"} |-> "progress_total"]
Runnable(statement) == statement \in DOMAIN Needs => Needs[statement] \in installed

Sizes == {"null", "zero", "of file"}
Status == {"failed", "other"}
(* A database from before, one that only lacks v9, and one created by schema.sql; *)
(* a failed document may have lost its file, any other row with a path has it.     *)
Init ==
    /\ installed \in {{}, Range(RuntimeScript) \cup {"fk_superseded_by"},
                      Range(RuntimeScript) \cup {"fk_superseded_by"} \cup V9Objects}
    /\ active = IF installed = {} THEN "absent"
                ELSE IF V9Objects \subseteq installed THEN "published" ELSE "raw"
    /\ dangling \in {FALSE, installed = {}}
    /\ file \in SUBSET Doc
    /\ doc \in [Doc -> [status: Status, path: BOOLEAN, size: Sizes]]
    /\ \A d \in Doc :
          /\ d \in file => doc[d].path
          /\ doc[d].path /\ doc[d].status # "failed" => d \in file
          /\ doc[d].size = IF ~(V9Objects \subseteq installed) THEN "null"
                           ELSE IF d \in file THEN "of file" ELSE "zero"
          /\ V9Objects \subseteq installed => doc[d].path = (d \in file)
    /\ work = <<dangling, doc>>
    /\ stage = "down" /\ at = 1 /\ faults = 0

-----------------------------------------------------------------------------
Commit == dangling' = work'[1] /\ doc' = work'[2]
Keep == UNCHANGED <<dangling, doc>>
(* On to the next statement; the last one is followed by the commit. *)
Advance ==
    IF at < Len(Script[stage]) THEN at' = at + 1 /\ UNCHANGED stage
    ELSE at' = 1 /\ stage' = Following[stage]
AtEnd == at = Len(Script[stage])
At(statement) == stage \in DOMAIN Script /\ Script[stage][at] = statement

Start == /\ stage = "down" /\ stage' = "runtime" /\ at' = 1
         /\ UNCHANGED <<installed, active, dangling, doc, work, file, faults>>

(* _column_exists and its like: what exists is left alone, and costs no commit. *)
Skip == /\ \E s \in installed : At(s)
        /\ Advance /\ UNCHANGED work
        /\ IF AtEnd THEN Commit ELSE Keep
        /\ UNCHANGED <<installed, active, file, faults>>
Special == {"clear_dangling", "raw_view", "backfill", "published_view"}
Install == /\ stage \in DOMAIN Script
           /\ LET s == Script[stage][at]
              IN  /\ s \notin installed \cup Special
                  /\ Runnable(s)
                  /\ s = "fk_superseded_by" => ~work[1]
                  /\ installed' = installed \cup {s}
           /\ Advance /\ UNCHANGED work /\ Commit
           /\ UNCHANGED <<active, file, faults>>
ReplaceView(statement, definition) ==
    /\ At(statement)
    /\ active' = definition
    /\ Advance /\ UNCHANGED work /\ Commit
    /\ UNCHANGED <<installed, file, faults>>

ClearDangling == /\ At("clear_dangling")
                 /\ work' = IF "fk_superseded_by" \in installed THEN work ELSE <<FALSE, work[2]>>
                 /\ Advance /\ Keep
                 /\ UNCHANGED <<installed, active, file, faults>>

Unsized == {d \in Doc : work[2][d].size = "null"}
Sized(d, size, path) == work' = [work EXCEPT ![2][d].size = size, ![2][d].path = path]
\* Mutant: the file of a failed document must exist to be deleted.
BackfillStrict(d) ==
    /\ work[2][d].path => d \in file
    /\ file' = IF work[2][d].status = "failed" THEN file \ {d} ELSE file
    /\ Sized(d, IF d \in file' THEN "of file" ELSE "zero", work[2][d].path /\ d \in file')

\* Mutant: the row of a failed document gives up its file, which stays.
BackfillOrphans(d) ==
    /\ work[2][d].path /\ work[2][d].status # "failed" => d \in file
    /\ Sized(d, IF work[2][d].status # "failed" /\ work[2][d].path THEN "of file" ELSE "zero",
             work[2][d].path /\ work[2][d].status # "failed")
    /\ UNCHANGED file

(* The file of a failed document is deleted, if it is still there; any other row   *)
(* with a path must have its file, whose size is taken.                              *)
Backfill(d) ==
    IF work[2][d].status = "failed"
    THEN file' = file \ {d} /\ Sized(d, "zero", FALSE)
    ELSE /\ work[2][d].path => d \in file
         /\ Sized(d, IF work[2][d].path THEN "of file" ELSE "zero", work[2][d].path)
         /\ UNCHANGED file
BackfillNext ==
    /\ At("backfill") /\ Unsized # {}
    /\ Backfill(CHOOSE d \in Unsized : \A e \in Unsized : d <= e)
    /\ Keep /\ UNCHANGED <<installed, active, stage, at, faults>>
Backfilled ==
    /\ At("backfill") /\ Unsized = {}
    /\ Advance /\ Keep /\ UNCHANGED <<installed, active, work, file, faults>>

Rollback == work' = <<dangling, doc>> /\ Keep
(* A statement fails: the first two functions are given up, the third ends the     *)
(* process.                                                                         *)
Abandon == /\ stage \in DOMAIN Script
           /\ at' = 1 /\ stage' = IF stage = "v9" THEN "down" ELSE Following[stage]
           /\ Rollback /\ UNCHANGED <<installed, active, file>>
Unrunnable == /\ stage \in DOMAIN Script
              /\ LET s == Script[stage][at]
                 IN  \/ s \notin installed /\ ~Runnable(s)
                     \/ s = "fk_superseded_by" /\ s \notin installed /\ work[1]
Refused == Unrunnable /\ Abandon /\ UNCHANGED faults
Fault == faults < MaxFaults /\ faults' = faults + 1
Fails == Fault /\ Abandon
(* The process dies, or is stopped to be restarted. *)
Dies == /\ stage # "down" /\ Fault
        /\ stage' = "down" /\ at' = 1
        /\ Rollback /\ UNCHANGED <<installed, active, file>>

Run == \/ Start \/ Skip \/ Install \/ ClearDangling
       \/ ReplaceView("raw_view", "raw") \/ ReplaceView("published_view", "published")
       \/ BackfillNext \/ Backfilled \/ Refused
Next == Run \/ Fails \/ Dies
(* The process runs, and is started again when it has ended. *)
Fairness == WF_vars(Run)
Spec == Init /\ [][Next]_vars /\ Fairness

-----------------------------------------------------------------------------
TypeOK == /\ installed \subseteq Range(RuntimeScript) \cup Range(V8Script) \cup Range(V9Script)
          /\ active \in {"absent", "raw", "published"}
          /\ dangling \in BOOLEAN /\ doc \in [Doc -> [status: Status, path: BOOLEAN, size: Sizes]]
          /\ stage \in {"down", "serving"} \cup DOMAIN Script /\ faults \in 0..MaxFaults
          /\ file \subseteq Doc

(* Requests are served only on the whole v9 schema, with the views that hide what  *)
(* is not published, and with every document charged for exactly the file it has;   *)
(* whichever statements of earlier starts failed (startup.py:154).  At no time is a *)
(* file without its row, or a document that has not failed without its file.         *)
ServedWhole ==
    /\ stage = "serving" =>
          /\ V9Objects \subseteq installed /\ active = "published"
          /\ \A d \in Doc : /\ doc[d].size = IF d \in file THEN "of file" ELSE "zero"
                            /\ doc[d].path = (d \in file)
    /\ \A d \in Doc : d \in file => doc[d].path
    /\ \A d \in Doc : doc[d].path /\ doc[d].status # "failed" => d \in file

(* However often it was interrupted, the upgrade comes to its end and the server   *)
(* serves: a start can always take up where another one stopped.                     *)
UpgradeConverges == []<>(stage = "serving")
=============================================================================
