-------------------------- MODULE PendingDeletes --------------------------
(* The desktop client: uploads that a person cancels while they are under way.  The *)
(* document may exist on the server by then, so its deletion is queued, saved, and   *)
(* tried until the server confirms it; meanwhile the document is kept out of the      *)
(* list of files, which is merged from the server's.                                   *)
(*   desktop/src/pendingDocumentDeletes.ts  desktop/src/projectDocumentSync.ts           *)
(*   desktop/src/App.tsx                                                                  *)
EXTENDS Naturals

CONSTANTS Upload,     \* each with its document, if it ever becomes one
          MaxFaults   \* bound: lost calls, refusals, failed saves, restarts

VARIABLES upload,    \* the upload request: none, sent, stored, answered, failed
          cancelled, \* uploads whose file was removed while they were under way
          server,    \* documents on the server
          queue,     \* entries of the queue: none, due, later, paused
          saved,     \* the queue in localStorage
          call,      \* DELETE requests: none, sent, or the reply on its way
          files,     \* entries of each document in the list: the person's own, a listed one
          sync, listed, \* syncProjectDocuments, and the list the server sent
          awaited,   \* entries whose outcome it waits for
          unsaved,   \* history: entries that could not be saved
          faults
vars == <<upload, cancelled, server, queue, saved, call, files, sync, listed, awaited, unsaved, faults>>
client == <<cancelled, files, sync, listed, awaited>>

Fault == faults < MaxFaults /\ faults' = faults + 1
Entries(q) == {u \in Upload : q[u] # "none"}

Init == /\ upload = [u \in Upload |-> "none"] /\ cancelled = {} /\ server = {}
        /\ queue = [u \in Upload |-> "none"] /\ saved = queue
        /\ call = [u \in Upload |-> "none"]
        /\ files = [u \in Upload |-> {}]
        /\ sync = "idle" /\ listed = {} /\ awaited = {} /\ unsaved = {} /\ faults = 0

-----------------------------------------------------------------------------
(* persist: the whole queue is written; that it fails is shown to the person only. *)
Persist(q) == \/ saved' = q /\ unsaved' = unsaved \ Entries(q) /\ UNCHANGED faults
              \/ UNCHANGED saved /\ Fault
                 /\ unsaved' = unsaved \cup (Entries(q) \ Entries(saved))

(* attempt: one call at a time for each entry; all others share its outcome.       *)
Attempt(us) == call' = [u \in Upload |-> IF u \in us /\ call[u] = "none" THEN "sent" ELSE call[u]]

\* Mutant: the entry is saved when the first attempt has failed.
EnqueueUnsaved(u) == /\ queue' = [queue EXCEPT ![u] = "due"] /\ Attempt({u})
                     /\ UNCHANGED <<saved, unsaved, faults>>
Enqueue(u) == /\ queue' = [queue EXCEPT ![u] = "due"] /\ Attempt({u})
              /\ Persist(queue')

-----------------------------------------------------------------------------
Send(u) ==
    /\ upload[u] = "none"
    /\ upload' = [upload EXCEPT ![u] = "sent"]
    /\ files' = [files EXCEPT ![u] = @ \cup {"own"}]
    /\ UNCHANGED <<cancelled, server, queue, saved, call, sync, listed, awaited, unsaved, faults>>

(* The request stays alive: its answer names the document to delete. *)
Cancel(u) ==
    /\ upload[u] \in {"sent", "stored"} /\ u \notin cancelled
    /\ cancelled' = cancelled \cup {u}
    /\ files' = [files EXCEPT ![u] = @ \ {"own"}]
    /\ UNCHANGED <<upload, server, queue, saved, call, sync, listed, awaited, unsaved, faults>>

Store(u) ==
    /\ upload[u] = "sent"
    /\ upload' = [upload EXCEPT ![u] = "stored"] /\ server' = server \cup {u}
    /\ UNCHANGED <<client, unsaved, queue, saved, call, faults>>

UploadFails(u) ==
    /\ upload[u] \in {"sent", "stored"} /\ Fault
    /\ upload' = [upload EXCEPT ![u] = "failed"]
    /\ UNCHANGED <<client, unsaved, server, queue, saved, call>>

Answer(u) ==
    /\ upload[u] = "stored"
    /\ upload' = [upload EXCEPT ![u] = "answered"]
    /\ IF u \in cancelled THEN Enqueue(u) ELSE UNCHANGED <<queue, saved, call, unsaved, faults>>
    /\ UNCHANGED <<client, server>>

-----------------------------------------------------------------------------
Serve(u) ==
    /\ call[u] = "sent"
    /\ call' = [call EXCEPT ![u] = IF u \in server THEN "deleted" ELSE "missing"]
    /\ server' = server \ {u}
    /\ UNCHANGED <<client, unsaved, upload, queue, saved, faults>>

(* Lost before or after the server acted; or refused, which only a person can change. *)
ServeFails(u) ==
    /\ call[u] = "sent" /\ Fault
    /\ \/ call' = [call EXCEPT ![u] = "unreachable"] /\ server' \in {server, server \ {u}}
       \/ call' = [call EXCEPT ![u] = "refused"] /\ UNCHANGED server
    /\ UNCHANGED <<client, unsaved, upload, queue, saved>>

(* classifyPendingDocumentDeleteError, complete. *)
Outcome(reply) == CASE reply \in {"deleted", "missing"} -> "none"
                    [] reply = "unreachable" -> "later"
                    [] reply = "refused" -> "paused"
Reply(u) ==
    /\ call[u] \notin {"none", "sent"}
    /\ queue' = [queue EXCEPT ![u] = Outcome(call[u])]
    /\ Persist(queue')
    /\ call' = [call EXCEPT ![u] = "none"] /\ awaited' = awaited \ {u}
    /\ UNCHANGED <<upload, cancelled, server, files, sync, listed>>

(* The delay of a retry passes; the timer is set for the earliest entry.            *)
TimePasses(u) ==
    /\ queue[u] = "later"
    /\ queue' = [queue EXCEPT ![u] = "due"]
    /\ UNCHANGED <<client, unsaved, upload, server, saved, call, faults>>
Flush ==
    /\ \E u \in Upload : queue[u] = "due" /\ call[u] = "none"
    /\ Attempt({u \in Upload : queue[u] = "due"})
    /\ UNCHANGED <<client, unsaved, upload, server, queue, saved, faults>>

-----------------------------------------------------------------------------
(* syncProjectDocuments: every entry is tried, also the paused ones, and waited for; *)
(* then the list is requested, and merged with the files when it arrives.             *)
BeginSync ==
    /\ sync = "idle" /\ sync' = "flush"
    /\ Attempt(Entries(queue)) /\ awaited' = Entries(queue)
    /\ UNCHANGED <<upload, cancelled, server, queue, saved, files, listed, unsaved, faults>>
RequestList ==
    /\ sync = "flush" /\ awaited = {}
    /\ sync' = "list"
    /\ UNCHANGED <<upload, cancelled, server, queue, saved, call, files, listed, awaited, unsaved, faults>>
ServeList ==
    /\ sync = "list" /\ sync' = "merge" /\ listed' = server
    /\ UNCHANGED <<upload, cancelled, server, queue, saved, call, files, awaited, unsaved, faults>>
ListFails ==
    /\ sync = "list" /\ Fault /\ sync' = "idle"
    /\ UNCHANGED <<upload, cancelled, server, queue, saved, call, files, listed, awaited, unsaved>>

(* reconcileProjectDocumentAttachments: the tombstones are those of this moment.     *)
Reconciled(u) ==
    LET linked == upload[u] = "answered" /\ "own" \in files[u]
    IN  CASE u \in Entries(queue) -> files[u] \ (IF linked THEN {"own", "listed"} ELSE {"listed"})
          [] u \in listed \ Entries(queue) /\ files[u] \cap {"listed"} = {} /\ ~linked
                -> files[u] \cup {"listed"}
          [] u \notin listed \cup Entries(queue) -> files[u] \ {"listed"}
          [] OTHER -> files[u]
MergeList ==
    /\ sync = "merge" /\ sync' = "idle"
    /\ files' = [u \in Upload |-> Reconciled(u)]
    /\ UNCHANGED <<upload, cancelled, server, queue, saved, call, listed, awaited, unsaved, faults>>

(* The app is closed at any moment; requests that were sent may still arrive.  When  *)
(* the server is online again, every saved entry is tried.                              *)
Restart ==
    /\ Fault
    /\ queue' = saved /\ UNCHANGED <<saved, unsaved>>
    /\ call' = [u \in Upload |-> IF saved[u] # "none" THEN "sent" ELSE "none"]
    /\ \E arrived \in SUBSET {u \in Upload : call[u] = "sent"},
          stored \in SUBSET {u \in Upload : upload[u] = "sent"} :
          server' = (server \ arrived) \cup stored
    /\ upload' = [u \in Upload |-> IF upload[u] \in {"sent", "stored"} THEN "failed"
                                   ELSE upload[u]]
    /\ sync' = "idle" /\ awaited' = {}
    /\ UNCHANGED <<cancelled, files, listed>>

Next == \/ \E u \in Upload : \/ Send(u) \/ Cancel(u) \/ Store(u) \/ UploadFails(u) \/ Answer(u)
                             \/ Serve(u) \/ ServeFails(u) \/ Reply(u) \/ TimePasses(u)
        \/ Flush \/ BeginSync \/ RequestList \/ ServeList \/ ListFails \/ MergeList \/ Restart
Spec == Init /\ [][Next]_vars

-----------------------------------------------------------------------------
(* "Aborting the fetch after a server commit would lose the only cleanup handle and   *)
(* allow the document to reappear on next launch" (App.tsx:5748-5749), and "the          *)
(* tombstone is persisted before deleteDocument can run" (pendingDocumentDeletes.ts:345):  *)
(* a cancelled upload whose answer arrived is deleted on the server, or its deletion is     *)
(* still queued, whatever is lost, refused or restarted.                                     *)
CancelRemembered ==
    \A u \in cancelled \ unsaved :
        upload[u] = "answered" /\ u \in server => queue[u] # "none"
=============================================================================
