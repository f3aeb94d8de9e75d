--------------------------- MODULE GithubSessions ---------------------------
(* Install sessions of the GitHub App, kept in two dictionaries of the process *)
(* that request threads read and change without a lock: live sessions, and the  *)
(* expired ones that are still remembered, so that a client is told "expired"   *)
(* (410) and not "unknown" (404).                                               *)
(*   src/backend/github/router.py                                               *)
EXTENDS Integers, FiniteSets

CONSTANTS State,    \* the random state of each session; created at most once
          Thread,   \* request threads
          Ttl,      \* SESSION_TTL_SECONDS
          Grace,    \* _EXPIRED_GRACE_SECONDS
          MaxTime   \* bound on the clock

VARIABLES now,
          created,    \* _sessions: created_at, None for no entry
          connected,  \* sessions with an installation_id
          expired,    \* _expired_states: the time of the entry, None for none
          pc, target, \* each thread: where it is, the state it serves
          stale,      \* the expired sessions a pruning thread has listed
          told,       \* history: what was last answered about each state, and when
          born        \* history: when the client was given each state
vars == <<now, created, connected, expired, pc, target, stale, told, born>>

None == -1
Nothing == [reply |-> "nothing", at |-> 0]

Init == /\ now = 0
        /\ created = [s \in State |-> None] /\ expired = [s \in State |-> None]
        /\ connected = {}
        /\ pc = [t \in Thread |-> "idle"]
        /\ target = [t \in Thread |-> None]
        /\ stale = [t \in Thread |-> {}]
        /\ told = [s \in State |-> Nothing] /\ born = [s \in State |-> None]

Goto(t, l) == pc' = [pc EXCEPT ![t] = l]
Finish(t, reply) ==
    /\ Goto(t, "idle")
    /\ target' = [target EXCEPT ![t] = None]
    /\ told' = [told EXCEPT ![target[t]] = [reply |-> reply, at |-> now]]

Tick == /\ now < MaxTime /\ now' = now + 1
        /\ UNCHANGED <<created, connected, expired, pc, target, stale, told, born>>

Old(s) == created[s] # None /\ created[s] < now - Ttl
Forgotten(s) == expired[s] # None /\ expired[s] < now - Grace
(* _prune_sessions lists what to drop before it drops any of it. *)
BeginPrune(t) == /\ stale' = [stale EXCEPT ![t] = {x \in State : Old(x)}]
                 /\ Goto(t, "prune")

(* create_github_app_session prunes first. *)
Create(t, s) ==
    /\ pc[t] = "idle" /\ told[s] = Nothing /\ s \notin {target[u] : u \in Thread}
    /\ target' = [target EXCEPT ![t] = s]
    /\ BeginPrune(t)
    /\ UNCHANGED <<now, created, connected, expired, told, born>>

(* The callback, the poll or a token request for a session: _session_or_404. *)
Request(t, s) ==
    /\ pc[t] = "idle" /\ born[s] # None
    /\ target' = [target EXCEPT ![t] = s]
    /\ IF created[s] = None THEN BeginPrune(t)
       ELSE Goto(t, IF Old(s) THEN "expire" ELSE "serve") /\ UNCHANGED stale
    /\ UNCHANGED <<now, created, connected, expired, told, born>>

(* The session object is the thread's, whether or not it is still listed. *)
Serve(t) ==
    /\ pc[t] = "serve"
    /\ \/ connected' = connected \cup {target[t]} /\ Finish(t, "connected")
       \/ /\ Finish(t, IF target[t] \in connected THEN "connected" ELSE "pending")
          /\ UNCHANGED connected
    /\ UNCHANGED <<now, created, expired, stale, born>>

(* _session_or_404 finds the session expired: remember it, then drop it.  The     *)
(* entry may be gone by then: KeyError, answered 500.                             *)
Expire(t) ==
    /\ pc[t] = "expire"
    /\ expired' = [expired EXCEPT ![target[t]] = now]
    /\ Goto(t, "drop")
    /\ UNCHANGED <<now, created, connected, target, stale, told, born>>
Drop(t) ==
    /\ pc[t] = "drop"
    /\ Finish(t, IF created[target[t]] = None THEN "error" ELSE "gone")
    /\ created' = [created EXCEPT ![target[t]] = None]
    /\ UNCHANGED <<now, connected, expired, stale, born>>

\* Mutant: pruning drops an expired session without remembering it.
PruneOneForgets(t) ==
    /\ pc[t] = "prune" /\ stale[t] # {}
    /\ \E x \in stale[t] :
          /\ created' = [created EXCEPT ![x] = None]
          /\ stale' = [stale EXCEPT ![t] = @ \ {x}]
          /\ UNCHANGED expired
    /\ IF \E x \in stale[t] : created[x] = None THEN Finish(t, "error")
       ELSE UNCHANGED <<pc, target, told>>
    /\ UNCHANGED <<now, connected, born>>

(* _prune_sessions, one listed session at a time; two threads may have listed the *)
(* same one.                                                                      *)
PruneOne(t) ==
    /\ pc[t] = "prune" /\ stale[t] # {}
    /\ \E x \in stale[t] :
          /\ expired' = [expired EXCEPT ![x] = now]
          /\ created' = [created EXCEPT ![x] = None]
          /\ IF created[x] = None
             THEN Finish(t, "error") /\ stale' = [stale EXCEPT ![t] = {}]
             ELSE stale' = [stale EXCEPT ![t] = @ \ {x}] /\ UNCHANGED <<pc, target, told>>
    /\ UNCHANGED <<now, connected, born>>

(* Another thread changes the dictionary while this one lists it: RuntimeError. *)
ListFails(t) ==
    /\ pc[t] = "prune" /\ \E u \in Thread \ {t} : pc[u] = "prune"
    /\ Finish(t, "error") /\ stale' = [stale EXCEPT ![t] = {}]
    /\ UNCHANGED <<now, created, connected, expired, born>>

(* ... then the remembered ones whose grace is over, and the answer. *)
Forget(t) ==
    /\ pc[t] = "prune" /\ stale[t] = {}
    /\ expired' = [s \in State |-> IF Forgotten(s) THEN None ELSE expired[s]]
    /\ IF born[target[t]] = None
       THEN /\ created' = [created EXCEPT ![target[t]] = now]
            /\ born' = [born EXCEPT ![target[t]] = now]
            /\ Finish(t, "pending")
       ELSE /\ Finish(t, IF expired'[target[t]] # None THEN "gone" ELSE "unknown")
            /\ UNCHANGED <<created, born>>
    /\ UNCHANGED <<now, connected, stale>>

Next == \/ Tick
        \/ \E t \in Thread :
              \/ \E s \in State : Create(t, s) \/ Request(t, s)
              \/ Serve(t) \/ Expire(t) \/ Drop(t) \/ PruneOne(t)
              \/ ListFails(t) \/ Forget(t)
Spec == Init /\ [][Next]_vars

-----------------------------------------------------------------------------
(* The end of a session is told in order: a client hears "expired" only when the *)
(* session is older than Ttl, and "unknown" only when the grace is over as well,   *)
(* whatever threads prune meanwhile (router.py:37-40, 138-162).                    *)
GoneStaysGone ==
    \A s \in State :
        /\ told[s].reply = "gone" => told[s].at > born[s] + Ttl
        /\ told[s].reply = "unknown" => told[s].at > born[s] + Ttl + Grace
=============================================================================
