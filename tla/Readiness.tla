------------------------------ MODULE Readiness ------------------------------
(* GET /health/ready: each request joins the run of every probe that is under    *)
(* way, or starts one in a pool with fewer workers than probes, and waits for it  *)
(* up to a timeout.                                                               *)
(*   src/backend/api/health.py                                                    *)
EXTENDS Naturals, FiniteSets, Sequences, SequencesExt

CONSTANTS Probe, Request, Workers

VARIABLES up,        \* the probes whose dependency is in order
          queue,     \* the executor's queue
          running,   \* probes under way in a worker
          pending,   \* _pending: the state of the last future of each probe
          got,       \* each request's component results
          reply,
          sampled,   \* what the run under way has found, "none" before it has looked
          good,      \* history: in order at some moment of the run under way
          earned     \* history: probes whose answer to the request came from such a run
vars == <<up, queue, running, pending, got, reply, sampled, good, earned>>

Outcome == {"ok", "failed", "timeout"}
NotAsked == [p \in Probe |-> "not_asked"]
Init == /\ up \in SUBSET Probe
        /\ queue = <<>> /\ running = {}
        /\ pending = [p \in Probe |-> "none"]
        /\ got = [r \in Request |-> NotAsked]
        /\ reply = [r \in Request |-> "none"]
        /\ sampled = [p \in Probe |-> "none"]
        /\ good = {} /\ earned = [r \in Request |-> {}]

(* Dependencies fail and recover. *)
Change == /\ \E p \in Probe : up' = IF p \in up THEN up \ {p} ELSE up \cup {p}
          /\ good' = good \cup (running \cap up')
          /\ UNCHANGED <<queue, running, pending, got, reply, sampled, earned>>

Arrive(r) == /\ reply[r] # "waiting" /\ reply' = [reply EXCEPT ![r] = "waiting"]
             /\ got' = [got EXCEPT ![r] = NotAsked]
             /\ earned' = [earned EXCEPT ![r] = {}]
             /\ UNCHANGED <<up, queue, running, pending, sampled, good>>

\* Mutant: a future that is done is returned too.
FutureKept(r, p) ==
    IF pending[p] = "none"
    THEN /\ queue' = Append(queue, p) /\ pending' = [pending EXCEPT ![p] = "pending"]
         /\ got' = [got EXCEPT ![r][p] = "waiting"]
    ELSE /\ UNCHANGED <<queue, pending>>
         /\ got' = [got EXCEPT ![r][p] = IF pending[p] = "pending" THEN "waiting" ELSE pending[p]]

(* _future, under the lock *)
Future(r, p) ==
    /\ IF pending[p] = "pending" THEN UNCHANGED <<queue, pending>>
       ELSE queue' = Append(queue, p) /\ pending' = [pending EXCEPT ![p] = "pending"]
    /\ got' = [got EXCEPT ![r][p] = "waiting"]
Run(r, p) == /\ reply[r] = "waiting" /\ got[r][p] = "not_asked" /\ Future(r, p)
             /\ UNCHANGED <<up, running, reply, sampled, good, earned>>

StartProbe == /\ queue # <<>> /\ Cardinality(running) < Workers
              /\ queue' = Tail(queue) /\ running' = running \cup {Head(queue)}
              /\ good' = good \cup ({Head(queue)} \cap up)
              /\ UNCHANGED <<up, pending, got, reply, sampled, earned>>
(* The probe asks its dependency; its connection is closed later. *)
Sample(p) ==
    /\ p \in running /\ sampled[p] = "none"
    /\ sampled' = [sampled EXCEPT ![p] = IF p \in up THEN "ok" ELSE "failed"]
    /\ UNCHANGED <<up, queue, running, pending, got, reply, good, earned>>
(* The result goes to every request that still waits for this run. *)
EndProbe(p) ==
    /\ p \in running /\ sampled[p] # "none"
    /\ LET waiting == {r \in Request : got[r][p] = "waiting"}
       IN  /\ got' = [r \in Request |-> IF r \in waiting
                                        THEN [got[r] EXCEPT ![p] = sampled[p]] ELSE got[r]]
           /\ earned' = [r \in Request |-> earned[r] \cup
                                           (IF r \in waiting THEN {p} \cap good ELSE {})]
    /\ pending' = [pending EXCEPT ![p] = sampled[p]]
    /\ sampled' = [sampled EXCEPT ![p] = "none"]
    /\ running' = running \ {p} /\ good' = good \ {p}
    /\ UNCHANGED <<up, queue, reply>>

(* The component's timeout; the shielded run goes on. *)
TimeOut(r, p) == /\ reply[r] = "waiting" /\ got[r][p] = "waiting"
                 /\ got' = [got EXCEPT ![r][p] = "timeout"]
                 /\ UNCHANGED <<up, queue, running, pending, reply, sampled, good, earned>>
Reply(r) == /\ reply[r] = "waiting" /\ \A p \in Probe : got[r][p] \in Outcome
            /\ reply' = [reply EXCEPT ![r] = IF \A p \in Probe : got[r][p] = "ok"
                                            THEN "ready" ELSE "not_ready"]
            /\ UNCHANGED <<up, queue, running, pending, got, sampled, good, earned>>
OverallTimeout(r) == /\ reply[r] = "waiting"
                     /\ reply' = [reply EXCEPT ![r] = "not_ready"]
                     /\ got' = [got EXCEPT ![r] = [p \in Probe |-> "timeout"]]
                     /\ UNCHANGED <<up, queue, running, pending, sampled, good, earned>>

Next == \/ Change \/ StartProbe
        \/ \E r \in Request : Arrive(r) \/ Reply(r) \/ OverallTimeout(r)
        \/ \E r \in Request, p \in Probe : Run(r, p) \/ TimeOut(r, p)
        \/ \E p \in Probe : Sample(p) \/ EndProbe(p)
Spec == Init /\ [][Next]_vars

-----------------------------------------------------------------------------
(* "ready" is not an old answer: every dependency was in order at some moment of a *)
(* run that had not ended when the request came, though runs are shared and outlive *)
(* the requests that started them; and however many requests time out, no probe is  *)
(* in the pool twice (health.py:114-129).                                            *)
ReadyIsEarned ==
    /\ \A r \in Request : reply[r] = "ready" => earned[r] = Probe
    /\ \A p \in Probe : pending[p] # "pending" => p \notin running \cup Range(queue)
    /\ Len(queue) + Cardinality(running) <= Cardinality(Probe)
=============================================================================
