--------------------------- MODULE ResumableRun ---------------------------
(* The long evaluation scripts that can be stopped and resumed: one asks the      *)
(* service every question, the other has every answer judged.  Both append their   *)
(* records to <output>.partial and replace <output> at the end; killed at any step,  *)
(* they are started again with or without --resume.                                  *)
(*   evals/run_user_realistic_160_qa.py  evals/judge_user_realistic_160.py            *)
EXTENDS Naturals

CONSTANTS Question,    \* 1..n, in the order of the question file
          MaxAttempts, \* attempts at one question, also the judge's
          MaxAsks,     \* bound: questions asked of the service
          MaxFaults    \* bound: failed calls, deaths of a script

VARIABLES out,     \* <output> of each script: question -> record, or Nothing
          partial, \* <output>.partial of each script: its records, and how it ends
          at,      \* where each script is
          tries,   \* failed attempts at the question it is at
          input,   \* the answers the judge has read
          asks, faults,
          newest,  \* history: the last record of a question that reached the disk
          leftOut  \* history: questions whose record in <output> the log was begun without
vars == <<out, partial, at, tries, input, asks, faults, newest, leftOut>>

Script == {"run", "judge"}
Nothing == <<>>
(* A log ends "whole"; "open", without the newline of its last record; "cut" within  *)
(* a line; or two of its records are "joined" in one line.  The JSON parser refuses  *)
(* the last two.                                                                      *)
End == {"whole", "open", "cut", "joined"}
Loads(s) == partial[s].end \in {"whole", "open"}
NoFile == [exists |-> FALSE, rows |-> Nothing, end |-> "whole"]
Faults(n) == faults + n <= MaxFaults /\ faults' = faults + n
Whole(rows) == DOMAIN rows = Question
(* One more record; of two for a question, the new one counts. *)
Put(rows, q, rec) == [p \in DOMAIN rows \cup {q} |-> IF p = q THEN rec ELSE rows[p]]
First(qs) == CHOOSE q \in qs : \A r \in qs : q <= r

Init == /\ out = [s \in Script |-> Nothing]
        /\ partial = [s \in Script |-> NoFile]
        /\ at = [s \in Script |-> "off"]
        /\ tries = [s \in Script |-> 0]
        /\ input = Nothing /\ asks = 0 /\ faults = 0
        /\ newest = [s \in Script |-> Nothing]
        /\ leftOut = [s \in Script |-> {}]

-----------------------------------------------------------------------------
(* What --resume goes on from: the log alone, if there is one.                     *)
LoadCompleted(s) == IF partial[s].exists THEN partial[s].rows ELSE out[s]

\* Mutant: a resumed script truncates its partial log.
OpenTruncated(s) == partial' = [partial EXCEPT ![s] = [NoFile EXCEPT !.exists = TRUE]]

(* mode "a" if there is a partial log, else "w". *)
Open(s) == partial' = [partial EXCEPT ![s].exists = TRUE]

(* The judge reads all answers first, and refuses fewer than expected.             *)
ReadsInput(s) ==
    IF s = "judge" THEN Whole(out["run"]) /\ input' = out["run"] ELSE UNCHANGED input

(* Without --resume, a partial log must be removed first; every question is asked   *)
(* anew.                                                                             *)
Start(s) ==
    /\ at[s] = "off" /\ ~partial[s].exists
    /\ ReadsInput(s)
    /\ Open(s)
    /\ leftOut' = [leftOut EXCEPT ![s] = DOMAIN out[s]]
    /\ at' = [at EXCEPT ![s] = "ask"] /\ tries' = [tries EXCEPT ![s] = 0]
    /\ UNCHANGED <<out, asks, faults, newest>>

(* With it, a completed output is copied into a partial log before anything else.   *)
Resume(s) ==
    /\ at[s] = "off" /\ Loads(s)
    /\ ReadsInput(s)
    /\ IF LoadCompleted(s) # Nothing /\ ~partial[s].exists
       THEN at' = [at EXCEPT ![s] = "copy"] /\ UNCHANGED partial
       ELSE at' = [at EXCEPT ![s] = "ask"] /\ Open(s)
    /\ tries' = [tries EXCEPT ![s] = 0]
    /\ UNCHANGED <<out, asks, faults, newest, leftOut>>

Copy(s) ==
    /\ at[s] = "copy"
    /\ partial' = [partial EXCEPT ![s] = [exists |-> TRUE, rows |-> out[s], end |-> "whole"]]
    /\ at' = [at EXCEPT ![s] = "ask"]
    /\ UNCHANGED <<out, tries, input, asks, faults, newest, leftOut>>

Missing(s) == Question \ DOMAIN partial[s].rows
Asking(s) == at[s] = "ask" /\ Missing(s) # {}

(* One flushed line of the log, for the first question without one.  Killed before  *)
(* its newline, the script leaves the log "open"; a line written after such an end    *)
(* joins two records.                                                                  *)
Record(s, rec, end) ==
    LET q == First(Missing(s))
    IN  /\ partial' = [partial EXCEPT ![s].rows = Put(@, q, rec),
                                      ![s].end = IF @ = "whole" THEN end ELSE "joined"]
        /\ newest' = [newest EXCEPT ![s] = Put(@, q, rec)]
        /\ leftOut' = [leftOut EXCEPT ![s] = @ \ {q}]
        /\ at' = [at EXCEPT ![s] = IF end = "open" THEN "off" ELSE @]
        /\ tries' = [tries EXCEPT ![s] = 0]
        /\ UNCHANGED <<out, input>>
Deaths(end) == IF end = "open" THEN 1 ELSE 0

(* A failed answer is a record as well: a resumed script does not ask it again.     *)
Answered(ok) == [asked |-> asks + 1, ok |-> ok]
Ask(end) ==
    /\ Asking("run") /\ asks < MaxAsks /\ asks' = asks + 1
    /\ Record("run", Answered(TRUE), end) /\ Faults(Deaths(end))
LastAskFails(end) ==
    /\ Asking("run") /\ asks < MaxAsks /\ asks' = asks + 1
    /\ tries["run"] + 1 = MaxAttempts /\ Faults(1 + Deaths(end))
    /\ Record("run", Answered(FALSE), end)

(* api_error_judgment: what was not answered fails without a call. *)
Answer == input[First(Missing("judge"))]
JudgeUnanswered(end) ==
    /\ Asking("judge") /\ ~Answer.ok
    /\ Record("judge", [of |-> Answer, pass |-> FALSE], end) /\ Faults(Deaths(end))
    /\ UNCHANGED asks
Judge(pass, end) ==
    /\ Asking("judge") /\ Answer.ok
    /\ Record("judge", [of |-> Answer, pass |-> pass], end) /\ Faults(Deaths(end))
    /\ UNCHANGED asks
LastJudgeFails(end) ==
    /\ Asking("judge") /\ Answer.ok
    /\ tries["judge"] + 1 = MaxAttempts /\ Faults(1 + Deaths(end))
    /\ Record("judge", [of |-> Answer, pass |-> FALSE], end)
    /\ UNCHANGED asks

AttemptFails(s) ==
    /\ Asking(s) /\ tries[s] + 1 < MaxAttempts /\ Faults(1)
    /\ s = "judge" => Answer.ok
    /\ tries' = [tries EXCEPT ![s] = @ + 1]
    /\ UNCHANGED <<out, partial, at, input, asks, newest, leftOut>>

(* The log is read again; the whole output is written beside the old one, and takes *)
(* its place at once.                                                                 *)
ReplaceOutput(s) ==
    /\ at[s] = "ask" /\ Missing(s) = {} /\ Loads(s)
    /\ out' = [out EXCEPT ![s] = partial[s].rows]
    /\ at' = [at EXCEPT ![s] = "unlink"]
    /\ UNCHANGED <<partial, tries, input, asks, faults, newest, leftOut>>
FinalLoadRefused(s) ==
    /\ at[s] = "ask" /\ Missing(s) = {} /\ ~Loads(s)
    /\ at' = [at EXCEPT ![s] = "off"]
    /\ UNCHANGED <<out, partial, tries, input, asks, faults, newest, leftOut>>
Unlink(s) ==
    /\ at[s] = "unlink"
    /\ partial' = [partial EXCEPT ![s] = NoFile]
    /\ at' = [at EXCEPT ![s] = "off"]
    /\ UNCHANGED <<out, tries, input, asks, faults, newest, leftOut>>

(* Killed: in the copy any number of lines is written and the last one may be cut or *)
(* lack its newline; the line of an answer may be cut.  The log that a killed copy      *)
(* leaves is what the next start reads, not the output.                                 *)
Prefix(rows, n) == [q \in {r \in DOMAIN rows : r <= n} |-> rows[q]]
DiesCopying(s) ==
    /\ at[s] = "copy"
    /\ \E n \in Question \cup {0}, end \in End \ {"joined"} :
          /\ n = 0 => end # "open"
          /\ partial' = [partial EXCEPT ![s] = [exists |-> TRUE, end |-> end,
                                                rows |-> Prefix(out[s], n)]]
          /\ leftOut' = [leftOut EXCEPT ![s] = {q \in DOMAIN out[s] : q > n}]
Dies(s) ==
    /\ at[s] # "off" /\ Faults(1)
    /\ \/ DiesCopying(s)
       \/ /\ Asking(s) /\ Loads(s) /\ partial' = [partial EXCEPT ![s].end = "cut"]
          /\ UNCHANGED leftOut
       \/ UNCHANGED <<partial, leftOut>>
    /\ at' = [at EXCEPT ![s] = "off"]
    /\ UNCHANGED <<out, tries, input, asks, newest>>

(* What the refusals leave to a person: to take the cut line off and set the joined  *)
(* records on lines of their own, or to give the log up.                              *)
Repair(s) ==
    /\ at[s] = "off" /\ ~Loads(s)
    /\ partial' = [partial EXCEPT ![s].end = "whole"]
    /\ UNCHANGED <<out, at, tries, input, asks, faults, newest, leftOut>>
Remove(s) ==
    /\ at[s] = "off" /\ partial[s].exists
    /\ partial' = [partial EXCEPT ![s] = NoFile]
    /\ newest' = [newest EXCEPT ![s] = out[s]]
    /\ leftOut' = [leftOut EXCEPT ![s] = {}]
    /\ UNCHANGED <<out, at, tries, input, asks, faults>>

Next == \/ \E s \in Script : \/ Start(s) \/ Resume(s) \/ Copy(s) \/ AttemptFails(s)
                             \/ ReplaceOutput(s) \/ FinalLoadRefused(s) \/ Unlink(s)
                             \/ Dies(s) \/ Repair(s) \/ Remove(s)
        \/ \E end \in {"whole", "open"} :
              \/ Ask(end) \/ LastAskFails(end) \/ JudgeUnanswered(end) \/ LastJudgeFails(end)
              \/ \E pass \in BOOLEAN : Judge(pass, end)
Spec == Init /\ [][Next]_vars

-----------------------------------------------------------------------------
Holds(rows, q, rec) == q \in DOMAIN rows /\ rows[q] = rec

(* Killed and resumed at any step, a script loses no record: the last one written   *)
(* of a question is in what the next start loads, the partial log alone if there is   *)
(* one (run_user_realistic_160_qa.py:106-107).  The exceptions are the records that a *)
(* start without --resume sets aside and those that a copy, killed, did not come to:   *)
(* these are asked again, and stay in the output till then.  The output is always      *)
(* whole (183-187).                                                                    *)
RecordsSurvive ==
    \A s \in Script :
       /\ out[s] = Nothing \/ Whole(out[s])
       /\ \A q \in DOMAIN newest[s] :
             IF q \in leftOut[s] THEN Holds(out[s], q, newest[s][q])
                              ELSE Holds(LoadCompleted(s), q, newest[s][q])
=============================================================================
