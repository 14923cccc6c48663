---------------------------- MODULE ResultStream ----------------------------
(***************************************************************************)
(* What the orchestrator promises whoever reads its exit status: results   *)
(* are taken from the worker threads in some order, reported in that order *)
(* each exactly once, never more than Capacity are outstanding, and a      *)
(* verdict of a session that ended regularly is given only when all of     *)
(* them are reported, and says whether one of them is a failure.           *)
(* Orchestrator implements this specification.                             *)
(***************************************************************************)
EXTENDS Integers, Sequences

CONSTANT Capacity

VARIABLES accepted, reported, report_runaways, verdict

streamVars == <<accepted, reported, report_runaways, verdict>>

Results == {"ok", "internal", "runaway", "failed"}

IsFailure(r) == r = "failed" \/ (r = "runaway" /\ report_runaways)

Init ==
    /\ accepted = <<>>
    /\ reported = 0
    /\ report_runaways \in BOOLEAN
    /\ verdict = "none"

Accept(r) ==
    /\ verdict = "none"
    /\ Len(accepted) - reported < Capacity
    /\ accepted' = Append(accepted, r)
    /\ UNCHANGED <<reported, report_runaways, verdict>>

Report ==
    /\ verdict = "none"
    /\ reported < Len(accepted)
    /\ reported' = reported + 1
    /\ UNCHANGED <<accepted, report_runaways, verdict>>

GiveVerdict ==
    /\ verdict = "none"
    /\ reported = Len(accepted)
    /\ verdict' = IF \E i \in 1..Len(accepted) : IsFailure(accepted[i])
                  THEN "failure" ELSE "success"
    /\ UNCHANGED <<accepted, reported, report_runaways>>

\* The session ends without looking at the results.
GiveUp ==
    /\ verdict = "none"
    /\ verdict' \in {"error", "watchdog"}
    /\ verdict' = "error" => accepted = <<>>
    /\ UNCHANGED <<accepted, reported, report_runaways>>

Next == (\E r \in Results : Accept(r)) \/ Report \/ GiveVerdict \/ GiveUp

Spec == Init /\ [][Next]_streamVars
=============================================================================
