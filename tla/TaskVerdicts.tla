---------------------------- MODULE TaskVerdicts ----------------------------
(***************************************************************************)
(* What waiting for Koji tasks promises: every task of a rebuild attempt   *)
(* gets one verdict, once, and a verdict of success is the truth.  How the *)
(* verdict is reached (a message, a poll, a timeout) is left to TaskWaits, *)
(* which implements this specification.                                    *)
(***************************************************************************)
CONSTANT Tasks

VARIABLES
    koji,    \* the state of each task at Koji
    verdict  \* what the waiter of each task was told

KojiEnds == {"closed", "failed"}
KojiStates == {"open"} \cup KojiEnds

(* "failed" carries the request that failed; "unknown" and "timeout" do    *)
(* not.                                                                    *)
Verdicts == {"success", "failed", "unknown", "timeout"}

vars == <<koji, verdict>>

Init ==
    /\ koji = [t \in Tasks |-> "open"]
    /\ verdict = [t \in Tasks |-> "none"]

(* A task ends at Koji, by itself or because it was canceled.              *)
End(t) ==
    /\ koji[t] = "open"
    /\ \E s \in KojiEnds : koji' = [koji EXCEPT ![t] = s]
    /\ UNCHANGED verdict

Register ==
    /\ \A t \in Tasks : verdict[t] = "none"
    /\ verdict' = [t \in Tasks |-> "waiting"]
    /\ UNCHANGED koji

Decide(t, v) ==
    /\ verdict[t] = "waiting"
    /\ v = "success" => koji[t] = "closed"
    /\ v = "failed" => koji[t] = "failed"
    /\ verdict' = [verdict EXCEPT ![t] = v]
    /\ UNCHANGED koji

Next ==
    \/ Register
    \/ \E t \in Tasks : End(t) \/ \E v \in Verdicts : Decide(t, v)

Spec == Init /\ [][Next]_vars

(* Waiting always ends.                                                    *)
FairSpec == Spec /\ WF_vars(Register)
                 /\ \A t \in Tasks : WF_vars(\E v \in Verdicts : Decide(t, v))
=============================================================================
