----------------------------- MODULE TaskWaits -----------------------------
(***************************************************************************)
(* How a rebuild attempt waits for its Koji tasks (listener.py and         *)
(* kojihelpers.builds.wait_for_tasks).                                     *)
(*                                                                         *)
(* Each task has a Future in state.active_tasks.  Three parties race to    *)
(* settle it: a buildsys.task.state.change message, the check_tasks poll,  *)
(* and the timeout of the wait itself.  All run on one event loop, so the  *)
(* code between two awaits is one step; what interleaves is the poll,      *)
(* which awaits Koji's answer, and the waiter, which runs some time after  *)
(* its Future is settled or its timer has fired.                           *)
(*                                                                         *)
(* Messages may be lost, late or delivered twice.                          *)
(***************************************************************************)
EXTENDS FiniteSets

CONSTANTS
    Tasks,
    NoTask

ASSUME NoTaskAssumption == NoTask \notin Tasks
ASSUME FiniteAssumption == IsFiniteSet(Tasks)

VARIABLES
    calm,     \* no wait is longer than its timeout and no poll fails to reach
              \* Koji, a choice made at the start
    koji,     \* the state of each task at Koji
    bus,      \* tasks whose final message is in flight
    active,   \* keys of state.active_tasks
    future,   \* the Future registered for each task
    expired,  \* tasks whose wait_for timer has fired
    waiter,   \* where each wait_for_registered_task stands
    gathered, \* wait_for_tasks has returned
    watched,  \* check_tasks: tasks of its snapshot it has still to ask about
    asked,    \* check_tasks: the task whose getTaskInfo it awaits
    answer    \* check_tasks: the answer, once it has come

vars == <<calm, koji, bus, active, future, expired, waiter, gathered,
          watched, asked, answer>>

KojiEnds == {"closed", "failed"}
KojiStates == {"open"} \cup KojiEnds

(* A Future is settled with the task's data, with a TaskFailedError whose  *)
(* data names the request or not, or canceled by its timer.                *)
FutureStates == {"none", "pending", "success", "failed", "unknown",
                 "cancelled"}
Verdicts == {"success", "failed", "unknown", "timeout"}
WaiterStates == {"none", "waiting", "cancelling"} \cup Verdicts

(* What a final state of Koji says to the waiter.                          *)
Reported(s) == IF s = "closed" THEN "success" ELSE "failed"

(* set_result and set_exception: on a Future already done they raise       *)
(* InvalidStateError, which fire_task_callback and fire_task_errback       *)
(* swallow.                                                                *)
Fire(t, v) ==
    future' = [future EXCEPT ![t] = IF @ = "pending" THEN v ELSE @]

Init ==
    /\ calm \in BOOLEAN
    /\ koji = [t \in Tasks |-> "open"]
    /\ bus = {}
    /\ active = {}
    /\ future = [t \in Tasks |-> "none"]
    /\ expired = {}
    /\ waiter = [t \in Tasks |-> "none"]
    /\ gathered = FALSE
    /\ watched = {} /\ asked = NoTask /\ answer = "none"

-----------------------------------------------------------------------------
(* Koji                                                                    *)

(* A task ends; its message may never be sent.                             *)
KojiEndsTask(t, s) ==
    /\ koji[t] = "open"
    /\ koji' = [koji EXCEPT ![t] = s]
    /\ bus' \in {bus, bus \cup {t}}
    /\ UNCHANGED <<calm, active, future, expired, waiter, gathered, watched,
                   asked, answer>>

-----------------------------------------------------------------------------
(* wait_for_tasks and wait_for_registered_task                             *)

(* The tasks have run since start_builds; all are registered before any is *)
(* awaited.                                                                *)
RegisterAll ==
    /\ \A t \in Tasks : waiter[t] = "none"
    /\ active' = Tasks
    /\ future' = [t \in Tasks |-> "pending"]
    /\ waiter' = [t \in Tasks |-> "waiting"]
    /\ UNCHANGED <<calm, koji, bus, expired, gathered, watched, asked,
                   answer>>

(* The timer cancels the waiting coroutine: its Future if it is pending,   *)
(* and if not, the coroutine is told at its next step all the same.        *)
TimerFires(t) ==
    /\ ~calm
    /\ waiter[t] = "waiting" /\ t \notin expired
    /\ expired' = expired \cup {t}
    /\ Fire(t, "cancelled")
    /\ UNCHANGED <<calm, koji, bus, active, waiter, gathered, watched, asked,
                   answer>>

(* The waiter runs again with its Future settled in time.                  *)
WaiterReturns(t) ==
    /\ waiter[t] = "waiting" /\ t \notin expired
    /\ future[t] \in Verdicts
    /\ waiter' = [waiter EXCEPT ![t] = future[t]]
    /\ UNCHANGED <<calm, koji, bus, active, future, expired, gathered,
                   watched, asked, answer>>

(* Mutant of WaiterTimesOut: the canceled Future stays in active_tasks.    *)
WaiterTimesOut_Unclaimed(t) ==
    /\ waiter[t] = "waiting" /\ t \in expired
    /\ waiter' = [waiter EXCEPT ![t] = "cancelling"]
    /\ UNCHANGED <<calm, koji, bus, active, future, expired, gathered,
                   watched, asked, answer>>

(* The waiter runs again with TimeoutError, whatever its Future holds.     *)
WaiterTimesOut(t) ==
    /\ waiter[t] = "waiting" /\ t \in expired
    /\ active' = active \ {t}
    /\ waiter' = [waiter EXCEPT ![t] = "cancelling"]
    /\ UNCHANGED <<calm, koji, bus, future, expired, gathered, watched,
                   asked, answer>>

(* Mutant of CancelReturns: the waiter stays until Koji has canceled.      *)
CancelReturns_Confirmed(t) ==
    /\ waiter[t] = "cancelling"
    /\ koji[t] # "open"
    /\ waiter' = [waiter EXCEPT ![t] = "timeout"]
    /\ UNCHANGED <<calm, koji, bus, active, future, expired, gathered,
                   watched, asked, answer>>

(* cancel_task returns, even if Koji did not hear.  When it did, the task  *)
(* has ended as one that failed (KojiEndsTask) before this step or will.   *)
CancelReturns(t) ==
    /\ waiter[t] = "cancelling"
    /\ waiter' = [waiter EXCEPT ![t] = "timeout"]
    /\ UNCHANGED <<calm, koji, bus, active, future, expired, gathered,
                   watched, asked, answer>>

(* gather returns once every waiter has.                                   *)
Gather ==
    /\ ~gathered
    /\ \A t \in Tasks : waiter[t] \in Verdicts
    /\ gathered' = TRUE
    /\ UNCHANGED <<calm, koji, bus, active, future, expired, waiter, watched,
                   asked, answer>>

-----------------------------------------------------------------------------
(* listener._handle_task_state_change                                      *)

(* Mutant of DeliverMessage: the Future is looked up, not claimed.         *)
DeliverMessage_Unclaimed(t) ==
    /\ t \in bus
    /\ bus' \in {bus, bus \ {t}}
    /\ t \in active
    /\ Fire(t, Reported(koji[t]))
    /\ UNCHANGED <<calm, koji, active, expired, waiter, gathered, watched,
                   asked, answer>>

(* The final message of t is handled; it may come again.  Messages for     *)
(* tasks that are not registered are dropped.                              *)
DeliverMessage(t) ==
    /\ t \in bus
    /\ bus' \in {bus, bus \ {t}}
    /\ \/ /\ t \in active
          /\ active' = active \ {t}
          /\ Fire(t, Reported(koji[t]))
       \/ /\ t \notin active
          /\ UNCHANGED <<active, future>>
    /\ UNCHANGED <<calm, koji, expired, waiter, gathered, watched, asked,
                   answer>>

-----------------------------------------------------------------------------
(* listener.check_tasks                                                    *)

PollStart ==
    /\ watched = {} /\ asked = NoTask
    /\ watched' = active
    /\ UNCHANGED <<calm, koji, bus, active, future, expired, waiter,
                   gathered, asked, answer>>

PollAsk(t) ==
    /\ asked = NoTask /\ t \in watched
    /\ watched' = watched \ {t}
    /\ asked' = t
    /\ answer' = "none"
    /\ UNCHANGED <<calm, koji, bus, active, future, expired, waiter,
                   gathered>>

(* Koji answers with the state of that moment, or call_koji gives up.      *)
PollAnswered ==
    /\ asked # NoTask /\ answer = "none"
    /\ answer' \in {koji[asked]} \cup (IF calm THEN {} ELSE {"error"})
    /\ UNCHANGED <<calm, koji, bus, active, future, expired, waiter,
                   gathered, watched, asked>>

(* The answer settles a Future that nobody claimed meanwhile; a poll that  *)
(* failed settles it too, with a failure that names no request.            *)
PollSettles ==
    /\ asked \in active
    /\ answer \in KojiEnds \cup {"error"}
    /\ active' = active \ {asked}
    /\ Fire(asked, IF answer = "error" THEN "unknown" ELSE Reported(answer))
    /\ asked' = NoTask
    /\ answer' = "none"
    /\ UNCHANGED <<calm, koji, bus, expired, waiter, gathered, watched>>

(* Mutant of PollLeaves: a Future claimed for a running task is not put    *)
(* back.                                                                   *)
PollLeaves_Drops ==
    /\ asked # NoTask /\ answer # "none"
    /\ asked \notin active \/ answer = "open"
    /\ active' = active \ {asked}
    /\ asked' = NoTask
    /\ answer' = "none"
    /\ UNCHANGED <<calm, koji, bus, future, expired, waiter, gathered,
                   watched>>

(* The answer comes too late, or the task is still running: a Future       *)
(* claimed for nothing is put back.                                        *)
PollLeaves ==
    /\ asked # NoTask /\ answer # "none"
    /\ asked \notin active \/ answer = "open"
    /\ asked' = NoTask
    /\ answer' = "none"
    /\ UNCHANGED <<calm, koji, bus, active, future, expired, waiter,
                   gathered, watched>>

-----------------------------------------------------------------------------
WaitStep(t) == WaiterReturns(t) \/ WaiterTimesOut(t) \/ CancelReturns(t)

PollStep ==
    \/ PollStart \/ PollAnswered \/ PollSettles \/ PollLeaves
    \/ \E t \in Tasks : PollAsk(t)

Next ==
    \/ RegisterAll \/ Gather \/ PollStep
    \/ \E t \in Tasks : \/ \E s \in KojiEnds : KojiEndsTask(t, s)
                        \/ TimerFires(t) \/ WaitStep(t) \/ DeliverMessage(t)

Spec == Init /\ [][Next]_vars

(* The event loop runs what is ready, timers fire, the PeriodicTask keeps  *)
(* polling and call_koji gives up after a minute.  Messages are owed       *)
(* nothing, nor is a task obliged to end, unless before its timeout.       *)
FairSpec ==
    /\ Spec
    /\ WF_vars(RegisterAll) /\ WF_vars(Gather) /\ WF_vars(PollStep)
    /\ \A t \in Tasks : WF_vars(TimerFires(t)) /\ WF_vars(WaitStep(t))
    /\ \A t \in Tasks :
          WF_vars(calm /\ \E s \in KojiEnds : KojiEndsTask(t, s))

-----------------------------------------------------------------------------
(* Correctness                                                             *)

(* Every variable has its type.                                            *)
TypeOK ==
    /\ calm \in BOOLEAN
    /\ koji \in [Tasks -> KojiStates]
    /\ bus \subseteq Tasks
    /\ active \subseteq Tasks
    /\ future \in [Tasks -> FutureStates]
    /\ expired \subseteq Tasks
    /\ waiter \in [Tasks -> WaiterStates]
    /\ gathered \in BOOLEAN
    /\ watched \subseteq Tasks
    /\ asked \in Tasks \cup {NoTask}
    /\ answer \in KojiStates \cup {"none", "error"}

(* As long as somebody waits for an unsettled Future, active_tasks holds   *)
(* it: the claim and the reinsertion of check_tasks, the messages and the  *)
(* timeouts never leave a waiter nobody can reach.                         *)
NoOrphan ==
    \A t \in Tasks :
        waiter[t] = "waiting" /\ future[t] = "pending" => t \in active

(* Conversely active_tasks holds no task whose waiter has gone; the poll   *)
(* would keep asking about it, and registering it again would fail.        *)
NoStaleEntry == \A t \in active : waiter[t] = "waiting"

(* active_tasks is what the waiters need, no less and no more.             *)
WaitsMatchEntries == NoOrphan /\ NoStaleEntry

(* Whoever claims a Future finds it unsettled, but for the race with its   *)
(* timer that fire_task_callback's comment allows for.                     *)
ClaimedUnsettled == \A t \in active : future[t] = "pending" \/ t \in expired

(* To its caller a waiter that cancels the task is still waiting.          *)
Promised == INSTANCE TaskVerdicts WITH
    verdict <- [t \in Tasks |-> IF waiter[t] = "cancelling" THEN "waiting"
                                                            ELSE waiter[t]]

(* Each waiter gets one verdict, and success or failure is reported only   *)
(* of a task that closed or failed.                                        *)
ImplementsVerdicts == Promised!Spec

(* And it gets one in the end, if only from its timer.                     *)
ImplementsFairly == Promised!FairSpec

(* When waits are long enough and Koji can be reached, the poll reports    *)
(* the end of every task even if all messages are lost.                    *)
EndIsReported ==
    \A t \in Tasks, s \in KojiEnds :
        (calm /\ koji[t] = s) ~> (waiter[t] = Reported(s))

-----------------------------------------------------------------------------
(* What the documentation says and the code does not do                    *)

(* wait_for_registered_task: TaskFailedError is raised "if the task fails  *)
(* or is canceled".  A poll that cannot reach Koji raises it for a task    *)
(* that is still running.                                                  *)
FailedMeansFailed ==
    \A t \in Tasks : waiter[t] \in {"failed", "unknown"} => koji[t] = "failed"
=============================================================================
