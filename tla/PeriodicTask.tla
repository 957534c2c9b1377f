---------------------------- MODULE PeriodicTask ----------------------------
(***************************************************************************)
(* scheduling.PeriodicTask, which drives process_message_batch (where its  *)
(* reset() makes the lull timer), check_tasks, check_tags and the others.  *)
(*                                                                         *)
(* The driver task calls the coroutine and sleeps, for ever.  It sleeps by *)
(* awaiting a second task, which reset() cancels to start the interval     *)
(* again and stop() cancels to end everything; the driver cannot tell the  *)
(* two apart but by the _resetting flag.  Between the cancellation of the  *)
(* sleep, or its end, and the moment the driver runs again, other code on  *)
(* the event loop may call reset() and stop() any number of times.         *)
(***************************************************************************)
EXTENDS Naturals

CONSTANTS
    MaxResets, MaxStops \* bounds on the calls of reset() and stop()

ASSUME BoundAssumption == MaxResets \in Nat /\ MaxStops \in Nat

VARIABLES
    now,       \* the argument of start()
    driver,    \* where _run stands
    sleep,     \* _sleep_task: not there, sleeping, or done but unobserved
    resetting, \* _resetting
    doomed,    \* asyncio will raise CancelledError in the driver
    \* history and bounds
    last,      \* the latest call of reset() or stop() that found it running
    resets, stops

vars == <<now, driver, sleep, resetting, doomed, last, resets, stops>>

DriverStates == {"starting", "calling", "sleeping", "ended"}
SleepStates  == {"none", "running", "cancelled", "elapsed"}

Init ==
    /\ now \in BOOLEAN
    /\ driver = "starting" /\ sleep = "none"
    /\ resetting = FALSE /\ doomed = FALSE
    /\ last = "none"
    /\ resets = 0 /\ stops = 0

BeginSleep == driver' = "sleeping" /\ sleep' = "running"
Call == driver' = "calling" /\ sleep' = "none"
End == driver' = "ended" /\ sleep' = "none"

-----------------------------------------------------------------------------
(* The first step of the driver.                                           *)
Begin ==
    /\ driver = "starting"
    /\ \/ doomed /\ End
       \/ ~doomed /\ now /\ Call
       \/ ~doomed /\ ~now /\ BeginSleep
    /\ UNCHANGED <<now, resetting, doomed, last, resets, stops>>

(* The coroutine returns, or raises and is logged.                         *)
CallReturns ==
    /\ driver = "calling" /\ ~doomed
    /\ BeginSleep
    /\ UNCHANGED <<now, resetting, doomed, last, resets, stops>>

(* The cancellation passes through the coroutine.                          *)
CallCancelled ==
    /\ driver = "calling" /\ doomed
    /\ End
    /\ UNCHANGED <<now, resetting, doomed, last, resets, stops>>

SleepElapses ==
    /\ sleep = "running"
    /\ sleep' = "elapsed"
    /\ UNCHANGED <<now, driver, resetting, doomed, last, resets, stops>>

(* _sleep sees its task done.                                              *)
Wake ==
    /\ driver = "sleeping" /\ sleep = "elapsed" /\ ~doomed
    /\ Call
    /\ UNCHANGED <<now, resetting, doomed, last, resets, stops>>

(* Mutant of WakeCancelled: the flag is not read, every cancellation ends  *)
(* the loop.                                                               *)
WakeCancelled_Ends ==
    /\ driver = "sleeping"
    /\ sleep = "cancelled" \/ (sleep = "elapsed" /\ doomed)
    /\ doomed' = FALSE /\ End /\ UNCHANGED resetting
    /\ UNCHANGED <<now, last, resets, stops>>

(* _sleep sees CancelledError and takes it for what the flag says.         *)
WakeCancelled ==
    /\ driver = "sleeping"
    /\ sleep = "cancelled" \/ (sleep = "elapsed" /\ doomed)
    /\ doomed' = FALSE
    /\ \/ resetting /\ resetting' = FALSE /\ BeginSleep
       \/ ~resetting /\ End /\ UNCHANGED resetting
    /\ UNCHANGED <<now, last, resets, stops>>

(* reset(); with nothing asleep it does nothing, and a sleep that is done  *)
(* cannot be canceled any more.                                            *)
Reset ==
    /\ sleep # "none" /\ resets < MaxResets
    /\ resetting' = TRUE
    /\ sleep' = IF sleep = "running" THEN "cancelled" ELSE sleep
    /\ last' = "reset"
    /\ resets' = resets + 1
    /\ UNCHANGED <<now, driver, doomed, stops>>

(* Mutant of Stop: a reset() that is not observed yet is not withdrawn.    *)
Stop_KeepsFlag ==
    /\ driver # "ended" /\ stops < MaxStops
    /\ UNCHANGED resetting
    /\ doomed' = (doomed \/ sleep \in {"none", "elapsed"})
    /\ sleep' = IF sleep = "running" THEN "cancelled" ELSE sleep
    /\ last' = "stop"
    /\ stops' = stops + 1
    /\ UNCHANGED <<now, driver, resets>>

(* Mutant of Stop: only the sleep is canceled.                             *)
Stop_SleepOnly ==
    /\ driver # "ended" /\ stops < MaxStops
    /\ resetting' = FALSE
    /\ sleep' = IF sleep = "running" THEN "cancelled" ELSE sleep
    /\ last' = "stop"
    /\ stops' = stops + 1
    /\ UNCHANGED <<now, driver, doomed, resets>>

(* stop(): canceling the driver cancels what it awaits, and only when that *)
(* is done already, or is the coroutine, is the driver itself marked.      *)
Stop ==
    /\ driver # "ended" /\ stops < MaxStops
    /\ resetting' = FALSE
    /\ doomed' = (doomed \/ sleep \in {"none", "elapsed"})
    /\ sleep' = IF sleep = "running" THEN "cancelled" ELSE sleep
    /\ last' = "stop"
    /\ stops' = stops + 1
    /\ UNCHANGED <<now, driver, resets>>

Loop ==
    \/ Begin \/ CallReturns \/ CallCancelled
    \/ SleepElapses \/ Wake \/ WakeCancelled

Next == Loop \/ Reset \/ Stop

Spec == Init /\ [][Next]_vars

(* The event loop runs what is ready, sleeps elapse and the coroutine      *)
(* returns: every await in those of this program is bounded.               *)
FairSpec == Spec /\ WF_vars(Loop)

-----------------------------------------------------------------------------
(* Correctness                                                             *)

(* Every variable has its type.                                            *)
TypeOK ==
    /\ now \in BOOLEAN
    /\ driver \in DriverStates /\ sleep \in SleepStates
    /\ (sleep # "none") <=> (driver = "sleeping")
    /\ resetting \in BOOLEAN /\ doomed \in BOOLEAN
    /\ last \in {"none", "reset", "stop"}
    /\ resets \in 0 .. MaxResets /\ stops \in 0 .. MaxStops

CallStarts == driver # "calling" /\ driver' = "calling"

(* After stop(), and no reset() later than it, the coroutine is not called *)
(* again, wherever stop() met the driver and whatever reset() came before: *)
(* "a stop() always wins over a same-tick reset() that hasn't been         *)
(* observed".                                                              *)
StopIsObeyed == [][last = "stop" => ~CallStarts]_vars

(* And the driver ends.                                                    *)
StopEnds == last = "stop" ~> (driver = "ended" \/ last = "reset")

(* reset() alone never ends the loop, nor keeps it from calling for ever   *)
(* once the resets cease; the message consumer resets the lull timer at    *)
(* every trigger, and a loop it ended would leave all triggers pending.    *)
KeepsCalling == [](stops = 0) => []<>(driver = "calling")

=============================================================================
