------------------------- MODULE PeriodicTaskProofs -------------------------
(* stop() and reset() in any order and number.                             *)
EXTENDS PeriodicTask, TLAPS

(* Once stop() was the latest call, the driver has ended or is about to    *)
(* see a cancellation that nothing excuses.                                *)
StopInv ==
    last = "stop" => \/ driver = "ended"
                     \/ doomed /\ ~resetting
                     \/ sleep = "cancelled" /\ ~resetting

IInv == TypeOK /\ StopInv

(* The types hold at first and are kept.                                   *)
LEMMA InitType == Init => TypeOK
<1> SUFFICES ASSUME Init PROVE TypeOK
  OBVIOUS
<1>1. /\ now \in BOOLEAN
      /\ resetting \in BOOLEAN /\ doomed \in BOOLEAN
  BY DEF Init
<1> QED
  BY <1>1, BoundAssumption DEF Init, TypeOK, DriverStates, SleepStates

LEMMA NextType == TypeOK /\ [Next]_vars => TypeOK'
<1> SUFFICES ASSUME TypeOK, [Next]_vars PROVE TypeOK'
  OBVIOUS
<1> USE BoundAssumption
        DEF TypeOK, DriverStates, SleepStates, BeginSleep, Call, End
<1>1. CASE Begin
  BY <1>1 DEF Begin
<1>2. CASE CallReturns
  BY <1>2 DEF CallReturns
<1>3. CASE CallCancelled
  BY <1>3 DEF CallCancelled
<1>4. CASE SleepElapses
  BY <1>4 DEF SleepElapses
<1>5. CASE Wake
  BY <1>5 DEF Wake
<1>6. CASE WakeCancelled
  <2>1. /\ now' \in BOOLEAN
        /\ resetting' \in BOOLEAN /\ doomed' \in BOOLEAN
    BY <1>6 DEF WakeCancelled
  <2>2. /\ driver' \in DriverStates /\ sleep' \in SleepStates
        /\ (sleep' # "none") <=> (driver' = "sleeping")
        /\ UNCHANGED <<last, resets, stops>>
    BY <1>6 DEF WakeCancelled
  <2> QED
    BY <2>1, <2>2
<1>7. CASE Reset
  <2>1. /\ now' \in BOOLEAN
        /\ resetting' \in BOOLEAN /\ doomed' \in BOOLEAN
    BY <1>7 DEF Reset
  <2>2. /\ driver' \in DriverStates /\ sleep' \in SleepStates
        /\ (sleep' # "none") <=> (driver' = "sleeping")
        /\ last' = "reset" /\ resets' \in 0 .. MaxResets
        /\ UNCHANGED stops
    BY <1>7 DEF Reset
  <2> QED
    BY <2>1, <2>2
<1>8. CASE Stop
  <2>1. /\ now' \in BOOLEAN
        /\ resetting' \in BOOLEAN
    BY <1>8 DEF Stop
  <2>2. /\ driver' \in DriverStates /\ sleep' \in SleepStates
        /\ (sleep' # "none") <=> (driver' = "sleeping")
        /\ last' = "stop" /\ stops' \in 0 .. MaxStops
        /\ UNCHANGED resets
    BY <1>8 DEF Stop
  <2>3. doomed' \in BOOLEAN
    BY <1>8, Zenon DEF Stop
  <2> QED
    BY <2>1, <2>2, <2>3
<1>9. CASE UNCHANGED vars
  BY <1>9 DEF vars
<1> QED
  BY <1>1, <1>2, <1>3, <1>4, <1>5, <1>6, <1>7, <1>8, <1>9 DEF Next, Loop

(* A pending stop stays pending until the driver ends or a reset() comes.  *)
LEMMA NextStop == TypeOK /\ StopInv /\ [Next]_vars => StopInv'
<1> SUFFICES ASSUME TypeOK, StopInv, [Next]_vars PROVE StopInv'
  OBVIOUS
<1> USE DEF TypeOK, StopInv, DriverStates, SleepStates, BeginSleep, Call, End
<1>1. CASE Begin
  BY <1>1 DEF Begin
<1>2. CASE CallReturns
  BY <1>2 DEF CallReturns
<1>3. CASE CallCancelled
  BY <1>3 DEF CallCancelled
<1>4. CASE SleepElapses
  BY <1>4 DEF SleepElapses
<1>5. CASE Wake
  BY <1>5 DEF Wake
<1>6. CASE WakeCancelled
  BY <1>6 DEF WakeCancelled
<1>7. CASE Reset
  BY <1>7 DEF Reset
<1>8. CASE Stop
  BY <1>8 DEF Stop
<1>9. CASE UNCHANGED vars
  BY <1>9 DEF vars
<1> QED
  BY <1>1, <1>2, <1>3, <1>4, <1>5, <1>6, <1>7, <1>8, <1>9 DEF Next, Loop

(* The invariant holds of every behavior.                                  *)
THEOREM Invariance == Spec => []IInv
<1>1. Init => IInv
  BY InitType DEF Init, IInv, StopInv
<1>2. IInv /\ [Next]_vars => IInv'
  BY NextType, NextStop DEF IInv
<1> QED
  BY <1>1, <1>2, PTL DEF Spec

(* Every variable of the driver has its type.                              *)
THEOREM TypeCorrect == Spec => []TypeOK
<1>1. IInv => TypeOK
  BY DEF IInv
<1> QED
  BY Invariance, <1>1, PTL

(* However many calls came before and wherever the last stop() met the     *)
(* driver, the coroutine is not called after it.                           *)
THEOREM StopObeyed == Spec => StopIsObeyed
<1>1. IInv /\ [Next]_vars => [last = "stop" => ~CallStarts]_vars
  <2> SUFFICES ASSUME IInv, [Next]_vars, last = "stop", CallStarts
               PROVE  FALSE
    OBVIOUS
  <2>1. \/ driver = "starting" /\ ~doomed
        \/ driver = "sleeping" /\ sleep = "elapsed" /\ ~doomed
    BY DEF CallStarts, Next, Loop, Begin, CallReturns, CallCancelled,
           SleepElapses, Wake, WakeCancelled, Reset, Stop, vars,
           BeginSleep, Call, End
  <2> QED
    BY <2>1 DEF IInv, TypeOK, StopInv
<1> QED
  BY Invariance, <1>1, PTL DEF Spec, StopIsObeyed

-----------------------------------------------------------------------------
(* What the liveness properties rest on: one step after another.           *)

(* Until the first stop(), a canceled sleep is excused by the flag.        *)
AliveInv ==
    stops = 0 => /\ driver # "ended" /\ ~doomed
                 /\ sleep = "cancelled" => resetting

(* Only a sleep that is done, or none, is left to a doomed driver.         *)
DoomInv == doomed => sleep # "running"

LEMMA AliveInit == Init => AliveInv /\ DoomInv
BY DEF Init, AliveInv, DoomInv

LEMMA AliveNext ==
    TypeOK /\ AliveInv /\ DoomInv /\ [Next]_vars => AliveInv' /\ DoomInv'
<1> SUFFICES ASSUME TypeOK, AliveInv, DoomInv, [Next]_vars
             PROVE  AliveInv' /\ DoomInv'
  OBVIOUS
<1> USE DEF TypeOK, AliveInv, DoomInv, DriverStates, SleepStates, BeginSleep,
        Call, End
<1>1. CASE Begin
  BY <1>1 DEF Begin
<1>2. CASE CallReturns \/ CallCancelled
  BY <1>2 DEF CallReturns, CallCancelled
<1>3. CASE SleepElapses \/ Wake
  BY <1>3 DEF SleepElapses, Wake
<1>4. CASE WakeCancelled
  BY <1>4 DEF WakeCancelled
<1>5. CASE Reset
  BY <1>5 DEF Reset
<1>6. CASE Stop
  BY <1>6 DEF Stop
<1>7. CASE UNCHANGED vars
  BY <1>7 DEF vars
<1> QED
  BY <1>1, <1>2, <1>3, <1>4, <1>5, <1>6, <1>7 DEF Next, Loop

THEOREM Liveliness == Spec => [](AliveInv /\ DoomInv)
<1>1. IInv /\ AliveInv /\ DoomInv /\ [Next]_vars => AliveInv' /\ DoomInv'
  BY AliveNext DEF IInv
<1> QED
  BY AliveInit, Invariance, <1>1, PTL DEF Spec

(* However often and wherever reset() meets the driver, it does not end    *)
(* the loop (the first half of KeepsCalling).                              *)
THEOREM ResetSpares == Spec => [](stops = 0 => driver # "ended")
<1>1. AliveInv => (stops = 0 => driver # "ended")
  BY DEF AliveInv
<1> QED
  BY Liveliness, <1>1, PTL

(* The steps that the driver has still to take before the next call.       *)
Nap ==
    CASE driver = "calling" -> 0
      [] driver = "starting" \/ sleep = "cancelled" -> 3
      [] sleep = "running" -> 2
      [] OTHER -> 1

(* Each of its steps brings the call nearer, a reset() puts it off by no   *)
(* more than one sleep, and nothing else does.                             *)
NapShrinks ==
    stops' = 0 /\ driver # "calling" =>
        /\ Loop => Nap' < Nap
        /\ ~Loop => Nap' <= IF Reset THEN 3 ELSE Nap

(* What fairness has to add for KeepsCalling: until the first stop() at    *)
(* most three steps, and three more for each reset(), lead to the next     *)
(* call of the coroutine.                                                  *)
THEOREM CallIsNear == Spec => [][NapShrinks]_vars
<1>1. TypeOK /\ AliveInv /\ [Next]_vars => [NapShrinks]_vars
  <2> SUFFICES ASSUME TypeOK, AliveInv, Next, stops' = 0, driver # "calling"
               PROVE  /\ Loop => Nap' < Nap
                      /\ ~Loop => Nap' <= IF Reset THEN 3 ELSE Nap
    BY DEF NapShrinks
  <2> USE DEF TypeOK, AliveInv, DriverStates, SleepStates, BeginSleep, Call,
          End, Nap
  <2>1. CASE Begin
    BY <2>1 DEF Begin, Loop
  <2>2. CASE CallReturns \/ CallCancelled \/ SleepElapses \/ Wake
    BY <2>2 DEF CallReturns, CallCancelled, SleepElapses, Wake, Loop
  <2>3. CASE WakeCancelled
    BY <2>3 DEF WakeCancelled, Loop
  <2>4. CASE Reset
    <3>1. ~Loop
      BY <2>4 DEF Reset, Loop, Begin, CallReturns, CallCancelled,
                  SleepElapses, Wake, WakeCancelled
    <3> QED
      BY <2>4, <3>1 DEF Reset
  <2>5. CASE Stop
    BY <2>5 DEF Stop
  <2> QED
    BY <2>1, <2>2, <2>3, <2>4, <2>5 DEF Next, Loop
<1>2. IInv => TypeOK
  BY DEF IInv
<1> QED
  BY Invariance, Liveliness, <1>1, <1>2, PTL DEF Spec

(* And for StopEnds: the first step of the driver after a stop() is its    *)
(* last, unless a reset() comes before it.                                 *)
THEOREM StopIsNear ==
    Spec => [][last = "stop" /\ Loop => driver' = "ended"]_vars
<1>1. IInv /\ DoomInv /\ [Next]_vars
      => [last = "stop" /\ Loop => driver' = "ended"]_vars
  <2> SUFFICES ASSUME IInv, DoomInv, last = "stop", Loop
               PROVE  driver' = "ended"
    OBVIOUS
  <2> USE DEF IInv, TypeOK, StopInv, DoomInv, DriverStates, SleepStates,
          BeginSleep, Call, End
  <2>1. CASE Begin
    BY <2>1 DEF Begin
  <2>2. CASE CallReturns \/ CallCancelled \/ SleepElapses \/ Wake
    BY <2>2 DEF CallReturns, CallCancelled, SleepElapses, Wake
  <2>3. CASE WakeCancelled
    BY <2>3 DEF WakeCancelled
  <2> QED
    BY <2>1, <2>2, <2>3 DEF Loop
<1> QED
  BY Invariance, Liveliness, <1>1, PTL DEF Spec
=============================================================================
