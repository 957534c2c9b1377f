-------------------------- MODULE TaskWaitsProofs --------------------------
(* Proofs about the waits of an attempt, for any set of tasks: no waiter   *)
(* is orphaned, no entry outlives its waiter, and every verdict is one     *)
(* that TaskVerdicts allows.                                               *)
EXTENDS TaskWaits, Naturals, FiniteSetTheorems, TLAPS

(* What is in a Future, an answer or a message is what Koji decided, and   *)
(* Koji does not change its mind.                                          *)
TruthInv ==
    /\ \A t \in Tasks : /\ future[t] = "success" => koji[t] = "closed"
                        /\ future[t] = "failed" => koji[t] = "failed"
    /\ \A t \in bus : koji[t] \in KojiEnds
    /\ answer # "none" => asked \in Tasks
    /\ answer \in KojiEnds => koji[asked] = answer

(* Tasks are registered all at once.                                       *)
RegisteredInv ==
    \/ /\ \A t \in Tasks : waiter[t] = "none" /\ future[t] = "none"
       /\ active = {}
    \/ \A t \in Tasks : waiter[t] # "none"

IInv ==
    /\ TypeOK /\ NoOrphan /\ NoStaleEntry /\ ClaimedUnsettled
    /\ TruthInv /\ RegisteredInv

(* Settling a Future touches no other, and only if it is pending.          *)
LEMMA FireFacts ==
    ASSUME future \in [Tasks -> FutureStates], NEW t \in Tasks,
           NEW v \in FutureStates, Fire(t, v)
    PROVE  /\ future' \in [Tasks -> FutureStates]
           /\ \A u \in Tasks :
                 future'[u] = IF u = t /\ future[t] = "pending"
                              THEN v ELSE future[u]
BY DEF Fire

(* The initial state.                                                      *)
LEMMA InitInv == Init => IInv
BY NoTaskAssumption
   DEF Init, IInv, TypeOK, NoOrphan, NoStaleEntry, ClaimedUnsettled, TruthInv,
       RegisteredInv, KojiStates, KojiEnds, FutureStates, WaiterStates

(* Every step keeps the invariant.                                         *)
LEMMA NextInv == IInv /\ [Next]_vars => IInv'
<1> SUFFICES ASSUME IInv, [Next]_vars PROVE IInv'
  OBVIOUS
<1> USE NoTaskAssumption DEF IInv, TypeOK, NoOrphan, NoStaleEntry,
        ClaimedUnsettled, TruthInv, RegisteredInv, KojiStates, KojiEnds,
        FutureStates, WaiterStates, Verdicts
<1>1. CASE RegisterAll
  BY <1>1 DEF RegisterAll
<1>2. CASE Gather
  BY <1>2 DEF Gather
<1>3. ASSUME NEW t \in Tasks, NEW s \in KojiEnds, KojiEndsTask(t, s)
      PROVE  IInv'
  BY <1>3 DEF KojiEndsTask
<1>4. ASSUME NEW t \in Tasks, TimerFires(t)
      PROVE  IInv'
  <2>1. future' \in [Tasks -> FutureStates]
        /\ \A u \in Tasks :
              future'[u] = IF u = t /\ future[t] = "pending"
                           THEN "cancelled" ELSE future[u]
    BY <1>4, FireFacts DEF TimerFires
  <2> QED
    BY <1>4, <2>1 DEF TimerFires
<1>5. ASSUME NEW t \in Tasks, WaiterReturns(t)
      PROVE  IInv'
  BY <1>5 DEF WaiterReturns
<1>6. ASSUME NEW t \in Tasks, WaiterTimesOut(t)
      PROVE  IInv'
  BY <1>6 DEF WaiterTimesOut
<1>7. ASSUME NEW t \in Tasks, CancelReturns(t)
      PROVE  IInv'
  BY <1>7 DEF CancelReturns
<1>8. ASSUME NEW t \in Tasks, DeliverMessage(t)
      PROVE  IInv'
  <2>1. CASE t \in active /\ active' = active \ {t}
                /\ Fire(t, Reported(koji[t]))
    <3>1. Reported(koji[t]) \in {"success", "failed"}
      BY DEF Reported
    <3>2. /\ future' \in [Tasks -> FutureStates]
          /\ \A u \in Tasks :
                future'[u] = IF u = t /\ future[t] = "pending"
                             THEN Reported(koji[t]) ELSE future[u]
      BY <2>1, <3>1, FireFacts
    <3>3. koji[t] \in KojiEnds
      BY <1>8 DEF DeliverMessage
    <3> QED
      BY <1>8, <2>1, <3>2, <3>3 DEF DeliverMessage, Reported
  <2>2. CASE t \notin active /\ UNCHANGED <<active, future>>
    BY <1>8, <2>2 DEF DeliverMessage
  <2> QED
    BY <1>8, <2>1, <2>2 DEF DeliverMessage
<1>9. CASE PollStart
  BY <1>9 DEF PollStart
<1>10. ASSUME NEW t \in Tasks, PollAsk(t)
       PROVE  IInv'
  BY <1>10 DEF PollAsk
<1>11. CASE PollAnswered
  BY <1>11 DEF PollAnswered
<1>12. CASE PollSettles
  <2> DEFINE v == IF answer = "error" THEN "unknown" ELSE Reported(answer)
  <2>1. /\ asked \in Tasks /\ asked \in active
        /\ v \in {"success", "failed", "unknown"}
        /\ v = "success" => koji[asked] = "closed"
        /\ v = "failed" => koji[asked] = "failed"
    BY <1>12 DEF PollSettles, Reported
  <2>2. Fire(asked, v)
    BY <1>12 DEF PollSettles
  <2> HIDE DEF v
  <2>3. /\ future' \in [Tasks -> FutureStates]
        /\ \A u \in Tasks :
              future'[u] = IF u = asked /\ future[asked] = "pending"
                           THEN v ELSE future[u]
    BY <2>1, <2>2, FireFacts
  <2> QED
    BY <1>12, <2>1, <2>3 DEF PollSettles
<1>13. CASE PollLeaves
  BY <1>13 DEF PollLeaves
<1>14. CASE UNCHANGED vars
  BY <1>14 DEF vars
<1> QED
  BY <1>1, <1>2, <1>3, <1>4, <1>5, <1>6, <1>7, <1>8, <1>9, <1>10, <1>11,
     <1>12, <1>13, <1>14 DEF Next, PollStep, WaitStep

(* Every step is one of TaskVerdicts or changes nothing it speaks of.      *)
LEMMA StepRefines == IInv /\ [Next]_vars => [Promised!Next]_(Promised!vars)
<1> DEFINE told == [t \in Tasks |-> IF waiter[t] = "cancelling"
                                    THEN "waiting" ELSE waiter[t]]
<1> SUFFICES ASSUME IInv, [Next]_vars
             PROVE  Promised!Next \/ UNCHANGED <<koji, told>>
  BY DEF Promised!vars
<1> USE DEF IInv, TypeOK, TruthInv
<1>1. CASE RegisterAll
  <2>1. Promised!Register
    BY <1>1 DEF RegisterAll, Promised!Register
  <2> QED
    BY <2>1 DEF Promised!Next
<1>2. ASSUME NEW t \in Tasks, NEW s \in KojiEnds, KojiEndsTask(t, s)
      PROVE  Promised!Next
  <2>1. Promised!End(t)
    BY <1>2 DEF KojiEndsTask, Promised!End, KojiEnds, Promised!KojiEnds
  <2> QED
    BY <2>1 DEF Promised!Next
<1>3. ASSUME NEW t \in Tasks, WaiterReturns(t)
      PROVE  Promised!Next
  <2>1. PICK v \in Verdicts : future[t] = v
    BY <1>3 DEF WaiterReturns
  <2>2. /\ told[t] = "waiting"
        /\ told' = [told EXCEPT ![t] = v]
        /\ UNCHANGED koji
    BY <1>3, <2>1 DEF WaiterReturns, Verdicts
  <2>3. Promised!Decide(t, v)
    BY <2>1, <2>2 DEF Promised!Decide
  <2>4. v \in Promised!Verdicts
    BY DEF Verdicts, Promised!Verdicts
  <2> QED
    BY <2>3, <2>4 DEF Promised!Next
<1>4. ASSUME NEW t \in Tasks, CancelReturns(t)
      PROVE  Promised!Next
  <2>1. /\ told[t] = "waiting"
        /\ told' = [told EXCEPT ![t] = "timeout"]
        /\ UNCHANGED koji
    BY <1>4 DEF CancelReturns
  <2>2. Promised!Decide(t, "timeout")
    BY <2>1 DEF Promised!Decide
  <2> QED
    BY <2>2 DEF Promised!Next, Promised!Verdicts
<1>5. ASSUME NEW t \in Tasks, WaiterTimesOut(t)
      PROVE  UNCHANGED <<koji, told>>
  BY <1>5 DEF WaiterTimesOut
<1>6. CASE Gather \/ PollStep \/ UNCHANGED vars
           \/ \E t \in Tasks : TimerFires(t) \/ DeliverMessage(t)
  BY <1>6 DEF Gather, PollStep, PollStart, PollAsk, PollAnswered, PollSettles,
              PollLeaves, TimerFires, DeliverMessage, vars
<1> QED
  BY <1>1, <1>2, <1>3, <1>4, <1>5, <1>6 DEF Next, WaitStep

-----------------------------------------------------------------------------
(* The invariant holds of every behavior.                                  *)
THEOREM Invariance == Spec => []IInv
<1>1. IInv /\ [Next]_vars => IInv'
  BY NextInv
<1> QED
  BY InitInv, <1>1, PTL DEF Spec

(* Every variable of the waits has its type.                               *)
THEOREM TypeCorrect == Spec => []TypeOK
<1>1. IInv => TypeOK
  BY DEF IInv
<1> QED
  BY Invariance, <1>1, PTL

(* No race of messages, poll and timers leaves a waiter with an unsettled  *)
(* Future that active_tasks has lost, nor a task whose waiter has gone.    *)
THEOREM WaitsMatch == Spec => []WaitsMatchEntries
<1>1. IInv => WaitsMatchEntries
  BY DEF IInv, WaitsMatchEntries
<1> QED
  BY Invariance, <1>1, PTL

(* A Future in active_tasks is settled already only when its timer has     *)
(* fired.                                                                  *)
THEOREM SettledOnce == Spec => []ClaimedUnsettled
<1>1. IInv => ClaimedUnsettled
  BY DEF IInv
<1> QED
  BY Invariance, <1>1, PTL

(* The races implement the abstract promise: one verdict per task, and     *)
(* success or failure is reported only of a task that closed or failed.    *)
THEOREM Refinement == Spec => ImplementsVerdicts
<1>1. Init => Promised!Init
  BY DEF Init, Promised!Init
<1>2. IInv /\ [Next]_vars => [Promised!Next]_(Promised!vars)
  BY StepRefines
<1> QED
  BY <1>1, <1>2, Invariance, PTL DEF Spec, ImplementsVerdicts, Promised!Spec

-----------------------------------------------------------------------------
(* How soon the poll finds that a task has ended.                          *)

(* The steps that remain of the round of check_tasks.                      *)
RoundLeft ==
    3 * Cardinality(watched)
        + (IF asked = NoTask THEN 0 ELSE IF answer = "none" THEN 2 ELSE 1)

(* This round is still to ask about t, or has not asked too early.         *)
Covered(t) == t \in watched \/ (asked = t /\ answer # "open")

PollLag(t) == IF Covered(t) THEN RoundLeft
                            ELSE RoundLeft + 3 * Cardinality(Tasks) + 1

(* Every step of the poll brings it nearer to an ended task that is still  *)
(* registered, and nothing else keeps it from it; and whoever takes its    *)
(* entry out tells the waiter how it ended, unless the waiter's time is up *)
(* or it was asked about in vain.                                          *)
EndIsNear(t) ==
    t \in active /\ koji[t] \in KojiEnds =>
        IF t \in active'
        THEN /\ PollLag(t) \in Nat
             /\ IF PollStep THEN PollLag(t)' < PollLag(t)
                            ELSE PollLag(t)' = PollLag(t)
        ELSE t \in expired \/ answer = "error" \/ future'[t] = Reported(koji[t])

LEMMA Sizes ==
    ASSUME NEW s \in SUBSET Tasks
    PROVE  /\ Cardinality(s) \in Nat /\ Cardinality(s) <= Cardinality(Tasks)
           /\ \A t \in s : Cardinality(s \ {t}) = Cardinality(s) - 1
           /\ s = {} => Cardinality(s) = 0
<1>1. IsFiniteSet(s) /\ IsFiniteSet(Tasks)
  BY FiniteAssumption, FS_Subset
<1> QED
  BY <1>1, FS_CardinalityType, FS_Subset, FS_RemoveElement, FS_EmptySet

LEMMA PollCloses ==
    ASSUME IInv, NEW t \in Tasks, t \in active, koji[t] \in KojiEnds,
           t \in active', PollStep
    PROVE  PollLag(t)' < PollLag(t)
<1> DEFINE w == Cardinality(watched)
           N == Cardinality(Tasks)
<1>1. w \in Nat /\ N \in Nat /\ t # NoTask
  BY Sizes, NoTaskAssumption DEF IInv, TypeOK
<1>2. CASE PollStart
  <2>1. Cardinality(watched') \in Nat /\ Cardinality(watched') <= N
    BY <1>2, Sizes DEF PollStart, IInv, TypeOK
  <2>2. w = 0
    BY <1>2, Sizes DEF PollStart
  <2>3. ~Covered(t) /\ Covered(t)'
    BY <1>1, <1>2 DEF PollStart, Covered
  <2> QED
    BY <1>1, <1>2, <2>1, <2>2, <2>3 DEF PollStart, PollLag, RoundLeft
<1>3. ASSUME NEW u \in Tasks, PollAsk(u)
      PROVE  PollLag(t)' < PollLag(t)
  <2>1. Cardinality(watched') = w - 1
    BY <1>3, Sizes DEF PollAsk, IInv, TypeOK
  <2>2. Covered(t)' <=> Covered(t)
    BY <1>1, <1>3 DEF PollAsk, Covered
  <2>3. asked = NoTask /\ asked' # NoTask /\ answer' = "none"
    BY <1>3, NoTaskAssumption DEF PollAsk
  <2> QED
    BY <1>1, <2>1, <2>2, <2>3 DEF PollLag, RoundLeft
<1>4. CASE PollAnswered
  <2>1. /\ asked # NoTask /\ asked' = asked /\ watched' = watched
        /\ answer = "none" /\ answer' # "none"
        /\ asked = t => answer' # "open"
    BY <1>4 DEF PollAnswered, IInv, TypeOK, KojiStates, KojiEnds
  <2>2. Covered(t)' <=> Covered(t)
    BY <2>1 DEF Covered
  <2> QED
    BY <1>1, <2>1, <2>2 DEF PollLag, RoundLeft
<1>5. CASE PollSettles \/ PollLeaves
  <2>1. /\ asked # NoTask /\ asked' = NoTask /\ watched' = watched
        /\ answer # "none"
        /\ asked = t => answer = "open"
    BY <1>5, NoTaskAssumption
       DEF PollSettles, PollLeaves, IInv, TypeOK, KojiEnds
  <2>2. Covered(t)' <=> Covered(t)
    BY <1>1, <2>1 DEF Covered
  <2> QED
    BY <1>1, <2>1, <2>2 DEF PollLag, RoundLeft
<1> QED
  BY <1>2, <1>3, <1>4, <1>5 DEF PollStep

LEMMA EndIsTold ==
    ASSUME IInv, [Next]_vars, NEW t \in Tasks, t \in active, t \notin active',
           t \notin expired, answer # "error", koji[t] \in KojiEnds
    PROVE  future'[t] = Reported(koji[t])
<1>1. future[t] = "pending" /\ waiter[t] # "none"
  BY DEF IInv, ClaimedUnsettled, NoStaleEntry
<1>2. CASE DeliverMessage(t)
  BY <1>1, <1>2 DEF DeliverMessage, Fire, IInv, TypeOK
<1>3. CASE PollSettles
  BY <1>1, <1>3 DEF PollSettles, Fire, IInv, TypeOK, TruthInv, KojiEnds
<1>4. ASSUME NEW u \in Tasks, u # t, DeliverMessage(u) \/ WaiterTimesOut(u)
      PROVE  FALSE
  BY <1>4 DEF DeliverMessage, WaiterTimesOut
<1>5. CASE WaiterTimesOut(t) \/ RegisterAll
  BY <1>1, <1>5 DEF WaiterTimesOut, RegisterAll
<1>6. CASE \/ UNCHANGED active
           \/ Gather \/ PollStart \/ PollAnswered \/ PollLeaves
           \/ \E u \in Tasks : \/ PollAsk(u) \/ TimerFires(u) \/ WaiterReturns(u)
                              \/ CancelReturns(u)
                              \/ \E s \in KojiEnds : KojiEndsTask(u, s)
  BY <1>6 DEF Gather, PollStart, PollAnswered, PollLeaves, PollAsk, TimerFires,
              WaiterReturns, CancelReturns, KojiEndsTask
<1> QED
  BY <1>2, <1>3, <1>4, <1>5, <1>6 DEF Next, PollStep, WaitStep, vars

(* What fairness has to add for EndIsReported, and for waits whose         *)
(* messages are lost: no more than two rounds of check_tasks.              *)
THEOREM PollFindsEnd == Spec => [][\A t \in Tasks : EndIsNear(t)]_vars
<1>1. ASSUME IInv, Next, NEW t \in Tasks
      PROVE  EndIsNear(t)
  <2>1. ASSUME t \in active, koji[t] \in KojiEnds, t \notin active'
        PROVE  t \in expired \/ answer = "error"
                   \/ future'[t] = Reported(koji[t])
    BY <1>1, <2>1, EndIsTold
  <2>2. PollLag(t) \in Nat
    BY <1>1, Sizes DEF PollLag, RoundLeft, IInv, TypeOK
  <2>3. ASSUME ~PollStep
        PROVE  PollLag(t)' = PollLag(t)
    <3>1. UNCHANGED <<watched, asked, answer>>
      BY <1>1, <2>3 DEF Next, RegisterAll, Gather, KojiEndsTask, TimerFires,
         WaitStep, WaiterReturns, WaiterTimesOut, CancelReturns, DeliverMessage
    <3> QED
      BY <3>1 DEF PollLag, RoundLeft, Covered
  <2> QED
    BY <1>1, <2>1, <2>2, <2>3, PollCloses DEF EndIsNear
<1>2. IInv /\ [Next]_vars => [\A t \in Tasks : EndIsNear(t)]_vars
  BY <1>1
<1> QED
  BY <1>2, Invariance, PTL DEF Spec
=============================================================================
