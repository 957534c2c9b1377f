----------------------- MODULE KojiConnectionProofs -----------------------
(* Proofs about the shared Koji session and its ticket, for any number of  *)
(* threads, sessions and tries, and any lifetime not below the threshold.  *)
EXTENDS KojiConnection, TLAPS

(* Who is between taking the lock and releasing it has it.                 *)
LockInv == \A c \in Callers : pc[c] \in Held <=> lock = c

(* The session in use, from login to reply.                                *)
SessionInv ==
    \A c \in Callers :
        /\ pc[c] = "login" => bsys # NoSession
        /\ pc[c] = "call" => /\ using[c] = bsys /\ bsys # NoSession
                             /\ bsys \in loggedIn
        /\ pc[c] # "call" => using[c] = NoSession

(* The cached expiry is never later than that of the ticket in the cache,  *)
(* and a ticket above the threshold lasts as many units as the threshold.  *)
TicketInv ==
    /\ cached <= ticket
    /\ \A c \in Callers :
          pc[c] \in Ready /\ sure[c] = "yes" => ticket >= Threshold - waited[c]

(* The faults of a call are those of the tries before the one it is in; a  *)
(* try has had the requests before the one it is at carried out once more. *)
Ran(c, i) ==
    /\ ran[c][i] <= faults[c] + 1 /\ ran[c][i] <= MaxTries
    /\ pc[c] \notin Ended /\ i >= at[c] => ran[c][i] <= faults[c]
    /\ pc[c] = "returned" \/ i < at[c] => ran[c][i] >= 1

RunOf(c) ==
    /\ pc[c] # "call" => at[c] = 1
    /\ pc[c] \notin Ended => faults[c] = IF pc[c] = "backoff" THEN tries[c]
                                       ELSE tries[c] - 1
    /\ \A i \in 1 .. Requests[c] : Ran(c, i)

RunInv == \A c \in Callers : RunOf(c)

IInv ==
    /\ TypeOK /\ LockInv /\ SessionInv /\ NoSessionLeak /\ TicketInv /\ RunInv

(* At most one thread is between taking the lock and releasing it.         *)
LEMMA OneHolder ==
    ASSUME LockInv, NEW c \in Callers, NEW d \in Callers,
           pc[c] \in Held, pc[d] \in Held
    PROVE  c = d
BY DEF LockInv

LEMMA InitInv == Init => IInv
<1> SUFFICES ASSUME Init PROVE IInv
  OBVIOUS
<1> USE NamesAssumption, LifetimeAssumption, TriesAssumption,
        RequestsAssumption DEF Init, Ended, NotRun
<1>1. TypeOK
  <2>1. RequestsTypeOK
    BY DEF RequestsTypeOK
  <2> QED
    BY <2>1 DEF TypeOK, Phases, Held, Ready, YesNo, Unset
<1>2. LockInv /\ SessionInv /\ NoSessionLeak
  BY DEF LockInv, SessionInv, NoSessionLeak, Held
<1>3. TicketInv
  BY DEF TicketInv, Ready, Unset
<1>4. RunInv
  BY DEF RunInv, RunOf, Ran
<1> QED
  BY <1>1, <1>2, <1>3, <1>4 DEF IInv

(* Where a try is.                                                         *)
LEMMA AtIs ==
    ASSUME TypeOK, NEW c \in Callers
    PROVE  Requests[c] \in Nat \ {0} /\ at[c] \in Nat /\ at[c] \in 1 .. Requests[c]
BY RequestsAssumption DEF TypeOK, RequestsTypeOK

(* What a request that Koji carries out leaves alone.                      *)
LEMMA CarriedOutIs ==
    ASSUME TypeOK, NEW c \in Callers, NEW n \in 0 .. 1, CarriedOut(c, n)
    PROVE  /\ DOMAIN ran' = Callers
           /\ \A d \in Callers \ {c} : ran'[d] = ran[d]
           /\ ran'[c] \in [1 .. Requests[c] -> Nat]
           /\ ran'[c][at[c]] = ran[c][at[c]] + n
           /\ \A i \in 1 .. Requests[c] : i # at[c] => ran'[c][i] = ran[c][i]
<1>1. /\ DOMAIN ran = Callers /\ at[c] \in 1 .. Requests[c]
      /\ ran[c] \in [1 .. Requests[c] -> Nat]
  BY DEF TypeOK, RequestsTypeOK
<1>2. /\ DOMAIN ran' = Callers
      /\ \A d \in Callers \ {c} : ran'[d] = ran[d]
      /\ ran'[c] = [ran[c] EXCEPT ![at[c]] = ran[c][at[c]] + n]
  BY <1>1 DEF CarriedOut
<1> QED
  BY <1>1, <1>2

(* The requests of a call, and what becomes of them.                       *)
LEMMA RequestsStep == ASSUME TypeOK, Next PROVE RequestsTypeOK'
<1> USE RequestsAssumption DEF RequestsTypeOK
<1>0. RequestsTypeOK
  BY DEF TypeOK
<1>1. CASE UNCHANGED reqVars
  BY <1>0, <1>1 DEF reqVars
<1>2. ASSUME NEW c \in Callers, Call(c) PROVE RequestsTypeOK'
  BY <1>0, <1>2 DEF Call, NotRun
<1>3. ASSUME NEW c \in Callers,
             NextRequest(c) \/ Answer(c) \/ Reject(c) \/ WireFault(c)
      PROVE  RequestsTypeOK'
  <2>1. PICK n \in 0 .. 1 : CarriedOut(c, n)
    BY <1>3 DEF NextRequest, Answer, Reject, WireFault, Finish
  <2>2. /\ DOMAIN ran' = Callers
        /\ \A d \in Callers : ran'[d] \in [1 .. Requests[d] -> Nat]
    <3>1. \A d \in Callers : d # c => ran'[d] = ran[d]
      BY <2>1, CarriedOutIs
    <3>2. DOMAIN ran' = Callers /\ ran'[c] \in [1 .. Requests[c] -> Nat]
      BY <2>1, CarriedOutIs
    <3> QED
      BY <1>0, <3>1, <3>2
  <2>3. /\ at' \in [Callers -> Nat]
        /\ \A d \in Callers : at'[d] \in 1 .. Requests[d]
    <3>1. PICK k \in 1 .. Requests[c] : at' = [at EXCEPT ![c] = k]
      <4>1. CASE NextRequest(c)
        <5>1. at[c] + 1 \in 1 .. Requests[c] /\ at' = [at EXCEPT ![c] = at[c] + 1]
          BY <4>1, AtIs DEF NextRequest
        <5> QED
          BY <5>1
      <4>2. CASE Answer(c) \/ Reject(c) \/ WireFault(c)
        <5>1. 1 \in 1 .. Requests[c] /\ at' = [at EXCEPT ![c] = 1]
          BY <4>2, AtIs DEF Answer, Reject, WireFault, Finish
        <5> QED
          BY <5>1
      <4> QED
        BY <1>3, <4>1, <4>2
    <3>2. k \in Nat
      BY <3>1, AtIs
    <3> QED
      BY <1>0, <3>1, <3>2
  <2>4. faults' \in [Callers -> Nat]
    BY <1>0, <1>3 DEF NextRequest, Answer, Reject, WireFault, Finish
  <2> QED
    BY <2>2, <2>3, <2>4
<1>4. UNCHANGED reqVars
      \/ \E c \in Callers : \/ Call(c) \/ NextRequest(c) \/ Answer(c)
                            \/ Reject(c) \/ WireFault(c)
  BY DEF Next, Step, TakesLock, Tick, Kinit, Check, Ensure, Acquire, Recreate,
     Refresh, RenewalFails, Enter, EnterFails, Login, LoginFails, Retry
<1> QED
  BY <1>1, <1>2, <1>3, <1>4

(* Every step keeps the types; who logs in has a session.                  *)
LEMMA TypeStep == ASSUME TypeOK, SessionInv, Next PROVE TypeOK'
<1> USE NamesAssumption, LifetimeAssumption, TriesAssumption
        DEF TypeOK, Phases, Held, Ended, YesNo, Unset
<1>0. RequestsTypeOK'
  BY RequestsStep
<1>1. CASE Tick \/ Kinit
  BY <1>0, <1>1 DEF Tick, Kinit, sessionVars, renewVars, historyVars
<1>2. ASSUME NEW c \in Callers,
             Call(c) \/ Check(c) \/ Ensure(c) \/ Acquire(c) \/ Recreate(c)
             \/ Refresh(c)
      PROVE  TypeOK'
  BY <1>0, <1>2 DEF Call, Check, Ensure, Acquire, Recreate, Refresh, Lifetimes,
              NewSession, Goto, Take, Return, HasTicket, tgtVars, sessionVars,
              renewVars, historyVars
<1>3. ASSUME NEW c \in Callers, RenewalFails(c)
      PROVE  TypeOK'
  BY <1>0, <1>3 DEF RenewalFails, Goto, Return, HasTicket, tgtVars, sessionVars,
              renewVars, historyVars
<1>4. ASSUME NEW c \in Callers, Enter(c) \/ EnterFails(c)
      PROVE  TypeOK'
  BY <1>0, <1>4 DEF Enter, EnterFails, Past, NewSession, Goto, Take, Return, tgtVars,
              sessionVars, renewVars, historyVars
<1>5. ASSUME NEW c \in Callers,
             NextRequest(c) \/ Answer(c) \/ Reject(c) \/ WireFault(c)
      PROVE  TypeOK'
  BY <1>0, <1>5 DEF NextRequest, Answer, Reject, WireFault, Finish, Goto, Return,
     tgtVars, sessionVars, renewVars, historyVars
<1>6. ASSUME NEW c \in Callers, Retry(c)
      PROVE  TypeOK'
  BY <1>0, <1>6 DEF Retry, Goto, Return, tgtVars, sessionVars, renewVars, historyVars
<1>7. ASSUME NEW c \in Callers, Login(c) \/ LoginFails(c)
      PROVE  TypeOK'
  <2>1. loggedIn' \subseteq Sessions
    BY <1>0, <1>7 DEF Login, LoginFails, SessionInv, sessionVars
  <2> QED
    BY <1>0, <1>7, <2>1 DEF Login, LoginFails, Past, Goto, Return, tgtVars, sessionVars,
                      renewVars, historyVars
<1> QED
  BY <1>0, <1>1, <1>2, <1>3, <1>4, <1>5, <1>6, <1>7 DEF Next, Step, TakesLock

(* The lock, the session in use and the open sessions.                     *)
LEMMA SessionStep ==
    ASSUME TypeOK, LockInv, SessionInv, NoSessionLeak, Next
    PROVE  LockInv' /\ SessionInv' /\ NoSessionLeak'
<1> USE NamesAssumption
        DEF TypeOK, LockInv, SessionInv, NoSessionLeak, Held, Phases, Ended
<1>1. CASE Tick \/ Kinit
  BY <1>1 DEF Tick, Kinit, sessionVars
<1>2. ASSUME NEW c \in Callers, Call(c) \/ Check(c) \/ Ensure(c) \/ RenewalFails(c)
      PROVE  LockInv' /\ SessionInv' /\ NoSessionLeak'
  BY <1>2 DEF Call, Check, Ensure, RenewalFails, Goto, Return, HasTicket,
              sessionVars
<1>3. ASSUME NEW c \in Callers, Acquire(c) \/ Refresh(c) \/ Retry(c) \/ EnterFails(c)
      PROVE  LockInv' /\ SessionInv' /\ NoSessionLeak'
  BY <1>3 DEF Acquire, Refresh, Retry, EnterFails, Goto, Take, Return, HasTicket,
              sessionVars
<1>4. ASSUME NEW c \in Callers, Recreate(c) \/ Enter(c)
      PROVE  LockInv' /\ SessionInv' /\ NoSessionLeak'
  BY <1>4 DEF Recreate, Enter, NewSession, Goto, Take, sessionVars
<1>5. ASSUME NEW c \in Callers, Login(c) \/ LoginFails(c)
      PROVE  LockInv' /\ SessionInv' /\ NoSessionLeak'
  BY <1>5 DEF Login, LoginFails, Goto, Return, sessionVars
<1>6. ASSUME NEW c \in Callers,
             NextRequest(c) \/ Answer(c) \/ Reject(c) \/ WireFault(c)
      PROVE  LockInv' /\ SessionInv' /\ NoSessionLeak'
  BY <1>6 DEF NextRequest, Answer, Reject, WireFault, Finish, Goto, Return,
              sessionVars
<1> QED
  BY <1>1, <1>2, <1>3, <1>4, <1>5, <1>6 DEF Next, Step, TakesLock

(* The ticket only gets longer but for the time that passes, which counts  *)
(* for the cached expiry and for those who wait as well.                   *)
LEMMA TicketStep ==
    ASSUME TypeOK, TicketInv, Next
    PROVE  TicketInv'
<1> USE LifetimeAssumption DEF TypeOK, TicketInv, Ready, Phases, YesNo, Unset
<1>1. CASE Tick
  BY <1>1 DEF Tick, sessionVars
<1>2. CASE Kinit
  BY <1>2 DEF Kinit, historyVars
<1>3. ASSUME NEW c \in Callers, Check(c) \/ Ensure(c) \/ Refresh(c)
      PROVE  TicketInv'
  BY <1>3 DEF Check, Ensure, Refresh, Lifetimes, Goto, Return, HasTicket, tgtVars,
              historyVars, Ended
<1>4. ASSUME NEW c \in Callers, RenewalFails(c) \/ Acquire(c) \/ Recreate(c)
      PROVE  TicketInv'
  BY <1>4 DEF RenewalFails, Acquire, Recreate, Goto, Return, HasTicket, tgtVars,
              historyVars, Ended
<1>5. ASSUME NEW c \in Callers,
             Call(c) \/ Enter(c) \/ EnterFails(c) \/ Login(c) \/ LoginFails(c)
             \/ NextRequest(c) \/ Answer(c) \/ Reject(c) \/ WireFault(c)
             \/ Retry(c)
      PROVE  TicketInv'
  BY <1>5 DEF Call, Enter, EnterFails, Login, LoginFails, NextRequest, Answer,
              Reject, WireFault, Retry, Finish, Past, Goto, Return, tgtVars,
              historyVars, Ended
<1> QED
  BY <1>1, <1>2, <1>3, <1>4, <1>5 DEF Next, Step, TakesLock

(* Only a fault makes a call start over, and a try runs a request once.    *)
LEMMA RunStep ==
    ASSUME TypeOK, RunInv, Next
    PROVE  RunInv'
<1>0. /\ \A c \in Callers : RunOf(c)
      /\ RequestsTypeOK
  BY DEF RunInv, TypeOK
<1>1. ASSUME NEW d \in Callers,
             UNCHANGED <<pc[d], tries[d], at[d], ran[d], faults[d]>>
      PROVE  RunOf(d)'
  BY <1>0, <1>1 DEF RunOf, Ran
<1>2. CASE Tick \/ Kinit
  BY <1>1, <1>2 DEF Tick, Kinit, reqVars, RunInv
<1>3. ASSUME NEW c \in Callers, Call(c)
      PROVE  RunInv'
  <2>1. \A d \in Callers : d # c =>
            UNCHANGED <<pc[d], tries[d], at[d], ran[d], faults[d]>>
    BY <1>0, <1>3 DEF Call, Goto, TypeOK, RequestsTypeOK
  <2>2. /\ pc[c] \in Ended /\ pc'[c] = "check" /\ tries'[c] = 1
        /\ at'[c] = at[c] /\ ran'[c] = NotRun(c) /\ faults'[c] = 0
    BY <1>0, <1>3 DEF Call, Goto, TypeOK, RequestsTypeOK
  <2>3. at[c] = 1
    BY <1>0, <2>2 DEF RunOf, Ended
  <2>4. \A i \in 1 .. Requests[c] : Ran(c, i)'
    BY <2>2, <2>3, TriesAssumption DEF Ran, NotRun
  <2>5. RunOf(c)'
    BY <2>2, <2>3, <2>4 DEF RunOf
  <2> QED
    BY <1>1, <2>1, <2>5 DEF RunInv
<1>4. ASSUME NEW c \in Callers,
             \/ Check(c) \/ Ensure(c) \/ RenewalFails(c) \/ Acquire(c)
             \/ Recreate(c) \/ Refresh(c) \/ Enter(c) \/ EnterFails(c)
             \/ Login(c) \/ LoginFails(c) \/ Retry(c)
      PROVE  RunInv'
  <2>1. UNCHANGED reqVars
    BY <1>4 DEF Check, Ensure, RenewalFails, Acquire, Recreate, Refresh, Enter,
       EnterFails, Login, LoginFails, Retry
  <2>2. \A d \in Callers : d # c =>
            UNCHANGED <<pc[d], tries[d], at[d], ran[d], faults[d]>>
    BY <1>4, <2>1 DEF Check, Ensure, RenewalFails, Acquire, Recreate, Refresh,
       Enter, EnterFails, Login, LoginFails, Retry, reqVars, Goto, Return,
       HasTicket, TypeOK
  <2>3. /\ pc[c] \notin Ended /\ pc[c] # "call"
        /\ pc'[c] \notin {"idle", "returned", "backoff"}
        /\ pc'[c] # "raised" => pc'[c] \notin Ended
    BY <1>4 DEF Check, Ensure, RenewalFails, Acquire, Recreate, Refresh, Enter,
       EnterFails, Login, LoginFails, Retry, Goto, Return, HasTicket, TypeOK, Ended
  <2>4. pc'[c] # "raised" =>
            tries'[c] = IF pc[c] = "backoff" THEN tries[c] + 1 ELSE tries[c]
    BY <1>4 DEF Check, Ensure, RenewalFails, Acquire, Recreate, Refresh, Enter,
       EnterFails, Login, LoginFails, Retry, Goto, Return, HasTicket, TypeOK
  <2>5. at'[c] = at[c] /\ ran'[c] = ran[c] /\ faults'[c] = faults[c] /\ at[c] = 1
    BY <1>0, <2>1, <2>3 DEF reqVars, RunOf
  <2>6. faults[c] = IF pc[c] = "backoff" THEN tries[c] ELSE tries[c] - 1
    BY <1>0, <2>3 DEF RunOf
  <2>7. \A i \in 1 .. Requests[c] : Ran(c, i)'
    BY <1>0, <2>3, <2>5 DEF RunOf, Ran
  <2>8. pc'[c] \notin Ended => faults'[c] = tries'[c] - 1
    BY <2>3, <2>4, <2>5, <2>6 DEF Ended, TypeOK
  <2>9. RunOf(c)'
    BY <2>3, <2>5, <2>7, <2>8 DEF RunOf
  <2> QED
    BY <1>1, <2>2, <2>9 DEF RunInv
<1>5. ASSUME NEW c \in Callers,
             NextRequest(c) \/ Answer(c) \/ Reject(c) \/ WireFault(c)
      PROVE  RunInv'
  <2>1. PICK n \in 0 .. 1 :
            /\ CarriedOut(c, n)
            /\ NextRequest(c) \/ Answer(c) => n = 1
    BY <1>5 DEF NextRequest, Answer, Reject, WireFault, Finish
  <2>2. /\ \A d \in Callers : d # c => ran'[d] = ran[d]
        /\ ran'[c][at[c]] = ran[c][at[c]] + n
        /\ \A i \in 1 .. Requests[c] : i # at[c] => ran'[c][i] = ran[c][i]
    BY <2>1, CarriedOutIs
  <2>3. /\ pc[c] = "call" /\ faults[c] = tries[c] - 1
        /\ tries[c] \in 0 .. MaxTries /\ MaxTries \in Nat
        /\ Requests[c] \in Nat \ {0} /\ at[c] \in 1 .. Requests[c]
        /\ faults[c] \in Nat /\ ran[c] \in [1 .. Requests[c] -> Nat]
    BY <1>0, <1>5, TriesAssumption, RequestsAssumption
       DEF NextRequest, Answer, Reject, WireFault, Finish, RunOf, Ended, TypeOK,
           RequestsTypeOK
  <2>4. \A d \in Callers : d # c =>
            UNCHANGED <<pc[d], tries[d], at[d], ran[d], faults[d]>>
    BY <1>0, <1>5, <2>2 DEF NextRequest, Answer, Reject, WireFault, Finish, Goto,
       Return, TypeOK, RequestsTypeOK
  <2>5. \A i \in 1 .. Requests[c] :
            /\ ran[c][i] \in Nat /\ Ran(c, i)
            /\ ran'[c][i] = IF i = at[c] THEN ran[c][i] + n ELSE ran[c][i]
    BY <1>0, <2>2, <2>3 DEF RunOf
  <2>6. ASSUME NextRequest(c) PROVE RunOf(c)'
    <3>1. /\ pc'[c] = "call" /\ tries'[c] = tries[c] /\ faults'[c] = faults[c]
          /\ at'[c] = at[c] + 1 /\ n = 1
      BY <1>0, <2>1, <2>3, <2>6 DEF NextRequest, RequestsTypeOK
    <3>2. ASSUME NEW i \in 1 .. Requests[c] PROVE Ran(c, i)'
      <4>1. /\ ran[c][i] \in Nat /\ Ran(c, i)
            /\ ran'[c][i] = IF i = at[c] THEN ran[c][i] + n ELSE ran[c][i]
        BY <2>5
      <4>2. ran[c][i] <= faults[c] + 1 /\ ran[c][i] <= MaxTries
        BY <4>1 DEF Ran
      <4>3. (i >= at[c] => ran[c][i] <= faults[c]) /\ (i < at[c] => ran[c][i] >= 1)
        BY <2>3, <4>1 DEF Ran, Ended
      <4>4. i \in Nat /\ n \in 0 .. 1
        BY <2>1, <2>3
      <4>5. ran'[c][i] <= faults'[c] + 1 /\ ran'[c][i] <= MaxTries
        BY <2>3, <3>1, <4>1, <4>2, <4>3, <4>4, SMTT(30)
      <4>6. pc'[c] \notin Ended /\ i >= at'[c] => ran'[c][i] <= faults'[c]
        BY <2>3, <3>1, <4>1, <4>2, <4>3, <4>4 DEF Ended
      <4>7. pc'[c] = "returned" \/ i < at'[c] => ran'[c][i] >= 1
        BY <2>3, <3>1, <4>1, <4>2, <4>3, <4>4
      <4> QED
        BY <4>5, <4>6, <4>7 DEF Ran
    <3> QED
      BY <2>3, <3>1, <3>2 DEF RunOf
  <2>7. ASSUME Answer(c) \/ Reject(c) PROVE RunOf(c)'
    <3>1. /\ pc'[c] \in {"returned", "raised"} /\ faults'[c] = faults[c]
          /\ at'[c] = 1
          /\ pc'[c] = "returned" => n = 1 /\ at[c] = Requests[c]
      BY <1>0, <2>1, <2>7 DEF Answer, Reject, Finish, Return, Goto, TypeOK,
         RequestsTypeOK
    <3>2. ASSUME NEW i \in 1 .. Requests[c] PROVE Ran(c, i)'
      <4>1. /\ ran[c][i] \in Nat /\ Ran(c, i)
            /\ ran'[c][i] = IF i = at[c] THEN ran[c][i] + n ELSE ran[c][i]
        BY <2>5
      <4>2. ran[c][i] <= faults[c] + 1 /\ ran[c][i] <= MaxTries
        BY <4>1 DEF Ran
      <4>3. (i >= at[c] => ran[c][i] <= faults[c]) /\ (i < at[c] => ran[c][i] >= 1)
        BY <2>3, <4>1 DEF Ran, Ended
      <4>4. i \in Nat /\ n \in 0 .. 1
        BY <2>1, <2>3
      <4>5. ran'[c][i] <= faults'[c] + 1 /\ ran'[c][i] <= MaxTries
        BY <2>3, <3>1, <4>1, <4>2, <4>3, <4>4, SMTT(30)
      <4>6. pc'[c] \notin Ended /\ i >= at'[c] => ran'[c][i] <= faults'[c]
        BY <2>3, <3>1, <4>1, <4>2, <4>3, <4>4 DEF Ended
      <4>7. pc'[c] = "returned" \/ i < at'[c] => ran'[c][i] >= 1
        BY <2>3, <3>1, <4>1, <4>2, <4>3, <4>4
      <4> QED
        BY <4>5, <4>6, <4>7 DEF Ran
    <3> QED
      BY <2>3, <3>1, <3>2 DEF RunOf, Ended
  <2>8. ASSUME WireFault(c) PROVE RunOf(c)'
    <3>1. /\ pc'[c] = "backoff" /\ tries'[c] = tries[c]
          /\ faults'[c] = faults[c] + 1 /\ at'[c] = 1
      BY <1>0, <2>8 DEF WireFault, Finish, Goto, TypeOK, RequestsTypeOK
    <3>2. ASSUME NEW i \in 1 .. Requests[c] PROVE Ran(c, i)'
      <4>1. /\ ran[c][i] \in Nat /\ Ran(c, i)
            /\ ran'[c][i] = IF i = at[c] THEN ran[c][i] + n ELSE ran[c][i]
        BY <2>5
      <4>2. ran[c][i] <= faults[c] + 1 /\ ran[c][i] <= MaxTries
        BY <4>1 DEF Ran
      <4>3. (i >= at[c] => ran[c][i] <= faults[c]) /\ (i < at[c] => ran[c][i] >= 1)
        BY <2>3, <4>1 DEF Ran, Ended
      <4>4. i \in Nat /\ n \in 0 .. 1
        BY <2>1, <2>3
      <4>5. ran'[c][i] <= faults[c] + 1
        BY <2>3, <4>1, <4>2, <4>3, <4>4
      <4>6. /\ ran'[c][i] <= faults'[c] + 1 /\ ran'[c][i] <= MaxTries
            /\ ran'[c][i] <= faults'[c]
        BY <2>3, <3>1, <4>1, <4>4, <4>5, SMTT(30)
      <4>7. pc'[c] = "returned" \/ i < at'[c] => ran'[c][i] >= 1
        BY <2>3, <3>1, <4>1, <4>2, <4>3, <4>4
      <4> QED
        BY <4>6, <4>7 DEF Ran
    <3> QED
      BY <2>3, <3>1, <3>2 DEF RunOf
  <2> QED
    BY <1>1, <1>5, <2>4, <2>6, <2>7, <2>8 DEF RunInv
<1> QED
  BY <1>2, <1>3, <1>4, <1>5 DEF Next, Step, TakesLock

LEMMA StepInv == IInv /\ [Next]_vars => IInv'
<1>1. ASSUME IInv, Next PROVE IInv'
  BY <1>1, TypeStep, SessionStep, TicketStep, RunStep DEF IInv
<1>2. ASSUME IInv, UNCHANGED vars PROVE IInv'
  BY <1>2 DEF IInv, TypeOK, LockInv, SessionInv, NoSessionLeak, TicketInv,
              RunInv, RunOf, Ran, RequestsTypeOK, vars, tgtVars, sessionVars,
              renewVars, historyVars, reqVars
<1> QED
  BY <1>1, <1>2

THEOREM Invariance == Spec => []IInv
BY InitInv, StepInv, PTL DEF Spec

(* Every reachable state has its type, whatever the constants.             *)
THEOREM TypeCorrect == Spec => []TypeOK
BY Invariance, PTL DEF IInv

(* No thread closes the session another one is using.                      *)
THEOREM SessionSafety == Spec => []RequestKeepsItsSession
<1>1. IInv => RequestKeepsItsSession
  BY NamesAssumption
     DEF IInv, TypeOK, LockInv, SessionInv, RequestKeepsItsSession,
         NoSessionLeak, Held
<1> QED
  BY <1>1, Invariance, PTL

(* Renewals that fail or race leave no session open but the current one.   *)
THEOREM NothingLeaks == Spec => []NoSessionLeak
BY Invariance, PTL DEF IInv

(* A ticket found or made above the threshold is alive at login.           *)
THEOREM TicketSafety == Spec => []TicketOutlivesTheWait
<1>1. IInv => TicketOutlivesTheWait
  BY LifetimeAssumption DEF IInv, TypeOK, TicketInv, TicketOutlivesTheWait
<1> QED
  BY <1>1, Invariance, PTL

(* Koji carries out a request more than once only for faults on the wire,  *)
(* and none of a call that returns less than once.                         *)
THEOREM RepeatSafety == Spec => []RepeatsAreFaults
<1>1. IInv => RepeatsAreFaults
  BY DEF IInv, RunInv, RunOf, Ran, RepeatsAreFaults
<1> QED
  BY <1>1, Invariance, PTL

-----------------------------------------------------------------------------
(* The threads and their sessions as one service.                          *)

(* Who is at work with Koji, and that nobody is while the lock is free or   *)
(* held for something else.                                                *)
LEMMA WireIs ==
    ASSUME IInv
    PROVE  /\ \A c \in Callers : pc[c] = "call" <=> OnWire = c
           /\ \A c \in Callers : lock = c /\ pc[c] # "call" => OnWire = Free
           /\ lock = Free => OnWire = Free
BY NamesAssumption DEF IInv, TypeOK, LockInv, Held, OnWire

(* The step of a thread that is not at work with Koji before or after it.   *)
LEMMA QuietStep ==
    ASSUME IInv, IInv', NEW c \in Callers, NEW p,
           pc[c] # "call", p # "call", pc' = [pc EXCEPT ![c] = p]
    PROVE  /\ OnWire = OnWire' \/ lock # lock'
           /\ lock = Free \/ lock = c => OnWire = Free
           /\ lock' = Free \/ lock' = c => OnWire' = Free
<1>1. pc'[c] # "call"
  BY DEF IInv, TypeOK
<1>2. (\E d \in Callers : pc[d] = "call") <=> (\E d \in Callers : pc'[d] = "call")
  BY <1>1 DEF IInv, TypeOK
<1>3. OnWire = OnWire' \/ lock # lock'
  BY <1>2 DEF OnWire
<1>4. lock = Free \/ lock = c => OnWire = Free
  BY WireIs
<1>5. lock' = Free \/ lock' = c => OnWire' = Free
  <2>1. LockInv'
    BY DEF IInv
  <2> QED
    BY <1>1, <2>1, NamesAssumption DEF LockInv, OnWire, Held
<1> QED
  BY <1>3, <1>4, <1>5

LEMMA CallsStep ==
    ASSUME IInv, NEW c \in Callers, NEW p \in Phases,
           pc' = [pc EXCEPT ![c] = p]
    PROVE  CallState' = [CallState EXCEPT ![c] = IF p \in Ended THEN p ELSE "open"]
BY DEF IInv, TypeOK, CallState

(* A step that leaves sessions and requests as they are is one in which a   *)
(* call starts, is given up, or nothing that the coroutines see.           *)
LEMMA QuietRefines ==
    ASSUME IInv, IInv', NEW c \in Callers, NEW p \in Phases \ {"call", "idle", "returned"},
           pc[c] # "call", pc' = [pc EXCEPT ![c] = p],
           UNCHANGED <<bsys, loggedIn, at, ran, faults>>,
           lock' \in {lock, Free, c}, lock = Free \/ lock = c \/ lock' = lock,
           pc[c] \notin Ended
    PROVE  [Service!Next]_(Service!vars)
<1>1. OnWire' = OnWire
  BY QuietStep
<1>2. SessionState' = SessionState
  BY DEF SessionState
<1>3. CallState' = [CallState EXCEPT ![c] = IF p \in Ended THEN p ELSE "open"]
  BY CallsStep
<1>4. CallState[c] = "open" /\ OnWire # c
  BY WireIs DEF CallState
<1>5. CASE p = "raised"
  <2>1. CallState' = [CallState EXCEPT ![c] = "raised"]
    BY <1>3, <1>5 DEF Ended
  <2>2. Service!GiveUp(c)
    BY <1>1, <1>2, <1>4, <2>1 DEF Service!GiveUp
  <2> QED
    BY <2>2 DEF Service!Next
<1>6. CASE p \notin Ended
  <2>1. CallState' = CallState
    BY <1>3, <1>4, <1>6 DEF CallState
  <2> QED
    BY <1>1, <1>2, <2>1 DEF Service!vars
<1> QED
  BY <1>5, <1>6 DEF Ended

(* The steps of a call that has nothing under way.                         *)
LEMMA CallRefines ==
    ASSUME IInv, IInv', NEW c \in Callers,
           \/ Check(c) \/ Ensure(c) \/ Acquire(c) \/ Refresh(c)
           \/ RenewalFails(c) \/ EnterFails(c) \/ LoginFails(c) \/ Retry(c)
    PROVE  [Service!Next]_(Service!vars)
<1>1. LockInv
  BY DEF IInv
<1>2. /\ pc[c] # "call" /\ pc[c] \notin Ended
      /\ UNCHANGED <<bsys, loggedIn, at, ran, faults>>
      /\ lock' \in {lock, Free, c}
      /\ lock = Free \/ lock = c \/ lock' = lock
  BY <1>1 DEF Check, Ensure, Acquire, Refresh, RenewalFails, EnterFails,
     LoginFails, Retry, Take, LockInv, Held, Ended, sessionVars, reqVars
<1>3. \E p \in {"ensure", "renew", "invoke", "recreate", "check", "raised"} :
          pc' = [pc EXCEPT ![c] = p]
  BY DEF Check, Ensure, Acquire, Refresh, RenewalFails, EnterFails, LoginFails,
     Retry, Goto, Return, HasTicket
<1> QED
  BY <1>2, <1>3, QuietRefines DEF Phases, Held, Ended

(* A session is replaced by who has the lock, hence with nothing under way.*)
LEMMA ReplaceRefines ==
    ASSUME IInv, IInv', NEW c \in Callers, Recreate(c) \/ Enter(c)
    PROVE  [Service!Next]_(Service!vars)
<1>1. PICK p \in {"refresh", "login"} : pc' = [pc EXCEPT ![c] = p]
  BY DEF Recreate, Enter, Goto
<1>2. /\ pc[c] # "call" /\ pc[c] \notin Ended
      /\ lock = Free \/ lock = c
      /\ lock' = c /\ UNCHANGED <<at, ran, faults>>
  <2>1. Recreate(c) => lock = c
    BY DEF Recreate, IInv, LockInv, Held
  <2> QED
    BY <2>1 DEF Recreate, Enter, Take, Ended, reqVars
<1>3. OnWire = Free /\ OnWire' = Free
  BY <1>1, <1>2, QuietStep
<1>4. CallState' = CallState
  <2>1. CallState' = [CallState EXCEPT ![c] = "open"]
    BY <1>1, CallsStep DEF Phases, Held, Ended
  <2> QED
    BY <1>2, <2>1 DEF CallState
<1>5. CASE NewSession
  <2>1. SessionState' = "open"
    BY <1>5, NamesAssumption DEF NewSession, SessionState, IInv, TypeOK
  <2>2. Service!Replace
    BY <1>2, <1>3, <1>4, <2>1 DEF Service!Replace
  <2> QED
    BY <2>2 DEF Service!Next
<1>6. CASE UNCHANGED sessionVars
  BY <1>2, <1>3, <1>4, <1>6 DEF Service!vars, SessionState, sessionVars
<1> QED
  BY <1>5, <1>6 DEF Recreate, Enter

(* The requests of a call go out and come back.                            *)
LEMMA RequestRefines ==
    ASSUME IInv, IInv', NEW c \in Callers,
           Login(c) \/ NextRequest(c) \/ Answer(c) \/ Reject(c) \/ WireFault(c)
    PROVE  Service!Next
<1>1. CASE Login(c)
  <2>1. /\ pc[c] = "login" /\ lock = c /\ bsys # NoSession
        /\ at[c] = 1
    BY <1>1 DEF Login, IInv, LockInv, Held, SessionInv, RunInv, RunOf
  <2>2. OnWire = Free /\ OnWire' = c
    <3>1. pc'[c] = "call"
      BY <1>1 DEF Login, Goto, IInv, TypeOK
    <3> QED
      BY <1>1, <2>1, <3>1, WireIs DEF OnWire, Login
  <2>3. CallState[c] = "open" /\ CallState' = CallState
    <3>1. CallState' = [CallState EXCEPT ![c] = "open"]
      <4>1. PICK p \in {"call"} : pc' = [pc EXCEPT ![c] = p]
        BY <1>1 DEF Login, Goto
      <4> QED
        BY <4>1, CallsStep DEF Phases, Held, Ended
    <3>2. CallState[c] = "open"
      BY <2>1 DEF CallState, Ended
    <3> QED
      BY <3>1, <3>2 DEF CallState
  <2>4. SessionState # "none" /\ SessionState' = "logged in"
    BY <1>1, <2>1 DEF Login, SessionState
  <2>5. Service!Send(c)
    BY <1>1, <2>1, <2>2, <2>3, <2>4 DEF Service!Send, Login, reqVars
  <2> QED
    BY <2>5 DEF Service!Next
<1>2. CASE NextRequest(c)
  <2>1. OnWire = c /\ OnWire' = OnWire
    <3>1. OnWire = c
      BY <1>2, WireIs DEF NextRequest
    <3>2. OnWire' = OnWire
      BY <1>2 DEF NextRequest, OnWire
    <3> QED
      BY <3>1, <3>2
  <2>2. UNCHANGED <<SessionState, CallState>>
    BY <1>2 DEF NextRequest, SessionState, CallState, sessionVars
  <2>3. Service!Continue(c)
    BY <1>2, <2>1, <2>2
       DEF NextRequest, Service!Continue, CarriedOut, Service!CarriedOut
  <2> QED
    BY <2>3 DEF Service!Next
<1>3. CASE Answer(c) \/ Reject(c) \/ WireFault(c)
  <2>1. /\ pc[c] = "call" /\ lock' = Free
        /\ UNCHANGED <<bsys, loggedIn>>
    BY <1>3 DEF Answer, Reject, WireFault, Finish, sessionVars
  <2>2. OnWire = c /\ OnWire' = Free
    <3>1. OnWire = c
      BY <2>1, WireIs
    <3>2. OnWire' = Free
      BY <2>1 DEF OnWire
    <3> QED
      BY <3>1, <3>2
  <2>3. SessionState' = SessionState
    BY <2>1 DEF SessionState
  <2>4. ASSUME NEW n, Finish(c, n) PROVE Service!Leave(c, n)
    BY <2>2, <2>3, <2>4
       DEF Finish, Service!Leave, CarriedOut, Service!CarriedOut
  <2>5. CASE Answer(c)
    <3>1. CallState' = [CallState EXCEPT ![c] = "returned"]
      <4>1. PICK p \in {"returned"} : pc' = [pc EXCEPT ![c] = p]
        BY <2>5 DEF Answer, Return, Goto
      <4> QED
        BY <4>1, CallsStep DEF Phases, Ended
    <3>2. Service!Complete(c)
      BY <2>4, <2>5, <3>1 DEF Service!Complete, Answer
    <3> QED
      BY <3>2 DEF Service!Next
  <2>6. CASE Reject(c)
    <3>1. CallState' = [CallState EXCEPT ![c] = "raised"]
      <4>1. PICK p \in {"raised"} : pc' = [pc EXCEPT ![c] = p]
        BY <2>6 DEF Reject, Return, Goto
      <4> QED
        BY <4>1, CallsStep DEF Phases, Ended
    <3>2. Service!Refuse(c)
      BY <2>4, <2>6, <3>1 DEF Service!Refuse, Reject
    <3> QED
      BY <3>2 DEF Service!Next
  <2>7. CASE WireFault(c)
    <3>1. CallState' = [CallState EXCEPT ![c] = "open"]
      <4>1. PICK p \in {"backoff"} : pc' = [pc EXCEPT ![c] = p]
        BY <2>7 DEF WireFault, Goto
      <4> QED
        BY <4>1, CallsStep DEF Phases, Held, Ended
    <3>2. CallState' = CallState
      BY <2>1, <3>1 DEF CallState, Ended
    <3>3. Service!Lose(c)
      BY <2>4, <2>7, <3>2 DEF Service!Lose, WireFault
    <3> QED
      BY <3>3 DEF Service!Next
  <2> QED
    BY <1>3, <2>5, <2>6, <2>7
<1> QED
  BY <1>1, <1>2, <1>3

LEMMA StepRefines == IInv /\ IInv' /\ [Next]_vars => [Service!Next]_(Service!vars)
<1> SUFFICES ASSUME IInv, IInv', [Next]_vars PROVE [Service!Next]_(Service!vars)
  OBVIOUS
<1>1. CASE Tick \/ Kinit \/ UNCHANGED vars
  BY <1>1 DEF Tick, Kinit, vars, sessionVars, reqVars, OnWire, SessionState,
     CallState, Service!vars
<1>2. ASSUME NEW c \in Callers, Call(c) PROVE Service!Next
  <2>1. /\ pc[c] \in Ended /\ pc' = [pc EXCEPT ![c] = "check"]
        /\ UNCHANGED <<bsys, loggedIn, lock>>
    BY <1>2 DEF Call, Goto, sessionVars
  <2>2. OnWire' = OnWire
    BY <2>1, QuietStep DEF Ended
  <2>3. CallState[c] \in Ended /\ CallState' = [CallState EXCEPT ![c] = "open"]
    <3>1. CallState[c] \in Ended
      BY <2>1 DEF CallState
    <3>2. CallState' = [CallState EXCEPT ![c] = "open"]
      <4>1. PICK p \in {"check"} : pc' = [pc EXCEPT ![c] = p]
        BY <2>1
      <4> QED
        BY <4>1, CallsStep DEF Phases, Held, Ended
    <3> QED
      BY <3>1, <3>2
  <2>4. Service!Begin(c)
    BY <1>2, <2>1, <2>2, <2>3
       DEF Service!Begin, Service!Over, Service!NotRun, NotRun, Ended, Call,
           SessionState
  <2> QED
    BY <2>4 DEF Service!Next
<1>3. ASSUME NEW c \in Callers, Step(c) PROVE [Service!Next]_(Service!vars)
  BY <1>3, CallRefines, ReplaceRefines, RequestRefines DEF Step, TakesLock
<1> QED
  BY <1>1, <1>2, <1>3 DEF Next

(* For any number of threads and sessions, and whatever fails, Koji is one *)
(* service to those who call it.                                           *)
THEOREM ServiceRefines == Spec => ImplementsService
<1>1. Init => Service!Init
  BY DEF Init, Service!Init, Service!NotRun, NotRun, SessionState, OnWire,
     CallState, Ended
<1> QED
  BY <1>1, StepRefines, Invariance, PTL
     DEF Spec, ImplementsService, Service!Spec

-----------------------------------------------------------------------------
(* A call is finite, however often its request and its renewals fail.      *)

(* Bounds the steps that a call can still take in the try it is in, ...    *)
TryLeft(c) ==
    LET renewals == MaxRenewals - failures[c] IN
    CASE pc[c] = "check"    -> 2 * MaxRenewals + Requests[c] + 8
      [] pc[c] = "ensure"   -> 2 * MaxRenewals + Requests[c] + 7
      [] pc[c] = "renew"    -> 2 * renewals + Requests[c] + 6
      [] pc[c] = "recreate" -> 2 * renewals + Requests[c] + 5
      [] pc[c] = "refresh"  -> Requests[c] + 4
      [] pc[c] = "invoke"   -> Requests[c] + 3
      [] pc[c] = "login"    -> Requests[c] + 2
      [] pc[c] = "call"     -> Requests[c] + 2 - at[c]
      [] pc[c] = "backoff"  -> 1
      [] OTHER              -> 0

(* ... and altogether.                                                     *)
TrySteps(c) == 2 * MaxRenewals + Requests[c] + 9
CallLeft(c) == IF pc[c] \in Ended THEN 0
               ELSE (MaxTries - tries[c]) * TrySteps(c) + TryLeft(c)

LEMMA Products ==
    ASSUME NEW a \in Nat, NEW w \in Nat
    PROVE  a * w \in Nat /\ (a > 0 => (a - 1) * w = a * w - w)
OBVIOUS

LEMMA TryLeftNat ==
    ASSUME TypeOK, NEW c \in Callers
    PROVE  /\ TryLeft(c) \in Nat
           /\ pc[c] \notin Ended => TryLeft(c) > 0
BY TriesAssumption, AtIs DEF TypeOK, TryLeft, Phases, Held, Ended

LEMMA CallLeftNat ==
    ASSUME TypeOK, NEW c \in Callers
    PROVE  /\ CallLeft(c) \in Nat
           /\ pc[c] \notin Ended => CallLeft(c) > 0
<1>1. MaxTries - tries[c] \in Nat /\ TrySteps(c) \in Nat
  BY TriesAssumption, RequestsAssumption DEF TypeOK, TrySteps
<1>2. (MaxTries - tries[c]) * TrySteps(c) \in Nat
  BY <1>1, Products
<1> QED
  BY <1>2, TryLeftNat DEF CallLeft

(* Within a try the steps go down; the next try has no more than TrySteps. *)
LEMMA CallShrinks ==
    ASSUME TypeOK, TypeOK', NEW c \in Callers, Step(c)
    PROVE  CallLeft(c)' < CallLeft(c)
<1>1. /\ CallLeft(c) \in Nat /\ TryLeft(c) \in Nat
      /\ pc[c] \notin Ended => CallLeft(c) > 0
  BY CallLeftNat, TryLeftNat
<1>2. pc[c] \notin Ended
  BY DEF Step, TakesLock, Check, Ensure, Acquire, Recreate, Refresh,
     RenewalFails, Enter, EnterFails, Login, LoginFails, NextRequest,
     Answer, Reject, WireFault, Finish, Retry, Ended
<1>3. CASE pc'[c] \in Ended
  BY <1>1, <1>2, <1>3 DEF CallLeft
<1>4. CASE pc'[c] \notin Ended /\ ~Retry(c)
  <2>1. tries' = tries
    BY <1>4 DEF Step, TakesLock, Check, Ensure, Acquire, Recreate, Refresh,
       RenewalFails, Enter, EnterFails, Login, LoginFails, NextRequest,
       Answer, Reject, WireFault, Return, Goto, Ended, TypeOK
  <2>2. TryLeft(c)' < TryLeft(c)
    <3>0. Requests[c] \in Nat /\ at[c] \in 1 .. Requests[c]
      BY AtIs
    <3> USE TriesAssumption DEF TypeOK, TryLeft
    <3>1. CASE Check(c) \/ Ensure(c)
      BY <3>0, <1>4, <3>1 DEF Check, Ensure, Goto, HasTicket, Return, Ended
    <3>2. CASE Acquire(c) \/ Recreate(c) \/ Refresh(c)
      BY <3>0, <3>2 DEF Acquire, Recreate, Refresh, Goto, HasTicket, renewVars
    <3>3. CASE RenewalFails(c)
      BY <3>0, <1>4, <3>3 DEF RenewalFails, Goto, HasTicket, Return, Ended
    <3>4. CASE Enter(c) \/ EnterFails(c)
      BY <3>0, <1>4, <3>4 DEF Enter, EnterFails, Goto, Return, Ended
    <3>6. CASE Login(c)
      BY <3>0, <3>6 DEF Login, Goto, reqVars
    <3>7. CASE LoginFails(c)
      BY <1>4, <3>7 DEF LoginFails, Goto, Return, Ended
    <3>5. CASE NextRequest(c)
      <4>1. /\ pc[c] = "call" /\ pc'[c] = pc[c]
            /\ at'[c] = at[c] + 1 /\ at[c] \in Nat
        BY <3>5, AtIs DEF NextRequest, RequestsTypeOK
      <4> QED
        BY <3>0, <4>1
    <3>8. CASE Answer(c) \/ Reject(c) \/ WireFault(c)
      BY <3>0, <1>4, <3>8 DEF Answer, Reject, WireFault, Finish, Goto, Return, Ended
    <3> QED
      BY <1>4, <3>1, <3>2, <3>3, <3>4, <3>5, <3>6, <3>7, <3>8
         DEF Step, TakesLock
  <2> DEFINE p == (MaxTries - tries[c]) * TrySteps(c)
  <2>3. p \in Nat /\ p' = p
    <3>1. MaxTries - tries[c] \in Nat /\ TrySteps(c) \in Nat
      BY AtIs, TriesAssumption DEF TypeOK, TrySteps
    <3>2. p \in Nat
      BY <3>1, Products
    <3>3. p' = p
      BY <2>1 DEF TrySteps
    <3> QED
      BY <3>2, <3>3
  <2>4. CallLeft(c) = p + TryLeft(c) /\ CallLeft(c)' = p' + TryLeft(c)'
    BY <1>2, <1>4 DEF CallLeft
  <2>5. TryLeft(c)' \in Nat
    <3>1. Requests[c] \in Nat /\ at'[c] \in Nat /\ at'[c] \in 1 .. Requests[c]
      BY RequestsAssumption DEF TypeOK, RequestsTypeOK
    <3>2. failures'[c] \in 0 .. MaxRenewals /\ MaxRenewals \in Nat
      BY TriesAssumption DEF TypeOK
    <3> QED
      BY <3>1, <3>2 DEF TryLeft
  <2> HIDE DEF p
  <2> QED
    BY <1>1, <2>2, <2>3, <2>4, <2>5
<1>5. CASE pc'[c] \notin Ended /\ Retry(c)
  <2>1. /\ pc[c] = "backoff" /\ pc'[c] = "check"
        /\ tries[c] < MaxTries /\ tries'[c] = tries[c] + 1
    BY <1>5 DEF Retry, Goto, Return, TypeOK, Ended
  <2> DEFINE a == MaxTries - tries[c]
  <2>2. a \in Nat /\ a > 0 /\ MaxTries - tries'[c] = a - 1 /\ TrySteps(c) \in Nat
    BY <2>1, TriesAssumption, RequestsAssumption DEF TypeOK, TrySteps
  <2>3. /\ CallLeft(c) = a * TrySteps(c) + 1
        /\ CallLeft(c)' =
              (a - 1) * TrySteps(c) + (2 * MaxRenewals + Requests[c] + 8)
    BY <2>1, <2>2 DEF CallLeft, TryLeft, Ended, TrySteps
  <2> HIDE DEF a
  <2> DEFINE b == a * TrySteps(c)
  <2>4. b \in Nat /\ (a - 1) * TrySteps(c) = b - TrySteps(c)
    BY <2>2, Products
  <2> HIDE DEF b
  <2>5. /\ CallLeft(c) = b + 1
        /\ CallLeft(c)' = b - TrySteps(c) + (2 * MaxRenewals + Requests[c] + 8)
    BY <2>3, <2>4 DEF b
  <2> QED
    BY <2>4, <2>5, TriesAssumption, RequestsAssumption DEF TrySteps
<1> QED
  BY <1>3, <1>4, <1>5

(* A step of one call costs the others nothing, time does neither.         *)
LEMMA OthersShrinkNot ==
    ASSUME TypeOK, NEW c \in Callers,
           \/ Tick \/ Kinit
           \/ \E d \in Callers \ {c} : Call(d) \/ Step(d)
    PROVE  CallLeft(c)' = CallLeft(c)
<1>1. UNCHANGED <<pc[c], tries[c], failures[c]>>
  BY DEF Tick, Kinit, Call, Step, TakesLock, Check, Ensure, Acquire, Recreate,
     Refresh, RenewalFails, Enter, EnterFails, Login, LoginFails, NextRequest,
     Answer, Reject, WireFault, Finish, Retry, Goto, Return, HasTicket, renewVars,
     TypeOK
<1>2. UNCHANGED at[c]
  <2>1. at' = at \/ \E d \in Callers \ {c} : \E k : at' = [at EXCEPT ![d] = k]
    BY DEF Tick, Kinit, Call, Step, TakesLock, Check, Ensure, Acquire, Recreate,
       Refresh, RenewalFails, Enter, EnterFails, Login, LoginFails, NextRequest,
       Answer, Reject, WireFault, Finish, Retry, reqVars
  <2> QED
    BY <2>1 DEF TypeOK, RequestsTypeOK
<1> QED
  BY <1>1, <1>2 DEF CallLeft, TryLeft, TrySteps

(* Whatever tickets, sessions and requests do, and whoever else calls, the *)
(* steps that a call can take are bounded: with the fairness of the lock,  *)
(* that is what EveryCallEnds takes.                                       *)
THEOREM CallIsFinite ==
    Spec => /\ [](\A c \in Callers : CallLeft(c) \in Nat)
            /\ [][\A c \in Callers :
                     /\ Step(c) => CallLeft(c)' < CallLeft(c)
                     /\ ~Step(c) /\ ~Call(c) => CallLeft(c)' = CallLeft(c)]_vars
<1>1. IInv => \A c \in Callers : CallLeft(c) \in Nat
  BY CallLeftNat DEF IInv
<1>2. IInv /\ IInv' /\ Next
      => \A c \in Callers :
            /\ Step(c) => CallLeft(c)' < CallLeft(c)
            /\ ~Step(c) /\ ~Call(c) => CallLeft(c)' = CallLeft(c)
  BY CallShrinks, OthersShrinkNot DEF IInv, Next
<1> QED
  BY <1>1, <1>2, Invariance, PTL DEF Spec

(* The lock is held only by a thread that goes on without it being free:   *)
(* no two threads, and no thread and a renewal, wait for each other.       *)
THEOREM LockIsRunning ==
    Spec => [](lock # Free => /\ lock \in Callers /\ pc[lock] \in Held
                              /\ \A c \in Callers \ {lock} : pc[c] \notin Held)
<1>1. IInv => (lock # Free => /\ lock \in Callers /\ pc[lock] \in Held
                              /\ \A c \in Callers \ {lock} : pc[c] \notin Held)
  BY DEF IInv, TypeOK, LockInv
<1> QED
  BY <1>1, Invariance, PTL
=============================================================================
