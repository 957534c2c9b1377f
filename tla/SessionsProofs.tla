-------------------------- MODULE SessionsProofs --------------------------
(* Proofs about logins and the requests they admit, for any number of      *)
(* browsers, callbacks and requests at once and any number of restarts.    *)
EXTENDS Sessions, TLAPS

(* A token is in the store, or one callback has taken it, or its session   *)
(* was made: never two of these, and never two callbacks.                  *)
LoginInv ==
    /\ \A f \in Flows : state[f] # "none" =>
          made[f] = 0 /\ \A h \in Handlers : flow[h] # f
    /\ \A h \in Handlers :
          /\ hpc[h] \in Busy => flow[h] \in Flows /\ made[flow[h]] = 0
          /\ hpc[h] = "idle" => flow[h] = NoFlow
    /\ \A g, h \in Handlers : flow[g] = flow[h] /\ flow[g] # NoFlow => g = h

(* A session that is live was live when the request that names it came.    *)
RequestInv ==
    \A r \in Requests : rpc[r] = "check" =>
        /\ cred[r] \in Sessions /\ row[cred[r]] # "unused"
        /\ row[cred[r]] = "live" => dead[r] = "no"

IInv ==
    /\ TypeOK /\ LoginInv /\ OneSessionPerLogin
    /\ RequestInv /\ AdmittedByALiveSession

LEMMA InitInv == Init => IInv
BY BoundAssumption, NoneAssumption
   DEF Init, IInv, TypeOK, LoginInv, OneSessionPerLogin, RequestInv,
       AdmittedByALiveSession, Granted, Busy, Open, YesNo

LEMMA TypeStep == ASSUME TypeOK, LoginInv, RequestInv, Next PROVE TypeOK'
<1> USE BoundAssumption DEF TypeOK, Granted, Busy, Open, YesNo
<1>1. ASSUME NEW f \in Flows, Login(f) \/ Age(f)
      PROVE  TypeOK'
  BY <1>1 DEF Login, Age, StoreWith, rowVars, requestVars, jobVars
<1>2. ASSUME NEW f \in Flows, NEW h \in Handlers, Callback(h, f)
      PROVE  TypeOK'
  BY <1>2 DEF Callback, rowVars, requestVars, jobVars
<1>3. ASSUME NEW h \in Handlers, ExchangeCode(h) \/ GetUserInfo(h) \/ CallbackFails(h)
      PROVE  TypeOK'
  BY <1>3 DEF ExchangeCode, GetUserInfo, CallbackFails, HandlerEnds, rowVars,
              requestVars, jobVars
<1>4. ASSUME NEW h \in Handlers, NEW s \in Sessions, CreateSession(h, s)
      PROVE  TypeOK'
  BY <1>4 DEF CreateSession, HandlerEnds, LoginInv, requestVars, jobVars
<1>5. ASSUME NEW s \in Sessions, Expire(s) \/ Logout(s)
      PROVE  TypeOK'
  BY <1>5 DEF Expire, Logout, loginVars, requestVars, jobVars
<1>6. ASSUME NEW r \in Requests, NEW s \in Sessions, Arrive(r, s)
      PROVE  TypeOK'
  BY <1>6 DEF Arrive, loginVars, rowVars, jobVars
<1>7. ASSUME NEW r \in Requests, Validate(r)
      PROVE  TypeOK'
  BY <1>7 DEF Validate, RequireUser, Refuse, RequestInv, loginVars, jobVars
<1>8. ASSUME NEW r \in Requests, TriggerPost(r) \/ ControlPost(r)
      PROVE  TypeOK'
  BY <1>8 DEF TriggerPost, ControlPost, Refuse, RunInBackground, loginVars,
              rowVars, jobVars
<1>9. ASSUME NEW r \in Requests, JobStep(r) \/ JobEnds(r)
      PROVE  TypeOK'
  BY <1>9 DEF JobStep, JobEnds, loginVars, rowVars, requestVars
<1>10. CASE Cleanup
  BY <1>10 DEF Cleanup, loginVars, requestVars, jobVars
<1>11. CASE Crash
  BY <1>11 DEF Crash, rowVars
<1> QED
  BY <1>1, <1>2, <1>3, <1>4, <1>5, <1>6, <1>7, <1>8, <1>9, <1>10, <1>11
     DEF Next, HandlerStep, RequestStep, JobProgress

(* The steps that touch a login.                                           *)
LEMMA LoginStep ==
    ASSUME TypeOK, LoginInv, OneSessionPerLogin, Next
    PROVE  LoginInv' /\ OneSessionPerLogin'
<1> USE NoneAssumption DEF TypeOK, LoginInv, OneSessionPerLogin, Busy
<1>1. CASE UNCHANGED loginVars
  BY <1>1 DEF loginVars
<1>2. ASSUME NEW f \in Flows, Login(f) \/ Age(f)
      PROVE  LoginInv' /\ OneSessionPerLogin'
  BY <1>2 DEF Login, Age, StoreWith, InUse
<1>3. ASSUME NEW f \in Flows, NEW h \in Handlers, Callback(h, f)
      PROVE  LoginInv' /\ OneSessionPerLogin'
  BY <1>3 DEF Callback
<1>4. ASSUME NEW h \in Handlers, ExchangeCode(h) \/ GetUserInfo(h) \/ CallbackFails(h)
      PROVE  LoginInv' /\ OneSessionPerLogin'
  BY <1>4 DEF ExchangeCode, GetUserInfo, CallbackFails, HandlerEnds
<1>5. ASSUME NEW h \in Handlers, NEW s \in Sessions, CreateSession(h, s)
      PROVE  LoginInv' /\ OneSessionPerLogin'
  BY <1>5 DEF CreateSession, HandlerEnds
<1>6. CASE Crash
  BY <1>6 DEF Crash
<1> QED
  BY <1>1, <1>2, <1>3, <1>4, <1>5, <1>6
     DEF Next, HandlerStep, RequestStep, JobProgress, Expire, Logout, Arrive,
         Validate, TriggerPost, ControlPost, JobStep, JobEnds, Cleanup

(* The steps that touch a request, or the session it names.                *)
LEMMA RequestStepInv ==
    ASSUME TypeOK, RequestInv, AdmittedByALiveSession, Next
    PROVE  RequestInv' /\ AdmittedByALiveSession'
<1> USE NoneAssumption DEF TypeOK, RequestInv, AdmittedByALiveSession, Granted, YesNo
<1>1. CASE UNCHANGED <<rowVars, requestVars>>
  BY <1>1 DEF rowVars, requestVars
<1>2. ASSUME NEW h \in Handlers, NEW s \in Sessions, CreateSession(h, s)
      PROVE  RequestInv' /\ AdmittedByALiveSession'
  BY <1>2 DEF CreateSession, requestVars
<1>3. ASSUME NEW s \in Sessions, Expire(s) \/ Logout(s)
      PROVE  RequestInv' /\ AdmittedByALiveSession'
  BY <1>3 DEF Expire, Logout, requestVars
<1>4. ASSUME NEW r \in Requests, NEW s \in Sessions, Arrive(r, s)
      PROVE  RequestInv' /\ AdmittedByALiveSession'
  BY <1>4 DEF Arrive, rowVars
<1>5. ASSUME NEW r \in Requests, Validate(r)
      PROVE  RequestInv' /\ AdmittedByALiveSession'
  BY <1>5 DEF Validate, RequireUser, Refuse, IsAdmin
<1>6. ASSUME NEW r \in Requests, TriggerPost(r) \/ ControlPost(r)
      PROVE  RequestInv' /\ AdmittedByALiveSession'
  BY <1>6 DEF TriggerPost, ControlPost, Refuse, RunInBackground, rowVars
<1>7. CASE Cleanup
  BY <1>7 DEF Cleanup, requestVars
<1>8. CASE Crash
  BY <1>8 DEF Crash, rowVars
<1> QED
  BY <1>1, <1>2, <1>3, <1>4, <1>5, <1>6, <1>7, <1>8
     DEF Next, HandlerStep, RequestStep, JobProgress, Login, Age, Callback,
         ExchangeCode, GetUserInfo, CallbackFails, JobStep, JobEnds

LEMMA StepInv == IInv /\ [Next]_vars => IInv'
<1>1. ASSUME IInv, Next PROVE IInv'
  BY <1>1, TypeStep, LoginStep, RequestStepInv DEF IInv
<1>2. ASSUME IInv, UNCHANGED vars PROVE IInv'
  BY <1>2 DEF IInv, TypeOK, LoginInv, OneSessionPerLogin, RequestInv,
              AdmittedByALiveSession, vars, loginVars, rowVars, requestVars, jobVars
<1> QED
  BY <1>1, <1>2

THEOREM Invariance == Spec => []IInv
BY InitInv, StepInv, PTL DEF Spec

(* Every reachable state has its type, whatever the constants.             *)
THEOREM TypeCorrect == Spec => []TypeOK
BY Invariance, PTL DEF IInv

(* A state token yields one session at most (oidc_callback).               *)
THEOREM LoginsAreSingle == Spec => []OneSessionPerLogin
BY Invariance, PTL DEF IInv

(* Who is let in came with a live session (validate_session, require_user). *)
THEOREM AdmissionIsSound == Spec => []AdmittedByALiveSession
BY Invariance, PTL DEF IInv

-----------------------------------------------------------------------------
(* Callbacks, rows and background tasks as tokens, sessions and promises.  *)

(* A request that is being looked at has no rebuild of an earlier one      *)
(* behind it, and the event loop is not the only one to know a rebuild.    *)
JobInv ==
    \A r \in Requests :
        /\ rpc[r] \in {"check", "body"} => job[r] \notin Open
        /\ job[r] \in Open => r \in refs

LEMMA JobStepInv == TypeOK /\ JobInv /\ [Next]_vars => JobInv'
<1> SUFFICES ASSUME TypeOK, JobInv, [Next]_vars PROVE JobInv'
  OBVIOUS
<1> USE DEF TypeOK, JobInv, Open
<1>1. CASE UNCHANGED <<requestVars, jobVars>>
  BY <1>1 DEF requestVars, jobVars
<1>2. ASSUME NEW r \in Requests, NEW s \in Sessions, Arrive(r, s)
      PROVE  JobInv'
  BY <1>2 DEF Arrive, jobVars
<1>3. ASSUME NEW r \in Requests, Validate(r)
      PROVE  JobInv'
  BY <1>3 DEF Validate, RequireUser, Refuse, jobVars
<1>4. ASSUME NEW r \in Requests, TriggerPost(r) \/ ControlPost(r)
      PROVE  JobInv'
  BY <1>4 DEF TriggerPost, ControlPost, Refuse, RunInBackground, jobVars
<1>5. ASSUME NEW r \in Requests, JobStep(r) \/ JobEnds(r)
      PROVE  JobInv'
  BY <1>5 DEF JobStep, JobEnds, requestVars
<1>6. CASE Crash
  BY <1>6 DEF Crash
<1> QED
  BY <1>1, <1>2, <1>3, <1>4, <1>5, <1>6
     DEF Next, HandlerStep, RequestStep, JobProgress, Login, Age, Callback,
         ExchangeCode, GetUserInfo, CallbackFails, CreateSession, Expire,
         Logout, Cleanup, vars

THEOREM JobInvariance == Spec => []JobInv
<1>1. Init => JobInv
  BY DEF Init, JobInv, Open
<1>2. IInv /\ JobInv /\ [Next]_vars => JobInv'
  BY JobStepInv DEF IInv
<1> QED
  BY <1>1, <1>2, Invariance, PTL DEF Spec

(* The event loop keeps only weak references to its tasks: until a rebuild *)
(* that was acknowledged is over, _background_tasks holds it, so the next  *)
(* await does not lose it (the safety of AcknowledgedIsRun).               *)
THEOREM RebuildIsHeld ==
    Spec => [](\A r \in Requests : job[r] \in Open => r \in refs)
<1>1. JobInv => \A r \in Requests : job[r] \in Open => r \in refs
  BY DEF JobInv
<1> QED
  BY <1>1, JobInvariance, PTL

(* What the steps change of each picture, and what they leave.             *)
LEMMA Frames ==
    /\ UNCHANGED loginVars => TokenState' = TokenState
    /\ UNCHANGED row => Life' = Life
    /\ UNCHANGED <<rpc, cred>> => AdmittedAs' = AdmittedAs
    /\ UNCHANGED job => Work' = Work
BY DEF loginVars, TokenState, Life, AdmittedAs, Work

(* Where one token is, and how a step on one token changes the picture.    *)
Held(f) == \E h \in Handlers : flow[h] = f
Where(f) == IF made[f] > 0 THEN "used"
            ELSE IF Held(f) THEN "redeemed"
            ELSE IF state[f] = "none" THEN "void" ELSE "issued"

LEMMA TokenIs ==
    /\ TokenState = [f \in Flows |-> Where(f)]
    /\ TokenState' = [f \in Flows |-> Where(f)']
BY DEF TokenState, Where, Held

LEMMA TokenChanges ==
    ASSUME NEW f \in Flows,
           \A g \in Flows \ {f} : Where(g)' = Where(g)
    PROVE  TokenState' = [TokenState EXCEPT ![f] = Where(f)']
<1> HIDE DEF Where
<1> QED
  BY TokenIs

(* Nothing has been made with a token that is stored or at a callback.     *)
LEMMA WhereFacts ==
    ASSUME IInv, NEW f \in Flows
    PROVE  /\ state[f] # "none" => Where(f) = "issued"
           /\ state[f] = "none" /\ ~Held(f) => Where(f) \in {"void", "used"}
           /\ Where(f) = "issued" => state[f] # "none" /\ ~Held(f) /\ made[f] = 0
           /\ \A h \in Handlers : flow[h] = f =>
                 Where(f) = "redeemed" /\ state[f] = "none" /\ made[f] = 0
<1>1. /\ state[f] # "none" => made[f] = 0 /\ ~Held(f)
      /\ Held(f) => made[f] = 0 /\ state[f] = "none"
  BY NoneAssumption DEF IInv, TypeOK, LoginInv, Held
<1>2. \A h \in Handlers : flow[h] = f => Held(f)
  BY DEF Held
<1>3. made[f] \in Nat
  BY DEF IInv, TypeOK
<1> QED
  BY <1>1, <1>2, <1>3 DEF Where

(* A callback that ends lets go of its token, and no other has it.         *)
LEMMA LetGo ==
    ASSUME IInv, NEW h \in Handlers, NEW f \in Flows, HandlerEnds(h), flow[h] = f
    PROVE  /\ ~Held(f)'
           /\ \A g \in Flows \ {f} : Held(g)' <=> Held(g)
<1>1. flow' = [flow EXCEPT ![h] = NoFlow] /\ flow \in [Handlers -> Flows \cup {NoFlow}]
  BY DEF HandlerEnds, IInv, TypeOK
<1>2. \A i \in Handlers : flow[i] = f => i = h
  BY NoneAssumption DEF IInv, LoginInv
<1> QED
  BY <1>1, <1>2, NoneAssumption DEF Held

(* The steps of a login up to the session.                                 *)
LEMMA LoginRefines ==
    ASSUME IInv, IInv',
           \/ \E f \in Flows : \/ Login(f) \/ Age(f)
                               \/ \E h \in Handlers : Callback(h, f)
           \/ \E h \in Handlers : ExchangeCode(h) \/ GetUserInfo(h)
                                  \/ CallbackFails(h)
    PROVE  [Grants!Next]_(Grants!vars)
<1>1. UNCHANGED <<Life, admins, AdmittedAs, Work>>
  BY Frames DEF Login, Age, Callback, ExchangeCode, GetUserInfo, CallbackFails,
     rowVars, requestVars, jobVars
<1>2. ASSUME NEW f \in Flows, Login(f)
      PROVE  Grants!Issue(f)
  <2> DEFINE F == {g \in Flows \ {f} : state[g] = "stale"}
  <2>1. state[f] = "none" /\ ~Held(f)
    BY <1>2 DEF Login, InUse, Held
  <2>2. Where(f) \in {"void", "used"}
    BY <2>1, WhereFacts
  <2>3. F \in SUBSET {g \in Flows \ {f} : Where(g) = "issued"}
    BY WhereFacts
  <2>4. /\ state' = [g \in Flows |-> IF g = f THEN "fresh"
                                     ELSE IF state[g] = "stale" THEN "none"
                                     ELSE state[g]]
        /\ made' = [made EXCEPT ![f] = 0]
        /\ \A g : Held(g)' <=> Held(g)
    BY <1>2 DEF Login, StoreWith, Held
  <2>5. made \in [Flows -> Nat] /\ state \in [Flows -> {"none", "fresh", "stale"}]
    BY DEF IInv, TypeOK
  <2>6. Where(f)' = "issued"
    <3>1. made'[f] = 0 /\ state'[f] = "fresh" /\ ~Held(f)'
      BY <2>1, <2>4, <2>5
    <3> QED
      BY <3>1 DEF Where
  <2>7. ASSUME NEW g \in F
        PROVE  Where(g)' = "void"
    <3>1. Where(g) = "issued"
      BY WhereFacts
    <3>2. made[g] = 0 /\ ~Held(g)
      BY <3>1, WhereFacts
    <3>3. made'[g] = 0 /\ state'[g] = "none" /\ ~Held(g)'
      BY <2>4, <2>5, <3>2
    <3> QED
      BY <3>3 DEF Where
  <2>8. ASSUME NEW g \in Flows, g # f, g \notin F
        PROVE  Where(g)' = Where(g)
    <3>1. made'[g] = made[g] /\ state'[g] = state[g] /\ (Held(g)' <=> Held(g))
      BY <2>4, <2>5, <2>8
    <3> QED
      BY <3>1 DEF Where
  <2>9. TokenState' = [g \in Flows |-> IF g = f THEN "issued"
                                       ELSE IF g \in F THEN "void"
                                       ELSE TokenState[g]]
    BY <2>6, <2>7, <2>8, TokenIs
  <2>10. TokenState[f] \in {"void", "used"}
    BY <2>2, TokenIs
  <2>11. F \in SUBSET {g \in Flows \ {f} : TokenState[g] = "issued"}
    BY <2>3, TokenIs
  <2> QED
    BY <1>1, <2>9, <2>10, <2>11 DEF Grants!Issue
<1>3. ASSUME NEW f \in Flows, Age(f)
      PROVE  TokenState' = TokenState
  <2>1. /\ \A g \in Flows : Held(g)' <=> Held(g)
        /\ \A g \in Flows : (state'[g] = "none") <=> (state[g] = "none")
        /\ made' = made
    BY <1>3 DEF Age, Held, IInv, TypeOK
  <2>2. \A g \in Flows : Where(g)' = Where(g)
    BY <2>1 DEF Where
  <2> QED
    BY <2>2, TokenIs
<1>4. ASSUME NEW f \in Flows, NEW h \in Handlers, Callback(h, f)
      PROVE  Grants!Redeem(f) \/ Grants!Spoil(f)
  <2>1. state[f] # "none" /\ made' = made /\ state' = [state EXCEPT ![f] = "none"]
    BY <1>4 DEF Callback
  <2>2. Where(f) = "issued"
    BY <2>1, WhereFacts
  <2>3. made[f] = 0 /\ ~Held(f)
    BY <2>2, WhereFacts
  <2>4. flow \in [Handlers -> Flows \cup {NoFlow}]
        /\ state \in [Flows -> {"none", "fresh", "stale"}]
    BY DEF IInv, TypeOK
  <2>5. CASE state[f] = "fresh"
    <3>1. flow[h] = NoFlow
      BY <1>4 DEF Callback, IInv, TypeOK, LoginInv, Busy
    <3>2. flow' = [flow EXCEPT ![h] = f]
      BY <1>4, <2>5 DEF Callback
    <3>3. Held(f)' /\ \A g \in Flows \ {f} : Held(g)' <=> Held(g)
      BY <2>4, <3>1, <3>2, NoneAssumption DEF Held
    <3>4. \A g \in Flows \ {f} : Where(g)' = Where(g)
      BY <2>1, <2>4, <3>3 DEF Where
    <3>5. Where(f)' = "redeemed"
      BY <2>1, <2>3, <3>3 DEF Where
    <3> QED
      BY <1>1, <2>2, <3>4, <3>5, TokenChanges, TokenIs DEF Grants!Redeem
  <2>6. CASE state[f] # "fresh"
    <3>1. \A g : Held(g)' <=> Held(g)
      BY <1>4, <2>6 DEF Callback, Held
    <3>2. \A g \in Flows \ {f} : Where(g)' = Where(g)
      BY <2>1, <2>4, <3>1 DEF Where
    <3>3. Where(f)' = "void"
      BY <2>1, <2>3, <2>4, <3>1 DEF Where
    <3> QED
      BY <1>1, <2>2, <3>2, <3>3, TokenChanges, TokenIs DEF Grants!Spoil
  <2> QED
    BY <2>5, <2>6
<1>5. ASSUME NEW h \in Handlers, ExchangeCode(h) \/ GetUserInfo(h)
      PROVE  TokenState' = TokenState
  BY <1>5, Frames DEF ExchangeCode, GetUserInfo, loginVars, TokenState
<1>6. ASSUME NEW h \in Handlers, CallbackFails(h)
      PROVE  flow[h] \in Flows /\ Grants!Spoil(flow[h])
  <2>1. flow[h] \in Flows
    BY <1>6, NoneAssumption DEF CallbackFails, IInv, TypeOK, LoginInv, Busy
  <2>2. PICK f \in Flows : f = flow[h]
    BY <2>1
  <2>3. UNCHANGED <<state, made>> /\ HandlerEnds(h)
    BY <1>6 DEF CallbackFails
  <2>4. Where(f) = "redeemed" /\ made[f] = 0 /\ state[f] = "none"
    BY <2>2, WhereFacts
  <2>5. ~Held(f)' /\ \A g \in Flows \ {f} : Held(g)' <=> Held(g)
    BY <2>2, <2>3, LetGo
  <2>6. Where(f)' = "void"
    BY <2>3, <2>4, <2>5 DEF Where
  <2>7. \A g \in Flows \ {f} : Where(g)' = Where(g)
    BY <2>3, <2>5 DEF Where
  <2>8. TokenState' = [TokenState EXCEPT ![f] = "void"]
    BY <2>6, <2>7, TokenChanges
  <2>9. TokenState[f] = "redeemed"
    BY <2>4, TokenIs
  <2>10. Grants!Spoil(f)
    BY <1>1, <2>8, <2>9 DEF Grants!Spoil
  <2> QED
    BY <2>2, <2>10
<1>7. TokenState' = TokenState => UNCHANGED Grants!vars
  BY <1>1 DEF Grants!vars
<1>8. CASE \E f \in Flows : \/ Login(f) \/ Age(f)
                            \/ \E h \in Handlers : Callback(h, f)
  BY <1>2, <1>3, <1>4, <1>7, <1>8 DEF Grants!Next
<1>9. CASE \E h \in Handlers : ExchangeCode(h) \/ GetUserInfo(h)
                               \/ CallbackFails(h)
  BY <1>5, <1>6, <1>7, <1>9 DEF Grants!Next
<1> QED
  BY <1>8, <1>9

(* The commit of a session.                                                *)
LEMMA GrantRefines ==
    ASSUME IInv, IInv', NEW h \in Handlers, NEW s \in Sessions,
           CreateSession(h, s)
    PROVE  Grants!Next
<1>1. flow[h] \in Flows
  BY NoneAssumption DEF CreateSession, IInv, TypeOK, LoginInv, Busy
<1>2. PICK f \in Flows : f = flow[h]
  BY <1>1
<1>3. Where(f) = "redeemed" /\ made[f] = 0
  BY <1>2, WhereFacts
<1>4. ~Held(f)' /\ \A g \in Flows \ {f} : Held(g)' <=> Held(g)
  <2>1. HandlerEnds(h)
    BY DEF CreateSession
  <2> QED
    BY <1>2, <2>1, LetGo
<1>5. state' = state /\ made' = [made EXCEPT ![f] = 1]
      /\ made \in [Flows -> Nat]
  BY <1>2, <1>3 DEF CreateSession, IInv, TypeOK
<1>6. TokenState' = [TokenState EXCEPT ![f] = "used"]
  <2>1. Where(f)' = "used"
    BY <1>5 DEF Where
  <2>2. \A g \in Flows \ {f} : Where(g)' = Where(g)
    BY <1>4, <1>5 DEF Where
  <2> QED
    BY <2>1, <2>2, TokenChanges
<1>7. Life[s] = "unused" /\ Life' = [Life EXCEPT ![s] = "live"]
  BY ZenonT(30) DEF CreateSession, Life, IInv, TypeOK
<1>8. AdmittedAs' = AdmittedAs /\ Work' = Work
  BY Frames DEF CreateSession, requestVars, jobVars
<1>9. TokenState[f] = "redeemed"
  BY <1>3, TokenIs
<1>10. Grants!Grant(f, s)
  BY <1>6, <1>7, <1>8, <1>9 DEF Grants!Grant, CreateSession
<1> QED
  BY <1>10 DEF Grants!Next

(* The end of a session; its row may stay for a while.                     *)
LEMMA EndRefines ==
    ASSUME IInv, Cleanup \/ \E s \in Sessions : Expire(s) \/ Logout(s)
    PROVE  [Grants!Next]_(Grants!vars)
<1>1. UNCHANGED <<TokenState, admins, AdmittedAs, Work>>
  BY Frames DEF Cleanup, Expire, Logout, requestVars, jobVars
<1> USE DEF IInv, TypeOK, Life
<1>2. CASE Cleanup
  BY <1>1, <1>2 DEF Cleanup, Grants!vars
<1>3. ASSUME NEW s \in Sessions, row[s] = "live", Expire(s) \/ Logout(s)
      PROVE  Grants!EndSession(s)
  <2>1. Life[s] = "live" /\ Life' = [Life EXCEPT ![s] = "over"]
    BY <1>3 DEF Expire, Logout
  <2> QED
    BY <1>1, <2>1 DEF Grants!EndSession
<1>4. ASSUME NEW s \in Sessions, row[s] # "live", Expire(s) \/ Logout(s)
      PROVE  Life' = Life
  BY <1>4 DEF Expire, Logout
<1> QED
  BY <1>1, <1>2, <1>3, <1>4 DEF Grants!Next, Grants!vars

(* The steps of a request and of its rebuild.                              *)
LEMMA RequestRefines ==
    ASSUME IInv, JobInv, NEW r \in Requests,
           \/ RequestStep(r) \/ JobProgress(r)
           \/ \E s \in Sessions : Arrive(r, s)
    PROVE  [Grants!Next]_(Grants!vars)
<1>1. TokenState' = TokenState /\ admins' = admins
  BY Frames DEF RequestStep, JobProgress, Arrive, Validate, TriggerPost,
     ControlPost, JobStep, JobEnds, rowVars
<1> USE NoneAssumption DEF IInv, TypeOK, Granted
<1>2. ASSUME \E s \in Sessions : Arrive(r, s)
      PROVE  Grants!Leave(r)
  <2>1. Life' = Life /\ Work' = Work
    <3>1. UNCHANGED <<row, job>>
      BY <1>2 DEF Arrive, rowVars, jobVars
    <3> QED
      BY <3>1, Frames
  <2>2. Work[r] # "owed"
    BY <1>2 DEF Arrive, Work, Open
  <2>3. AdmittedAs' = [AdmittedAs EXCEPT ![r] = NoSession]
    <3>1. PICK s \in Sessions : Arrive(r, s)
      BY <1>2
    <3>2. /\ rpc' = [rpc EXCEPT ![r] = "check"]
          /\ cred' = [cred EXCEPT ![r] = s]
      BY <3>1 DEF Arrive
    <3>3. \A q \in Requests : q # r => rpc'[q] = rpc[q] /\ cred'[q] = cred[q]
      BY <3>2
    <3>4. rpc'[r] = "check"
      BY <3>2
    <3> QED
      BY <3>3, <3>4 DEF AdmittedAs
  <2> QED
    BY <1>1, <2>1, <2>2, <2>3 DEF Grants!Leave
<1>3. ASSUME Validate(r)
      PROVE  [Grants!Next]_(Grants!vars)
  <2>1. Work' = Work /\ Work[r] # "owed"
    BY <1>3, Frames DEF Validate, jobVars, JobInv, Work, Open
  <2>2. cred[r] \in Sessions /\ AdmittedAs[r] = NoSession
    BY <1>3 DEF Validate, RequestInv, AdmittedAs
  <2>3. Life' = Life
    <3>1. CASE row' = row
      BY <3>1, Frames
    <3>2. CASE row' = [row EXCEPT ![cred[r]] = IF @ = "late" THEN "gone" ELSE @]
      BY <2>2, <3>2 DEF Life
    <3> QED
      BY <1>3, <3>1, <3>2 DEF Validate
  <2>4. CASE Refuse(r)
    <3>1. AdmittedAs' = AdmittedAs
      BY <1>3, <2>4 DEF Validate, Refuse, AdmittedAs
    <3> QED
      BY <1>1, <2>1, <2>3, <3>1 DEF Grants!vars
  <2>5. CASE ~Refuse(r)
    <3>1. /\ row[cred[r]] = "live" /\ cred[r] \in admins
          /\ \E p \in Granted : rpc' = [rpc EXCEPT ![r] = p]
          /\ cred' = cred
      BY <1>3, <2>5 DEF Validate, RequireUser, IsAdmin
    <3>2. AdmittedAs' = [AdmittedAs EXCEPT ![r] = cred[r]]
      BY <3>1, ZenonT(30) DEF AdmittedAs
    <3>3. Life[cred[r]] = "live"
      BY <2>2, <3>1 DEF Life
    <3>4. Grants!Admit(r, cred[r])
      BY <1>1, <2>1, <2>2, <2>3, <3>1, <3>2, <3>3 DEF Grants!Admit
    <3> QED
      BY <2>2, <3>4 DEF Grants!Next
  <2> QED
    BY <2>4, <2>5
<1>4. ASSUME TriggerPost(r) \/ ControlPost(r)
      PROVE  [Grants!Next]_(Grants!vars)
  <2>1. /\ Life' = Life /\ Work[r] # "owed"
        /\ AdmittedAs[r] # NoSession
    BY <1>4, Frames DEF TriggerPost, ControlPost, rowVars, JobInv, Work, Open,
       AdmittedAs, AdmittedByALiveSession
  <2>2. CASE Refuse(r) /\ UNCHANGED jobVars
    <3>1. AdmittedAs' = [AdmittedAs EXCEPT ![r] = NoSession]
      BY <2>2 DEF Refuse, AdmittedAs
    <3>2. Work' = Work
      BY <2>2, Frames DEF jobVars
    <3>3. Grants!Leave(r)
      BY <1>1, <2>1, <3>1, <3>2 DEF Grants!Leave
    <3> QED
      BY <3>3 DEF Grants!Next
  <2>3. CASE rpc' = [rpc EXCEPT ![r] = "accepted"] /\ cred' = cred
    <3>1. AdmittedAs' = AdmittedAs
      BY <1>4, <2>3 DEF TriggerPost, ControlPost, AdmittedAs
    <3>2. CASE RunInBackground(r)
      <4>1. Work' = [Work EXCEPT ![r] = "owed"]
        BY <3>2 DEF RunInBackground, Work, Open
      <4>2. Grants!Promise(r)
        BY <1>1, <2>1, <3>1, <4>1 DEF Grants!Promise
      <4> QED
        BY <4>2 DEF Grants!Next
    <3>3. CASE UNCHANGED jobVars
      <4>1. Work' = Work
        BY <3>3, Frames DEF jobVars
      <4> QED
        BY <1>1, <2>1, <3>1, <4>1 DEF Grants!vars
    <3> QED
      BY <1>4, <2>3, <3>2, <3>3 DEF TriggerPost, ControlPost, Refuse
  <2> QED
    BY <1>4, <2>2, <2>3 DEF TriggerPost, ControlPost
<1>5. ASSUME JobStep(r) \/ JobEnds(r)
      PROVE  [Grants!Next]_(Grants!vars)
  <2>1. UNCHANGED <<Life, AdmittedAs>>
    BY <1>5, Frames DEF JobStep, JobEnds, rowVars, requestVars
  <2>2. CASE JobStep(r)
    <3>1. Work' = Work
      BY <2>2 DEF JobStep, Work, Open
    <3> QED
      BY <1>1, <2>1, <3>1 DEF Grants!vars
  <2>3. CASE JobEnds(r)
    <3>1. Work[r] = "owed" /\ Work' = [Work EXCEPT ![r] = "done"]
      BY <2>3 DEF JobEnds, Work, Open
    <3>2. Grants!Fulfil(r)
      BY <1>1, <2>1, <3>1 DEF Grants!Fulfil
    <3> QED
      BY <3>2 DEF Grants!Next
  <2> QED
    BY <1>5, <2>2, <2>3
<1> QED
  BY <1>2, <1>3, <1>4, <1>5 DEF RequestStep, JobProgress, Grants!Next

LEMMA CrashRefines == ASSUME IInv, Crash PROVE Grants!Restart
<1> USE NoneAssumption DEF IInv, TypeOK, Crash
<1>1. TokenState' = [f \in Flows |-> IF TokenState[f] = "used" THEN "used"
                                                              ELSE "void"]
  BY DEF TokenState
<1>2. AdmittedAs' = [r \in Requests |-> NoSession]
  BY DEF AdmittedAs, Granted
<1>3. Work' = [r \in Requests |-> IF Work[r] = "owed" THEN "died" ELSE Work[r]]
  BY DEF Work, Open
<1>4. UNCHANGED <<Life, admins>>
  BY Frames DEF rowVars
<1> QED
  BY <1>1, <1>2, <1>3, <1>4 DEF Grants!Restart

(* For any number of browsers, callbacks and requests, who gets in is who   *)
(* a login made a session for, while it is alive.                          *)
THEOREM GrantsRefine == Spec => ImplementsGrants
<1>1. Init => Grants!Init
  BY NoneAssumption DEF Init, Grants!Init, TokenState, Life, AdmittedAs, Work,
     Granted, Open
<1>2. IInv /\ IInv' /\ JobInv /\ [Next]_vars => [Grants!Next]_(Grants!vars)
  <2> SUFFICES ASSUME IInv, IInv', JobInv, [Next]_vars
               PROVE  [Grants!Next]_(Grants!vars)
    OBVIOUS
  <2>1. CASE UNCHANGED vars
    BY <2>1, Frames DEF vars, rowVars, requestVars, jobVars, Grants!vars
  <2>2. CASE Crash
    BY <2>2, CrashRefines DEF Grants!Next
  <2>3. CASE Next /\ ~Crash
    BY <2>3, LoginRefines, GrantRefines, EndRefines, RequestRefines
       DEF Next, HandlerStep
  <2> QED
    BY <2>1, <2>2, <2>3
<1> QED
  BY <1>1, <1>2, Invariance, JobInvariance, PTL
     DEF Spec, ImplementsGrants, Grants!Spec
=============================================================================
