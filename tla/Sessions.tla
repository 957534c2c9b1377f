------------------------------ MODULE Sessions ------------------------------
(***************************************************************************)
(* Logging in to the web interface and what a login is good for: the OIDC  *)
(* routes of web.py, the sessions of auth.py and the requests they admit.  *)
(*                                                                         *)
(* /login puts a state token into _oidc_state_store, in memory, and sends  *)
(* the browser away; /oidc/callback takes it out, asks the provider twice  *)
(* and stores a session in the database, which outlives the process.       *)
(* Every protected request looks its session up once, before it reads its  *)
(* body; a trigger is answered when its rebuild has been scheduled and     *)
(* runs in the background afterwards.  Logouts, expiry, the daily cleanup  *)
(* and a restart come in between any two of these steps.                   *)
(***************************************************************************)
EXTENDS Naturals, FiniteSets

CONSTANTS
    Flows,     \* state tokens; one is used again when nothing refers to it
    Handlers,  \* callbacks that can be in progress at once
    Sessions,  \* session ids, each issued once
    Requests,  \* protected requests that can be in progress at once
    NoFlow, NoSession,
    MaxCrashes \* bound on restarts

ASSUME NoneAssumption == NoFlow \notin Flows /\ NoSession \notin Sessions
ASSUME BoundAssumption == MaxCrashes \in Nat

VARIABLES
    state,  \* _oidc_state_store; stale: older than _OIDC_STATE_TTL_SECONDS
    made,   \* history: sessions created for a token since its /login
    \* /oidc/callback
    hpc, flow,
    \* user_session
    row,    \* late: expires_at has passed
    admins, \* sessions whose groups meet admin_groups
    \* protected requests
    rpc, cred,
    dead,   \* history: the session was over when the request came
    \* background tasks
    job,
    refs,   \* _background_tasks
    crashes

loginVars == <<state, made, hpc, flow>>
rowVars == <<row, admins>>
requestVars == <<rpc, cred, dead>>
jobVars == <<job, refs>>
vars == <<loginVars, rowVars, requestVars, jobVars, crashes>>

Busy == {"exchange", "userinfo", "create"}
Granted == {"body", "accepted"}
Open == {"scheduled", "suspended"}
YesNo == {"yes", "no"}

Init ==
    /\ state = [f \in Flows |-> "none"] /\ made = [f \in Flows |-> 0]
    /\ hpc = [h \in Handlers |-> "idle"] /\ flow = [h \in Handlers |-> NoFlow]
    /\ row = [s \in Sessions |-> "unused"] /\ admins = {}
    /\ rpc = [r \in Requests |-> "idle"]
    /\ cred = [r \in Requests |-> NoSession]
    /\ dead = [r \in Requests |-> "no"]
    /\ job = [r \in Requests |-> "none"] /\ refs = {}
    /\ crashes = 0

-----------------------------------------------------------------------------
(* Logging in.                                                             *)

InUse(f) == state[f] # "none" \/ \E h \in Handlers : flow[h] = f

(* Mutant of StoreWith: nothing is purged.                                 *)
StoreWith_Keeps(f) == [state EXCEPT ![f] = "fresh"]

(* _purge_expired_oidc_states, then the new token.                         *)
StoreWith(f) ==
    [g \in Flows |-> IF g = f THEN "fresh"
                     ELSE IF state[g] = "stale" THEN "none" ELSE state[g]]

Login(f) ==
    /\ ~InUse(f)
    /\ state' = StoreWith(f)
    /\ made' = [made EXCEPT ![f] = 0]
    /\ UNCHANGED <<hpc, flow, rowVars, requestVars, jobVars, crashes>>

(* Ten minutes pass since /login.                                          *)
Age(f) ==
    /\ state[f] = "fresh"
    /\ state' = [state EXCEPT ![f] = "stale"]
    /\ UNCHANGED <<made, hpc, flow, rowVars, requestVars, jobVars, crashes>>

(* Mutant of Callback: the token is looked up and left in the store.       *)
Callback_Keeps(h, f) ==
    /\ hpc[h] = "idle" /\ state[f] = "fresh"
    /\ hpc' = [hpc EXCEPT ![h] = "exchange"]
    /\ flow' = [flow EXCEPT ![h] = f]
    /\ UNCHANGED <<state, made, rowVars, requestVars, jobVars, crashes>>

(* The browser is back, once or, reloaded, several times: the token is     *)
(* popped whether or not it is good.                                       *)
Callback(h, f) ==
    /\ hpc[h] = "idle" /\ state[f] # "none"
    /\ state' = [state EXCEPT ![f] = "none"]
    /\ IF state[f] = "fresh"
       THEN /\ hpc' = [hpc EXCEPT ![h] = "exchange"]
            /\ flow' = [flow EXCEPT ![h] = f]
       ELSE UNCHANGED <<hpc, flow>>
    /\ UNCHANGED <<made, rowVars, requestVars, jobVars, crashes>>

(* The provider gives an access token for the code.                        *)
ExchangeCode(h) ==
    /\ hpc[h] = "exchange"
    /\ hpc' = [hpc EXCEPT ![h] = "userinfo"]
    /\ UNCHANGED <<state, made, flow, rowVars, requestVars, jobVars, crashes>>

(* And says who that is.                                                   *)
GetUserInfo(h) ==
    /\ hpc[h] = "userinfo"
    /\ hpc' = [hpc EXCEPT ![h] = "create"]
    /\ UNCHANGED <<state, made, flow, rowVars, requestVars, jobVars, crashes>>

HandlerEnds(h) ==
    /\ hpc' = [hpc EXCEPT ![h] = "idle"]
    /\ flow' = [flow EXCEPT ![h] = NoFlow]

(* create_session commits a row with the groups of the moment.             *)
CreateSession(h, s) ==
    /\ hpc[h] = "create" /\ row[s] = "unused"
    /\ row' = [row EXCEPT ![s] = "live"]
    /\ admins' \in {admins, admins \cup {s}}
    /\ made' = [made EXCEPT ![flow[h]] = @ + 1]
    /\ HandlerEnds(h)
    /\ UNCHANGED <<state, requestVars, jobVars, crashes>>

(* The provider or the database fails: 500, and the token is spent.        *)
CallbackFails(h) ==
    /\ hpc[h] \in Busy
    /\ HandlerEnds(h)
    /\ UNCHANGED <<state, made, rowVars, requestVars, jobVars, crashes>>

-----------------------------------------------------------------------------
(* The end of a session.                                                   *)

(* SESSION_DURATION_HOURS pass.                                            *)
Expire(s) ==
    /\ row[s] = "live"
    /\ row' = [row EXCEPT ![s] = "late"]
    /\ UNCHANGED <<loginVars, admins, requestVars, jobVars, crashes>>

(* /logout with the cookie of s: delete_session.                           *)
Logout(s) ==
    /\ row[s] \in {"live", "late"}
    /\ row' = [row EXCEPT ![s] = "gone"]
    /\ UNCHANGED <<loginVars, admins, requestVars, jobVars, crashes>>

(* Mutant of Cleanup: the comparison is the wrong way round.               *)
Cleanup_Reversed ==
    /\ \E s \in Sessions : row[s] = "live"
    /\ row' = [s \in Sessions |-> IF row[s] = "live" THEN "gone" ELSE row[s]]
    /\ UNCHANGED <<loginVars, admins, requestVars, jobVars, crashes>>

(* cleanup_expired_sessions; a round that fails leaves all to the next.    *)
Cleanup ==
    /\ \E s \in Sessions : row[s] = "late"
    /\ row' = [s \in Sessions |-> IF row[s] = "late" THEN "gone" ELSE row[s]]
    /\ UNCHANGED <<loginVars, admins, requestVars, jobVars, crashes>>

-----------------------------------------------------------------------------
(* Protected requests.                                                     *)

(* A request with session s as a cookie or a bearer token.                 *)
Arrive(r, s) ==
    /\ rpc[r] \in {"idle", "accepted"} /\ job[r] \notin Open
    /\ row[s] # "unused"
    /\ rpc' = [rpc EXCEPT ![r] = "check"]
    /\ cred' = [cred EXCEPT ![r] = s]
    /\ dead' = [dead EXCEPT ![r] = IF row[s] = "live" THEN "no" ELSE "yes"]
    /\ UNCHANGED <<loginVars, rowVars, jobVars, crashes>>

(* It is answered with a redirection to /login or an error.                *)
Refuse(r) ==
    /\ rpc' = [rpc EXCEPT ![r] = "idle"]
    /\ cred' = [cred EXCEPT ![r] = NoSession]
    /\ dead' = [dead EXCEPT ![r] = "no"]

(* check_group_membership, with the groups the user had at login.          *)
IsAdmin(s) == s \in admins

(* require_user, for the session that validate_session found: a page is    *)
(* shown, a POST goes on if its session is a bearer token.                 *)
RequireUser(r, found) ==
    \/ /\ found /\ IsAdmin(cred[r])
       /\ \E p \in {"accepted", "body"} : rpc' = [rpc EXCEPT ![r] = p]
       /\ UNCHANGED <<cred, dead>>
    \/ Refuse(r)

(* Mutant of Validate: expiry is left to the cleanup.                      *)
Validate_AnyRow(r) ==
    /\ rpc[r] = "check"
    /\ RequireUser(r, row[cred[r]] # "gone")
    /\ UNCHANGED <<loginVars, rowVars, jobVars, crashes>>

(* validate_session: a row that has expired is deleted on the way; or the  *)
(* database fails.                                                         *)
Validate(r) ==
    /\ rpc[r] = "check"
    /\ \/ /\ RequireUser(r, row[cred[r]] = "live")
          /\ row' = [row EXCEPT ![cred[r]] = IF @ = "late" THEN "gone" ELSE @]
       \/ Refuse(r) /\ UNCHANGED row
    /\ UNCHANGED <<loginVars, admins, jobVars, crashes>>

(* Mutant of RunInBackground: only the event loop knows the task.          *)
RunInBackground_Weak(r) ==
    /\ job' = [job EXCEPT ![r] = "scheduled"]
    /\ UNCHANGED refs

(* _run_in_background.                                                     *)
RunInBackground(r) ==
    /\ job' = [job EXCEPT ![r] = "scheduled"]
    /\ refs' = refs \cup {r}

(* trigger_post has read the body: components to rebuild, or nonsense.     *)
TriggerPost(r) ==
    /\ rpc[r] = "body"
    /\ \/ Refuse(r) /\ UNCHANGED jobVars
       \/ /\ rpc' = [rpc EXCEPT ![r] = "accepted"]
          /\ RunInBackground(r)
          /\ UNCHANGED <<cred, dead>>
    /\ UNCHANGED <<loginVars, rowVars, crashes>>

(* control_post and loglevel_post have no body; they may object to the     *)
(* action or the level.                                                    *)
ControlPost(r) ==
    /\ rpc[r] = "body"
    /\ \/ Refuse(r)
       \/ rpc' = [rpc EXCEPT ![r] = "accepted"] /\ UNCHANGED <<cred, dead>>
    /\ UNCHANGED <<loginVars, rowVars, jobVars, crashes>>

(* rebuild_from_components runs to its next await, ...                     *)
JobStep(r) ==
    /\ job[r] = "scheduled"
    /\ job' = [job EXCEPT ![r] = "suspended"]
    /\ UNCHANGED <<loginVars, rowVars, requestVars, refs, crashes>>

(* ... is woken up by what it waits for, and ends.  Nothing is left to be  *)
(* woken if nobody refers to it: Python has collected it.                  *)
JobEnds(r) ==
    /\ job[r] = "suspended" /\ r \in refs
    /\ job' = [job EXCEPT ![r] = "done"]
    /\ refs' = refs \ {r}
    /\ UNCHANGED <<loginVars, rowVars, requestVars, crashes>>

-----------------------------------------------------------------------------
(* A restart keeps the rows only.                                          *)
Crash ==
    /\ crashes < MaxCrashes /\ crashes' = crashes + 1
    /\ state' = [f \in Flows |-> "none"]
    /\ hpc' = [h \in Handlers |-> "idle"] /\ flow' = [h \in Handlers |-> NoFlow]
    /\ rpc' = [r \in Requests |-> "idle"]
    /\ cred' = [r \in Requests |-> NoSession]
    /\ dead' = [r \in Requests |-> "no"]
    /\ job' = [r \in Requests |-> IF job[r] \in Open THEN "died" ELSE job[r]]
    /\ refs' = {}
    /\ UNCHANGED <<made, rowVars>>

HandlerStep(h) ==
    \/ ExchangeCode(h) \/ GetUserInfo(h) \/ CallbackFails(h)
    \/ \E s \in Sessions : CreateSession(h, s)
RequestStep(r) == Validate(r) \/ TriggerPost(r) \/ ControlPost(r)
JobProgress(r) == JobStep(r) \/ JobEnds(r)

Next ==
    \/ \E f \in Flows :
          Login(f) \/ Age(f) \/ \E h \in Handlers : Callback(h, f)
    \/ \E h \in Handlers : HandlerStep(h)
    \/ \E s \in Sessions : Expire(s) \/ Logout(s)
    \/ \E r \in Requests, s \in Sessions : Arrive(r, s)
    \/ \E r \in Requests : RequestStep(r) \/ JobProgress(r)
    \/ Cleanup \/ Crash

Spec == Init /\ [][Next]_vars

(* What was begun goes on; time passes; the cleanup is a PeriodicTask.     *)
FairSpec ==
    /\ Spec
    /\ \A h \in Handlers : WF_vars(HandlerStep(h))
    /\ \A r \in Requests : WF_vars(RequestStep(r)) /\ WF_vars(JobProgress(r))
    /\ \A s \in Sessions : WF_vars(Expire(s))
    /\ WF_vars(Cleanup)

-----------------------------------------------------------------------------
TypeOK ==
    /\ state \in [Flows -> {"none", "fresh", "stale"}]
    /\ made \in [Flows -> Nat]
    /\ hpc \in [Handlers -> Busy \cup {"idle"}]
    /\ flow \in [Handlers -> Flows \cup {NoFlow}]
    /\ row \in [Sessions -> {"unused", "live", "late", "gone"}]
    /\ admins \subseteq Sessions
    /\ rpc \in [Requests -> Granted \cup {"idle", "check"}]
    /\ cred \in [Requests -> Sessions \cup {NoSession}]
    /\ dead \in [Requests -> YesNo]
    /\ job \in [Requests -> Open \cup {"none", "done", "died"}]
    /\ refs \subseteq {r \in Requests : job[r] \in Open}
    /\ crashes \in 0 .. MaxCrashes

(* However often and however late a browser returns with a token, and      *)
(* whatever fails in between, a /login yields one session at most.         *)
OneSessionPerLogin == \A f \in Flows : made[f] <= 1

(* No protected request is let in by a session that was logged out of,     *)
(* cleaned up or past its expiry when the request came, and only by one    *)
(* whose groups at login meet admin_groups; a request let in before the    *)
(* end of its session goes on after it (require_user, validate_session).   *)
AdmittedByALiveSession ==
    \A r \in Requests : rpc[r] \in Granted =>
        dead[r] = "no" /\ cred[r] \in admins /\ row[cred[r]] # "unused"

(* Where a token is, whichever callback has it; a row is as good as gone   *)
(* when it is late; requests count when they are let in, rebuilds until    *)
(* they are done.                                                          *)
TokenState ==
    [f \in Flows |-> IF made[f] > 0 THEN "used"
                     ELSE IF \E h \in Handlers : flow[h] = f THEN "redeemed"
                     ELSE IF state[f] = "none" THEN "void" ELSE "issued"]
Life == [s \in Sessions |-> IF row[s] \in {"late", "gone"} THEN "over"
                                                           ELSE row[s]]
AdmittedAs == [r \in Requests |-> IF rpc[r] \in Granted THEN cred[r]
                                                        ELSE NoSession]
Work == [r \in Requests |-> IF job[r] \in Open THEN "owed" ELSE job[r]]

Grants == INSTANCE AccessGrants WITH
    Tokens <- Flows, token <- TokenState, life <- Life,
    admitted <- AdmittedAs, work <- Work

(* However callbacks, expiry, clean-ups and restarts fall between the      *)
(* awaits, who gets in is who a login made a session for, which is alive   *)
(* at that moment; a token makes one, a session does not come back, and    *)
(* what was promised is forgotten only with the process.                   *)
ImplementsGrants == Grants!Spec

(* Every session leaves the database though nobody logs out and its cookie *)
(* was never delivered.                                                    *)
SessionsGo ==
    \A s \in Sessions : row[s] \in {"live", "late"} ~> row[s] = "gone"

(* While users keep logging in, a token that was abandoned does not stay   *)
(* in _oidc_state_store.                                                   *)
TokensGo ==
    []<><<\E f \in Flows : Login(f)>>_vars
        => \A f \in Flows : state[f] = "stale" ~> state[f] # "stale"

(* A trigger that was acknowledged is carried out unless the process dies. *)
AcknowledgedIsRun ==
    \A r \in Requests : job[r] = "scheduled" ~> job[r] \in {"done", "died"}
=============================================================================
