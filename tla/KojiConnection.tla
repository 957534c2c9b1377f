--------------------------- MODULE KojiConnection ---------------------------
(***************************************************************************)
(* call_koji: the one Koji session that every worker thread of EBS shares, *)
(* and the Kerberos ticket it logs in with.                                *)
(*                                                                         *)
(* A call looks at the cached expiry of the ticket on the event loop; when *)
(* less than TGT_RENEW_THRESHOLD_SECONDS are left, a worker thread reads   *)
(* the credential cache under _auth_lock, lets go of the lock and renews   *)
(* the ticket under it again.  Renewal replaces the session and closes the *)
(* old one.  The call itself holds the lock from login to its last reply:  *)
(* a helper that multicalls sends several requests, one after the other.   *)
(* Faults on the wire are retried for a minute, and a retry runs the whole *)
(* helper again, whatever Koji has carried out of it and answered; no      *)
(* other failure is.                                                       *)
(***************************************************************************)
EXTENDS Integers, FiniteSets

CONSTANTS
    Callers,    \* concurrent calls, each in a thread of its own
    Sessions,   \* ids of ClientSession objects; a closed one is used again
    NoSession, Free,
    Requests,   \* how many a call of each caller sends: one, or the batches of
                \* koji_batch that its multicall is cut into
    Lifetime,   \* of a ticket just issued, in units of time
    Threshold,  \* TGT_RENEW_THRESHOLD_SECONDS
    MaxTries,   \* tries that fit in the 60 s of call_koji
    MaxRenewals \* attempts of _renew_tgt_and_bsys_with_retries

ASSUME NamesAssumption == NoSession \notin Sessions /\ Free \notin Callers
ASSUME LifetimeAssumption ==
    /\ Threshold \in Nat \ {0} /\ Lifetime \in Nat /\ Lifetime >= Threshold
ASSUME TriesAssumption == MaxTries \in Nat \ {0} /\ MaxRenewals \in Nat \ {0}
ASSUME RequestsAssumption == Requests \in [Callers -> Nat \ {0}]

Unset == -1

VARIABLES
    keytab,   \* whether configure_kerberos was given one
    ticket,   \* remaining lifetime of the ticket in the credential cache
    cached,   \* what _tgt_expiry_mono says remains of it
    bsys,     \* _bsys
    open,     \* sessions whose requests session is not closed
    loggedIn, \* sessions that have logged in
    lock,     \* who holds _auth_lock
    \* per call
    pc,
    using,    \* the session its requests go out on
    renewal,  \* "hard" when the ticket had expired; "soft" may fail
    failures, \* of a hard renewal so far
    tries,    \* of call_koji so far
    at,       \* the request that its try is at
    ran,      \* history: how often Koji has carried out each of its requests
    faults,   \* history: on the wire, since it started
    sure,     \* history: it has found or made a ticket above the threshold
    waited    \* history: time since then, counted up to Threshold

tgtVars == <<ticket, cached>>
sessionVars == <<bsys, open, loggedIn>>
renewVars == <<renewal, failures>>
historyVars == <<sure, waited>>
reqVars == <<at, ran, faults>>
vars == <<keytab, tgtVars, sessionVars, lock, pc, using, renewVars, tries,
          reqVars, historyVars>>

Held == {"recreate", "refresh", "login", "call"}
Ready == {"invoke", "login"}
Ended == {"idle", "returned", "raised"}
Phases == {"check", "ensure", "renew", "invoke", "backoff"} \cup Held \cup Ended
YesNo == {"yes", "no"}
NotRun(c) == [i \in 1 .. Requests[c] |-> 0]

Init ==
    /\ keytab \in YesNo
    /\ ticket \in 0 .. Lifetime /\ cached = Unset
    /\ bsys = NoSession /\ open = {} /\ loggedIn = {}
    /\ lock = Free
    /\ pc = [c \in Callers |-> "idle"]
    /\ using = [c \in Callers |-> NoSession]
    /\ renewal = [c \in Callers |-> "none"]
    /\ failures = [c \in Callers |-> 0]
    /\ tries = [c \in Callers |-> 0]
    /\ at = [c \in Callers |-> 1]
    /\ ran = [c \in Callers |-> NotRun(c)]
    /\ faults = [c \in Callers |-> 0]
    /\ sure = [c \in Callers |-> "no"]
    /\ waited = [c \in Callers |-> 0]

Goto(c, p) == pc' = [pc EXCEPT ![c] = p]
Take(c) == lock = Free /\ lock' = c

-----------------------------------------------------------------------------
(* The ticket.                                                             *)

(* call_koji starts.                                                       *)
Call(c) ==
    /\ pc[c] \in Ended
    /\ Goto(c, "check")
    /\ tries' = [tries EXCEPT ![c] = 1]
    /\ ran' = [ran EXCEPT ![c] = NotRun(c)]
    /\ faults' = [faults EXCEPT ![c] = 0]
    /\ UNCHANGED <<keytab, tgtVars, sessionVars, lock, using, renewVars, at,
                   historyVars>>

(* call_koji is over, with a result or an exception.                       *)
Return(c, p) ==
    /\ Goto(c, p)
    /\ tries' = [tries EXCEPT ![c] = 0]

(* The call is done with the ticket; s says whether it is sure of it.      *)
HasTicket(c, s) ==
    /\ Goto(c, "invoke")
    /\ renewal' = [renewal EXCEPT ![c] = "none"]
    /\ failures' = [failures EXCEPT ![c] = 0]
    /\ sure' = [sure EXCEPT ![c] = s]
    /\ waited' = [waited EXCEPT ![c] = 0]

(* _ensure_tgt, on the event loop and without the lock.                    *)
Check(c) ==
    /\ pc[c] = "check"
    /\ \/ cached >= Threshold /\ HasTicket(c, "yes")
       \/ /\ cached < Threshold
          /\ Goto(c, "ensure")
          /\ UNCHANGED <<renewVars, historyVars>>
    /\ UNCHANGED <<keytab, tgtVars, sessionVars, lock, using, tries, reqVars>>

(* _tgt_lifetime_seconds: 0 as well when the credential cache is unreadable.*)
Lifetimes == {ticket, 0}

(* _ensure_tgt_sync up to the end of its critical section.                 *)
Ensure(c) ==
    /\ pc[c] = "ensure" /\ lock = Free
    /\ \/ cached >= Threshold /\ UNCHANGED cached
       \/ cached < Threshold /\ cached' \in Lifetimes
    /\ \/ cached' >= Threshold /\ HasTicket(c, "yes") /\ UNCHANGED tries
       \/ /\ cached' < Threshold /\ keytab = "no" /\ cached' > 0
          /\ HasTicket(c, "no")
          /\ UNCHANGED tries
       \/ /\ cached' < Threshold /\ keytab = "no" /\ cached' = 0
          /\ Return(c, "raised")
          /\ UNCHANGED <<renewVars, historyVars>>
       \/ /\ cached' < Threshold /\ keytab = "yes"
          /\ renewal' =
                [renewal EXCEPT ![c] = IF cached' > 0 THEN "soft" ELSE "hard"]
          /\ Goto(c, "renew")
          /\ UNCHANGED <<failures, tries, historyVars>>
    /\ UNCHANGED <<keytab, ticket, sessionVars, lock, using, reqVars>>

(* Mutant of Acquire: the renewal does not take the lock.                  *)
Acquire_Unlocked(c) ==
    /\ pc[c] = "renew"
    /\ ticket' = Lifetime
    /\ Goto(c, "recreate")
    /\ UNCHANGED <<keytab, cached, sessionVars, lock, using, renewVars, tries,
                   reqVars, historyVars>>

(* _acquire_tgt_sync got a ticket and stored it in the credential cache.   *)
Acquire(c) ==
    /\ pc[c] = "renew"
    /\ Take(c)
    /\ ticket' = Lifetime
    /\ Goto(c, "recreate")
    /\ UNCHANGED <<keytab, cached, sessionVars, using, renewVars, tries,
                   reqVars, historyVars>>

(* Mutant of NewSession: the old session is left open.                     *)
NewSession_Leaks ==
    \E s \in Sessions \ open :
        /\ bsys' = s
        /\ open' = open \cup {s}
        /\ loggedIn' = loggedIn \ {bsys, s}

(* _recreate_bsys_sync: the old session is closed once a new one is there. *)
NewSession ==
    \E s \in Sessions \ open :
        /\ bsys' = s
        /\ open' = (open \ {bsys}) \cup {s}
        /\ loggedIn' = loggedIn \ {bsys, s}

Recreate(c) ==
    /\ pc[c] = "recreate"
    /\ NewSession
    /\ Goto(c, "refresh")
    /\ UNCHANGED <<keytab, tgtVars, lock, using, renewVars, tries, reqVars,
                   historyVars>>

(* Mutant of Refresh: the expiry counts from a full lifetime.              *)
Refresh_Assumes(c) ==
    /\ pc[c] = "refresh"
    /\ cached' = Lifetime
    /\ lock' = Free
    /\ HasTicket(c, "yes")
    /\ UNCHANGED <<keytab, ticket, sessionVars, using, tries, reqVars>>

(* The end of a renewal: the expiry is that of the ticket just stored.     *)
Refresh(c) ==
    /\ pc[c] = "refresh"
    /\ cached' \in Lifetimes
    /\ lock' = Free
    /\ HasTicket(c, IF ticket >= Threshold THEN "yes" ELSE "no")
    /\ UNCHANGED <<keytab, ticket, sessionVars, using, tries, reqVars>>

(* A renewal fails, at the KDC with the lock just taken or with the profile *)
(* once the ticket is stored: the session is as before.  A soft one is let  *)
(* go, a hard one is tried again.                                           *)
RenewalFails(c) ==
    /\ \/ pc[c] = "renew" /\ lock = Free
       \/ pc[c] = "recreate"
    /\ lock' = Free
    /\ \/ renewal[c] = "soft" /\ HasTicket(c, "no") /\ UNCHANGED tries
       \/ /\ renewal[c] = "hard" /\ failures[c] + 1 < MaxRenewals
          /\ failures' = [failures EXCEPT ![c] = @ + 1]
          /\ Goto(c, "renew")
          /\ UNCHANGED <<renewal, tries, historyVars>>
       \/ /\ renewal[c] = "hard" /\ failures[c] + 1 = MaxRenewals
          /\ failures' = [failures EXCEPT ![c] = 0]
          /\ renewal' = [renewal EXCEPT ![c] = "none"]
          /\ Return(c, "raised")
          /\ UNCHANGED historyVars
    /\ UNCHANGED <<keytab, tgtVars, sessionVars, using, reqVars>>

-----------------------------------------------------------------------------
(* The call.                                                               *)

(* _invoke_koji_sync has the lock and, if need be, creates the session.    *)
Enter(c) ==
    /\ pc[c] = "invoke"
    /\ Take(c)
    /\ IF bsys = NoSession THEN NewSession ELSE UNCHANGED sessionVars
    /\ Goto(c, "login")
    /\ UNCHANGED <<keytab, tgtVars, using, renewVars, tries, reqVars, historyVars>>

Past(c) == sure' = [sure EXCEPT ![c] = "no"] /\ waited' = [waited EXCEPT ![c] = 0]

EnterFails(c) ==
    /\ pc[c] = "invoke" /\ lock = Free /\ bsys = NoSession
    /\ Return(c, "raised") /\ Past(c)
    /\ UNCHANGED <<keytab, tgtVars, sessionVars, lock, using, renewVars, reqVars>>

(* _ensure_logged_in_sync, and the request goes out.                       *)
Login(c) ==
    /\ pc[c] = "login"
    /\ bsys \in loggedIn \/ ticket > 0
    /\ loggedIn' = loggedIn \cup {bsys}
    /\ using' = [using EXCEPT ![c] = bsys]
    /\ Goto(c, "call") /\ Past(c)
    /\ UNCHANGED <<keytab, tgtVars, bsys, open, lock, renewVars, tries, reqVars>>

(* Mutant of LoginFails: the error path does not release the lock.         *)
LoginFails_Holds(c) ==
    /\ pc[c] = "login" /\ bsys \notin loggedIn
    /\ Return(c, "raised") /\ Past(c)
    /\ UNCHANGED <<keytab, tgtVars, sessionVars, lock, using, renewVars, reqVars>>

LoginFails(c) ==
    /\ pc[c] = "login" /\ bsys \notin loggedIn
    /\ lock' = Free
    /\ Return(c, "raised") /\ Past(c)
    /\ UNCHANGED <<keytab, tgtVars, sessionVars, using, renewVars, reqVars>>

(* Koji has carried out the request n times more.                          *)
CarriedOut(c, n) == ran' = [ran EXCEPT ![c][at[c]] = @ + n]

(* The reply to one batch of a multicall is in, and the next one goes out. *)
NextRequest(c) ==
    /\ pc[c] = "call" /\ at[c] < Requests[c]
    /\ CarriedOut(c, 1)
    /\ at' = [at EXCEPT ![c] = @ + 1]
    /\ UNCHANGED <<keytab, tgtVars, sessionVars, lock, pc, using, renewVars,
                   tries, faults, historyVars>>

(* The try is over, at this request.                                       *)
Finish(c, n) ==
    /\ pc[c] = "call"
    /\ lock' = Free
    /\ using' = [using EXCEPT ![c] = NoSession]
    /\ CarriedOut(c, n)
    /\ at' = [at EXCEPT ![c] = 1]
    /\ UNCHANGED <<keytab, tgtVars, sessionVars, renewVars, historyVars>>

(* The last reply is in.                                                   *)
Answer(c) ==
    /\ at[c] = Requests[c]
    /\ Finish(c, 1) /\ Return(c, "returned")
    /\ UNCHANGED faults

(* Mutant of Reject: every error is retried.                               *)
Reject_Retries(c) ==
    Finish(c, 1) /\ Goto(c, "backoff") /\ UNCHANGED <<tries, faults>>

(* _should_retry_koji_exception is false: a GenericError, a 4xx, an error   *)
(* of the helper that was called.  The requests after it are not sent.     *)
Reject(c) ==
    /\ \E n \in 0 .. 1 : Finish(c, n)
    /\ Return(c, "raised")
    /\ UNCHANGED faults

(* No reply, before or after Koji carried out the request, or one that says *)
(* to try again: 5xx, 408, 429.                                            *)
WireFault(c) ==
    /\ \E n \in 0 .. 1 : Finish(c, n)
    /\ faults' = [faults EXCEPT ![c] = @ + 1]
    /\ Goto(c, "backoff")
    /\ UNCHANGED tries

(* The retry of call_koji, from the ticket and the first request on; or    *)
(* the 60 s are over.                                                      *)
Retry(c) ==
    /\ pc[c] = "backoff"
    /\ \/ /\ tries[c] < MaxTries
          /\ tries' = [tries EXCEPT ![c] = @ + 1]
          /\ Goto(c, "check")
       \/ Return(c, "raised")
    /\ UNCHANGED <<keytab, tgtVars, sessionVars, lock, using, renewVars, reqVars,
                   historyVars>>

-----------------------------------------------------------------------------
(* Time passes for the ticket, the cached expiry and the calls that wait.  *)
Tick ==
    /\ ticket > 0
    /\ ticket' = ticket - 1
    /\ cached' = IF cached > 0 THEN cached - 1 ELSE cached
    /\ waited' = [c \in Callers |-> IF pc[c] \in Ready /\ waited[c] < Threshold
                                    THEN waited[c] + 1 ELSE waited[c]]
    /\ UNCHANGED <<keytab, sessionVars, lock, pc, using, renewVars, tries, reqVars,
                   sure>>

(* Without a keytab somebody else puts tickets in the credential cache.    *)
Kinit ==
    /\ keytab = "no" /\ ticket < Lifetime
    /\ ticket' = Lifetime
    /\ UNCHANGED <<keytab, cached, sessionVars, lock, pc, using, renewVars, tries,
                   reqVars, historyVars>>

TakesLock(c) == Ensure(c) \/ Acquire(c) \/ Enter(c)
Step(c) ==
    \/ Check(c) \/ TakesLock(c) \/ Recreate(c) \/ Refresh(c) \/ RenewalFails(c)
    \/ EnterFails(c) \/ Login(c) \/ LoginFails(c)
    \/ NextRequest(c) \/ Answer(c) \/ Reject(c) \/ WireFault(c) \/ Retry(c)

Next == Tick \/ Kinit \/ \E c \in Callers : Call(c) \/ Step(c)

Spec == Init /\ [][Next]_vars

(* Every request ends and every thread goes on; a thread gets a lock that  *)
(* is released time and again.                                             *)
FairSpec ==
    Spec /\ \A c \in Callers : WF_vars(Step(c)) /\ SF_vars(TakesLock(c))

-----------------------------------------------------------------------------
RequestsTypeOK ==
    /\ at \in [Callers -> Nat] /\ \A c \in Callers : at[c] \in 1 .. Requests[c]
    /\ DOMAIN ran = Callers
    /\ \A c \in Callers : ran[c] \in [1 .. Requests[c] -> Nat]
    /\ faults \in [Callers -> Nat]

TypeOK ==
    /\ keytab \in YesNo
    /\ ticket \in 0 .. Lifetime /\ cached \in Unset .. Lifetime
    /\ bsys \in Sessions \cup {NoSession}
    /\ open \subseteq Sessions /\ loggedIn \subseteq Sessions
    /\ lock \in Callers \cup {Free}
    /\ pc \in [Callers -> Phases]
    /\ using \in [Callers -> Sessions \cup {NoSession}]
    /\ renewal \in [Callers -> {"none", "soft", "hard"}]
    /\ failures \in [Callers -> 0 .. MaxRenewals]
    /\ tries \in [Callers -> 0 .. MaxTries]
    /\ RequestsTypeOK
    /\ sure \in [Callers -> YesNo]
    /\ waited \in [Callers -> 0 .. Threshold]

(* A request in flight is on the session of the moment, which is open and   *)
(* logged in, and nobody else has the lock: a renewal by another thread     *)
(* cannot close it underneath (_invoke_koji_sync, _renew_tgt_and_bsys_once).*)
RequestKeepsItsSession ==
    \A c \in Callers : using[c] # NoSession =>
        /\ using[c] = bsys /\ bsys \in open \cap loggedIn
        /\ lock = c

(* However often sessions are replaced, and renewals fail half-way, only   *)
(* the session of the moment is open (_recreate_bsys_sync).                *)
NoSessionLeak == open = {bsys} \ {NoSession}

(* What the threshold of 55 minutes is for: a call that found a ticket      *)
(* above it, in the credential cache or by the cached expiry, or renewed    *)
(* it, logs in with a live ticket when it is at Koji before that time has   *)
(* passed, whatever other threads do to the ticket and its cached expiry.   *)
TicketOutlivesTheWait ==
    \A c \in Callers :
        pc[c] \in Ready /\ sure[c] = "yes" /\ waited[c] < Threshold
            => ticket > 0

(* Koji carries out a request at most once more often than its call has met *)
(* faults on the wire, and as often as tries fit in the minute; when a call *)
(* returns, or sends a request, it has carried out each one before it       *)
(* (call_koji, _should_retry_koji_exception).                              *)
RepeatsAreFaults ==
    \A c \in Callers : \A i \in 1 .. Requests[c] :
        /\ ran[c][i] <= faults[c] + 1 /\ ran[c][i] <= MaxTries
        /\ pc[c] = "returned" \/ i < at[c] => ran[c][i] >= 1

(* What the coroutines see of it: the session of the moment, whose request *)
(* is under way, and where their calls are.                                *)
SessionState == IF bsys = NoSession THEN "none"
                ELSE IF bsys \in loggedIn THEN "logged in" ELSE "open"
OnWire == IF \E c \in Callers : pc[c] = "call" THEN lock ELSE Free
CallState == [c \in Callers |-> IF pc[c] \in Ended THEN pc[c] ELSE "open"]

Service == INSTANCE KojiService WITH
    Nobody <- Free, session <- SessionState, onWire <- OnWire, call <- CallState

(* Whatever threads, renewals and faults are behind it, the requests of a   *)
(* call go out in order and alone, on a session that has logged in and is  *)
(* not replaced until they are over; a call that returns has had all its    *)
(* answers in one try, and only a fault on the wire makes it start over.   *)
ImplementsService == Service!Spec

(* Every call returns or raises, whoever has the lock and whatever fails.  *)
EveryCallEnds ==
    \A c \in Callers : pc[c] = "check" ~> pc[c] \in Ended
=============================================================================
