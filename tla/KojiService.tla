---------------------------- MODULE KojiService ----------------------------
(***************************************************************************)
(* What call_koji promises to the coroutines that await it: Koji as one    *)
(* service that serves one call at a time, whatever threads, tickets and   *)
(* sessions are behind it.  A call sends its requests in order, on a       *)
(* session that has logged in and is replaced only while none is under      *)
(* way.  One that returns has had all its answers in one go; one that meets *)
(* a fault on the wire may start over, and only then is a request carried  *)
(* out again; one that has had an error, or all its answers, sends no more.*)
(* One that raises may have been carried out, in part or not at all.       *)
(* KojiConnection implements this specification.                           *)
(***************************************************************************)
EXTENDS Integers

CONSTANTS
    Callers, Nobody,
    Requests  \* how many a call of each caller sends

VARIABLES
    session, \* of the moment: none, open, or logged in
    onWire,  \* whose requests Koji is at work on, or Nobody
    call,    \* idle, open, returned or raised
    at,      \* the request it is at
    ran,     \* how often each of its requests has been carried out
    faults   \* on the wire, since it began

vars == <<session, onWire, call, at, ran, faults>>

Over == {"idle", "returned", "raised"}
NotRun(c) == [i \in 1 .. Requests[c] |-> 0]

Init ==
    /\ session = "none" /\ onWire = Nobody
    /\ call = [c \in Callers |-> "idle"]
    /\ at = [c \in Callers |-> 1]
    /\ ran = [c \in Callers |-> NotRun(c)]
    /\ faults = [c \in Callers |-> 0]

Begin(c) ==
    /\ call[c] \in Over
    /\ call' = [call EXCEPT ![c] = "open"]
    /\ ran' = [ran EXCEPT ![c] = NotRun(c)]
    /\ faults' = [faults EXCEPT ![c] = 0]
    /\ UNCHANGED <<session, onWire, at>>

(* The first session, or another one for the one in use.                   *)
Replace ==
    /\ onWire = Nobody
    /\ session' = "open"
    /\ UNCHANGED <<onWire, call, at, ran, faults>>

(* The session logs in unless it has, and the first request goes out.      *)
Send(c) ==
    /\ onWire = Nobody /\ session # "none"
    /\ call[c] = "open" /\ at[c] = 1
    /\ session' = "logged in"
    /\ onWire' = c
    /\ UNCHANGED <<call, at, ran, faults>>

CarriedOut(c, n) == ran' = [ran EXCEPT ![c][at[c]] = @ + n]

(* A request is answered, and the next one goes out.                       *)
Continue(c) ==
    /\ onWire = c /\ at[c] < Requests[c]
    /\ CarriedOut(c, 1)
    /\ at' = [at EXCEPT ![c] = @ + 1]
    /\ UNCHANGED <<session, onWire, call, faults>>

Leave(c, n) ==
    /\ onWire = c /\ onWire' = Nobody
    /\ CarriedOut(c, n)
    /\ at' = [at EXCEPT ![c] = 1]
    /\ UNCHANGED session

Complete(c) ==
    /\ at[c] = Requests[c]
    /\ Leave(c, 1)
    /\ call' = [call EXCEPT ![c] = "returned"]
    /\ UNCHANGED faults

Refuse(c) ==
    /\ \E n \in 0 .. 1 : Leave(c, n)
    /\ call' = [call EXCEPT ![c] = "raised"]
    /\ UNCHANGED faults

(* A fault on the wire, before or after Koji carried out the request.      *)
Lose(c) ==
    /\ \E n \in 0 .. 1 : Leave(c, n)
    /\ faults' = [faults EXCEPT ![c] = @ + 1]
    /\ UNCHANGED call

(* No ticket, no login, or the minute is over.                             *)
GiveUp(c) ==
    /\ onWire # c /\ call[c] = "open"
    /\ call' = [call EXCEPT ![c] = "raised"]
    /\ UNCHANGED <<session, onWire, at, ran, faults>>

Next ==
    \/ Replace
    \/ \E c \in Callers :
          \/ Begin(c) \/ Send(c) \/ Continue(c)
          \/ Complete(c) \/ Refuse(c) \/ Lose(c) \/ GiveUp(c)

Spec == Init /\ [][Next]_vars
=============================================================================
