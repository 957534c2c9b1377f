---------------------------- MODULE AccessGrants ----------------------------
(***************************************************************************)
(* What the web interface promises about who gets in: a token leads to one *)
(* session at most, a session has one life, and a protected request is let *)
(* in at a moment when its session is alive and that of an administrator.  *)
(* The rebuild that was promised to one is owed until it is done, unless   *)
(* the process dies, which forgets the tokens and the requests and not the *)
(* sessions.  There are no callbacks, awaits, rows or clean-ups here;      *)
(* Sessions, which has them, implements this specification.                *)
(***************************************************************************)
CONSTANTS Tokens, Sessions, Requests, NoSession

VARIABLES
    token,    \* void, issued, redeemed (at the provider), or used
    life,     \* of a session: unused, live, over
    admins,   \* sessions of administrators
    admitted, \* the session that a request was let in with, or NoSession
    work      \* of a request: none, owed, done, or died with the process

vars == <<token, life, admins, admitted, work>>

Init ==
    /\ token = [f \in Tokens |-> "void"]
    /\ life = [s \in Sessions |-> "unused"] /\ admins = {}
    /\ admitted = [r \in Requests |-> NoSession]
    /\ work = [r \in Requests |-> "none"]

(* A login, which may forget tokens that nobody came back with.            *)
Issue(f) ==
    /\ token[f] \in {"void", "used"}
    /\ \E F \in SUBSET {g \in Tokens \ {f} : token[g] = "issued"} :
          token' = [g \in Tokens |-> IF g = f THEN "issued"
                                     ELSE IF g \in F THEN "void" ELSE token[g]]
    /\ UNCHANGED <<life, admins, admitted, work>>

Redeem(f) ==
    /\ token[f] = "issued"
    /\ token' = [token EXCEPT ![f] = "redeemed"]
    /\ UNCHANGED <<life, admins, admitted, work>>

(* It is too old, or the provider or the database fails.                   *)
Spoil(f) ==
    /\ token[f] \in {"issued", "redeemed"}
    /\ token' = [token EXCEPT ![f] = "void"]
    /\ UNCHANGED <<life, admins, admitted, work>>

Grant(f, s) ==
    /\ token[f] = "redeemed" /\ life[s] = "unused"
    /\ token' = [token EXCEPT ![f] = "used"]
    /\ life' = [life EXCEPT ![s] = "live"]
    /\ admins' \in {admins, admins \cup {s}}
    /\ UNCHANGED <<admitted, work>>

(* It expires, or its user logs out.                                       *)
EndSession(s) ==
    /\ life[s] = "live"
    /\ life' = [life EXCEPT ![s] = "over"]
    /\ UNCHANGED <<token, admins, admitted, work>>

Admit(r, s) ==
    /\ admitted[r] = NoSession /\ work[r] # "owed"
    /\ life[s] = "live" /\ s \in admins
    /\ admitted' = [admitted EXCEPT ![r] = s]
    /\ UNCHANGED <<token, life, admins, work>>

(* It is answered with an error, or makes room for the next request.       *)
Leave(r) ==
    /\ work[r] # "owed"
    /\ admitted' = [admitted EXCEPT ![r] = NoSession]
    /\ UNCHANGED <<token, life, admins, work>>

Promise(r) ==
    /\ admitted[r] # NoSession /\ work[r] # "owed"
    /\ work' = [work EXCEPT ![r] = "owed"]
    /\ UNCHANGED <<token, life, admins, admitted>>

Fulfil(r) ==
    /\ work[r] = "owed"
    /\ work' = [work EXCEPT ![r] = "done"]
    /\ UNCHANGED <<token, life, admins, admitted>>

Restart ==
    /\ token' = [f \in Tokens |-> IF token[f] = "used" THEN "used" ELSE "void"]
    /\ admitted' = [r \in Requests |-> NoSession]
    /\ work' = [r \in Requests |-> IF work[r] = "owed" THEN "died" ELSE work[r]]
    /\ UNCHANGED <<life, admins>>

Next ==
    \/ \E f \in Tokens : \/ Issue(f) \/ Redeem(f) \/ Spoil(f)
                         \/ \E s \in Sessions : Grant(f, s)
    \/ \E s \in Sessions : EndSession(s)
    \/ \E r \in Requests : \/ \E s \in Sessions : Admit(r, s)
                           \/ Leave(r) \/ Promise(r) \/ Fulfil(r)
    \/ Restart

Spec == Init /\ [][Next]_vars
=============================================================================
