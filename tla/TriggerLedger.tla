--------------------------- MODULE TriggerLedger ---------------------------
(***************************************************************************)
(* What the trigger pipeline as a whole promises, told by its table of     *)
(* triggers alone: no consumer, no phases, no crash.  An event is awaited  *)
(* until the table holds it or ELN has no use for it.  Rows appear in any  *)
(* order, whatever their created_at.  The table is read between two sets   *)
(* of builds; what is submitted, as one set, are rows that no pending row  *)
(* read with them supersedes and whose older ones, of those read with      *)
(* them, are retired, and never a source that was denied.  Denied is what  *)
(* failed in the set under way.  Between two sets rows are retired, the    *)
(* oldest that were read first, each for a reason, and for good.           *)
(* BuildTriggers implements this.                                          *)
(***************************************************************************)
EXTENDS Integers, Sequences

CONSTANTS Builds, Tags, CompOf, Eligible, ScmUrl, NoUrl

VARIABLES
    announced,  \* the events Koji has published
    awaited,    \* those the broker will offer again until they are settled
    clock,      \* the last created_at given out
    rows,       \* build_trigger, in the order the rows appeared
    unresolved, \* rows given up because Koji named no source
    denylist,   \* sources that failed for good
    batch       \* the rows whose builds are under way

vars == <<announced, awaited, clock, rows, unresolved, denylist, batch>>

Ids == DOMAIN rows
SameComp(i, j) == CompOf[rows[i].build] = CompOf[rows[j].build]
Url(i) == ScmUrl[rows[i].build]

(* Row i is the older one of one component; row i was there when j was     *)
(* last read while it was pending.                                         *)
OlderOf(i, j) == rows[i].at < rows[j].at /\ SameComp(i, j)
ReadWith(i, j) == i <= rows[j].seen

OlderRetired(i) ==
    \A j \in Ids : OlderOf(j, i) /\ ReadWith(j, i) => rows[j].done
Superseded(i) == \E j \in Ids : OlderOf(i, j) /\ ReadWith(j, i)

(* A newer row is either one that was not there to be read, and has not    *)
(* been submitted, or was retired before this one could be read with it.   *)
Latest(i) ==
    \A j \in Ids : OlderOf(i, j) =>
        IF ReadWith(j, i) THEN rows[j].done /\ ~ReadWith(i, j)
                          ELSE rows[j].runs = 0

Init ==
    /\ announced = {} /\ awaited = {}
    /\ clock = 0 /\ rows = <<>> /\ unresolved = {}
    /\ denylist = {} /\ batch = {}

Announce(m) ==
    /\ m \in Tags \ announced
    /\ announced' = announced \cup {m}
    /\ awaited' = awaited \cup {m}
    /\ UNCHANGED <<clock, rows, unresolved, denylist, batch>>

(* An event of no interest, or one whose row is committed, is let go.      *)
Settle(m) ==
    /\ m \in awaited
    /\ CompOf[m] \notin Eligible \/ \E i \in Ids : rows[i].build = m
    /\ awaited' = awaited \ {m}
    /\ UNCHANGED <<announced, clock, rows, unresolved, denylist, batch>>

(* A created_at is given out; the row that gets it may appear, or not.     *)
Begin ==
    /\ clock' = clock + 1
    /\ UNCHANGED <<announced, awaited, rows, unresolved, denylist, batch>>

(* A row for an event, or for a build that was rebuilt by hand, appears.   *)
Insert(b, t) ==
    /\ b \in announced \/ b \in Builds \ Tags
    /\ CompOf[b] \in Eligible
    /\ \A i \in Ids : rows[i].at # t
    /\ rows' = Append(rows, [build |-> b, at |-> t, done |-> FALSE,
                             runs |-> 0, seen |-> 0])
    /\ UNCHANGED <<announced, awaited, clock, unresolved, denylist, batch>>

(* The table is read: of each pending row it is known what else was there. *)
Read ==
    /\ batch = {}
    /\ rows' = [i \in Ids |-> IF rows[i].done THEN rows[i]
                              ELSE [rows[i] EXCEPT !.seen = Len(rows)]]
    /\ UNCHANGED <<announced, awaited, clock, unresolved, denylist, batch>>

Submit(S) ==
    /\ batch = {} /\ S \subseteq Ids
    /\ \A i \in S :
          /\ ~rows[i].done
          /\ ReadWith(i, i)
          /\ OlderRetired(i) /\ Latest(i)
          /\ Url(i) # NoUrl /\ Url(i) \notin denylist
    /\ batch' = S
    /\ rows' = [i \in Ids |-> IF i \in S
                              THEN [rows[i] EXCEPT !.runs = @ + 1]
                              ELSE rows[i]]
    /\ UNCHANGED <<announced, awaited, clock, unresolved, denylist>>

(* Of the rows under way, those in F have failed for good.                 *)
Deny(F) ==
    /\ F \subseteq batch
    /\ denylist' = denylist \cup {Url(i) : i \in F}
    /\ batch' = {}
    /\ UNCHANGED <<announced, awaited, clock, rows, unresolved>>

(* The builds under way are abandoned, or none of them failed.             *)
Abandon ==
    /\ batch' = {}
    /\ UNCHANGED <<announced, awaited, clock, rows, unresolved, denylist>>

Retire(i) ==
    /\ batch = {}
    /\ i \in Ids /\ ~rows[i].done /\ ReadWith(i, i) /\ OlderRetired(i)
    /\ \/ /\ rows[i].runs > 0 \/ Superseded(i) \/ Url(i) \in denylist
          /\ UNCHANGED unresolved
       \/ unresolved' = unresolved \cup {i}
    /\ rows' = [rows EXCEPT ![i].done = TRUE]
    /\ UNCHANGED <<announced, awaited, clock, denylist, batch>>

Next ==
    \/ \E m \in Tags : Announce(m) \/ Settle(m)
    \/ Begin
    \/ \E b \in Builds, t \in 1 .. clock : Insert(b, t)
    \/ Read
    \/ \E S \in SUBSET Ids : Submit(S)
    \/ \E F \in SUBSET batch : Deny(F)
    \/ Abandon
    \/ \E i \in Ids : Retire(i)

Spec == Init /\ [][Next]_vars
=============================================================================
