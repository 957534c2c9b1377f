---------------------------- MODULE SideTagOffer ----------------------------
(***************************************************************************)
(* What _create_and_populate_side_tag promises to the batch that awaits    *)
(* it, told by Koji's tags alone: no Futures, no messages, no poll.  One   *)
(* tag at a time is in hand.  It is new and empty when it is taken up, it  *)
(* is handed out when each build is in it or in a tag it inherits from,    *)
(* whatever became of the tagging of the latter, and otherwise removed     *)
(* before the next one is asked for; no other tag is ever removed, and     *)
(* once the tag is handed out, or the preparation has failed, nothing      *)
(* happens to the tags but that Koji works off what it was asked to do.    *)
(* SideTags implements this; PrepareSideTag of BuildTriggers and           *)
(* CreateErrataTag of RebuildBatch take it for granted.                    *)
(***************************************************************************)
CONSTANTS Nvrs, BaseBuilds, Tags, NoTag

VARIABLES
    phase,    \* "preparing", then "ready" or "failed"
    inHand,   \* the tag being prepared or handed out, or NoTag
    existing, \* the side-tags Koji knows
    tagged,   \* pairs of a tag and a build that is, or was, in it
    inherited \* builds that are, or were, in the base tags

vars == <<phase, inHand, existing, tagged, inherited>>

New(t) ==
    /\ t \in Tags \ existing
    /\ \A n \in Nvrs : <<t, n>> \notin tagged

Init ==
    /\ phase = "preparing" /\ inHand = NoTag
    /\ existing = {} /\ tagged = {} /\ inherited \in SUBSET BaseBuilds

(* A side-tag without initial builds is ready as it is created.            *)
Take(t) ==
    /\ phase = "preparing" /\ inHand = NoTag
    /\ New(t)
    /\ inHand' = t
    /\ existing' = existing \cup {t}
    /\ phase' = IF Nvrs = {} THEN "ready" ELSE "preparing"
    /\ UNCHANGED <<tagged, inherited>>

(* Koji creates a tag whose name EBS never learns.                         *)
Lose(t) ==
    /\ phase = "preparing" /\ inHand = NoTag
    /\ New(t)
    /\ existing' = existing \cup {t}
    /\ UNCHANGED <<phase, inHand, tagged, inherited>>

(* Builds enter tags that exist, whatever became of the preparation.       *)
Fill(t, n) ==
    /\ t \in existing
    /\ tagged' = tagged \cup {<<t, n>>}
    /\ UNCHANGED <<phase, inHand, existing, inherited>>

Inherit(n) ==
    /\ inherited' = inherited \cup {n}
    /\ UNCHANGED <<phase, inHand, existing, tagged>>

GiveUp ==
    /\ phase = "preparing" /\ inHand # NoTag
    /\ existing' = existing \ {inHand}
    /\ inHand' = NoTag
    /\ UNCHANGED <<phase, tagged, inherited>>

HandOut ==
    /\ phase = "preparing"
    /\ inHand \in existing
    /\ \A n \in Nvrs : <<inHand, n>> \in tagged \/ n \in inherited
    /\ phase' = "ready"
    /\ UNCHANGED <<inHand, existing, tagged, inherited>>

(* An exception leaves, or the process dies: what was in hand is left.     *)
Fail ==
    /\ phase = "preparing"
    /\ phase' = "failed" /\ inHand' = NoTag
    /\ UNCHANGED <<existing, tagged, inherited>>

Next ==
    \/ \E t \in Tags : Take(t) \/ Lose(t)
    \/ \E t \in Tags, n \in Nvrs : Fill(t, n)
    \/ \E n \in BaseBuilds : Inherit(n)
    \/ GiveUp \/ HandOut \/ Fail

Spec == Init /\ [][Next]_vars
=============================================================================
