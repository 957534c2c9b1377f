------------------------------ MODULE BatchRun ------------------------------
(***************************************************************************)
(* What RebuildBatch.run() promises to process_message_batch, which awaits *)
(* it: what fails is recorded at one moment, before anything is published, *)
(* and was not built by then; only what was built is published, and no     *)
(* build twice; when run() has returned or raised it does nothing more.    *)
(* RebuildBatch implements this specification, and BuildTriggers takes it  *)
(* for granted: Record and End are its RecordFailures and RunEnds.         *)
(*                                                                         *)
(* The promise is about builds.  The denylist holds URLs: a URL that two   *)
(* components share may be built for one and denied because of the other.  *)
(***************************************************************************)
CONSTANT Builds  \* of the batch, each with a field url

VARIABLES
    phase,
    built,     \* the builds that succeeded
    denylist,  \* the URLs recorded by this run
    published  \* sets of builds sent to the stable tag together

vars == <<phase, built, denylist, published>>

Init ==
    /\ phase = "run"
    /\ built = {} /\ denylist = {} /\ published = {}

(* An attempt is over; B succeeded in it.                                  *)
Build(B) ==
    /\ phase = "run"
    /\ built' = built \cup B
    /\ UNCHANGED <<phase, denylist, published>>

(* The builds in F have failed for good.                                   *)
Record(F) ==
    /\ phase = "run" /\ phase' = "finalize"
    /\ F \cap built = {}
    /\ denylist' = {b.url : b \in F}
    /\ UNCHANGED <<built, published>>

(* The builds in P go to the stable tag together.                          *)
Publish(P) ==
    /\ phase = "finalize" /\ P # {}
    /\ P \subseteq built \ UNION published
    /\ published' = published \cup {P}
    /\ UNCHANGED <<phase, built, denylist>>

(* run() returns, or an exception leaves it.                               *)
End ==
    /\ phase # "over" /\ phase' = "over"
    /\ UNCHANGED <<built, denylist, published>>

Next ==
    \/ \E S \in SUBSET Builds : Build(S) \/ Record(S) \/ Publish(S)
    \/ End

Spec == Init /\ [][Next]_vars
=============================================================================
