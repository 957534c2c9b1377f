------------------------------ MODULE SideTags ------------------------------
(***************************************************************************)
(* How a side-tag is prepared: RebuildBatch._create_and_populate_side_tag, *)
(* SideTag.create and the waits for builds to appear in a tag.             *)
(*                                                                         *)
(* Koji creates the side-tag and tags the initial builds into it, each by  *)
(* a task of its own.  EBS waits for them through state.pending_nvr_tags,  *)
(* which holds a Future for every pair of tag and NVR.  A Future is        *)
(* settled by a buildsys.tag message, which is lost when it comes before   *)
(* the registration, or by the check_tags poll, which also lists what the  *)
(* tag inherits from its base tag; the wait has a timeout.                 *)
(* When a build does not appear in time, the tasks are canceled, the tag   *)
(* is removed and everything starts over.                                  *)
(*                                                                         *)
(* One process_message_batch runs at a time, so only one tag is waited for *)
(* at any moment.                                                          *)
(***************************************************************************)
EXTENDS Integers, FiniteSets

CONSTANTS
    Nvrs,       \* the builds to tag
    BaseBuilds, \* those that the base tags may hold
    MaxTags,    \* bound on the side-tags Koji creates
    MaxFaults   \* bound on failed calls and crashes

ASSUME BaseAssumption == BaseBuilds \subseteq Nvrs
ASSUME BoundAssumption == MaxTags \in Nat /\ MaxFaults \in Nat

Tags == 1 .. MaxTags
Keys == Tags \X Nvrs
NoTag == 0

VARIABLES
    patient,   \* Koji does all it is asked to well before any timeout
    inherited, \* builds that are, or were, in the base tags
    \* Koji
    created,  \* side-tags created so far, numbered in that order
    existing, \* those that were not removed
    tagging,  \* tag and build of every tagging task that is open
    tagged,   \* and of those that succeeded
    bus,      \* buildsys.tag messages in flight
    \* SideTag._prepare and wait_for_nvrs_in_tag
    pc,
    tag,      \* name
    pending,  \* keys of state.pending_nvr_tags
    future,   \* the Future of each key
    expired,  \* keys whose wait_for timer has fired
    waiter,   \* where each wait_for_registered_nvr_tag stands
    \* check_tags
    asked,    \* the tag whose listing it awaits
    watched,  \* the builds that were pending when it asked
    poll,     \* where it stands
    listing,  \* the answer, once it has come
    \* bound
    faults

outside  == <<patient, inherited>>
kojiVars == <<created, existing, tagging, tagged, bus>>
waitVars == <<pending, future, expired, waiter>>
pollVars == <<asked, watched, poll, listing>>
vars == <<outside, kojiVars, pc, tag, waitVars, pollVars, faults>>

Phases == {"create", "infos", "tag", "register", "wait", "cancel", "remove",
           "ready", "failed"}
FutureStates == {"none", "pending", "success", "cancelled"}
PollStates == {"idle", "asking", "answered"}
WaiterStates == {"none", "waiting", "success", "timeout"}

Fault == faults < MaxFaults /\ faults' = faults + 1

(* Keys of the tag that is being prepared.                                 *)
Key(n) == <<tag, n>>

(* A tag holds what was tagged into it and what it inherits, which         *)
(* listTagged(latest=False, inherit=True) does not tell apart.             *)
InTag(k) == k \in tagged \/ k[2] \in inherited

Init ==
    /\ patient \in BOOLEAN /\ inherited \in SUBSET BaseBuilds
    /\ created = 0 /\ existing = {}
    /\ tagging = {} /\ tagged = {} /\ bus = {}
    /\ pc = "create" /\ tag = NoTag
    /\ pending = {} /\ future = [k \in Keys |-> "none"] /\ expired = {}
    /\ waiter = [n \in Nvrs |-> "none"]
    /\ asked = NoTag /\ watched = {} /\ listing = {} /\ poll = "idle"
    /\ faults = 0

-----------------------------------------------------------------------------
(* Koji                                                                    *)

(* A build enters a tag; its message may never be sent.                    *)
BuildTagged(k) ==
    /\ k \in tagging
    /\ tagging' = tagging \ {k}
    /\ tagged' = tagged \cup {k}
    /\ bus' \in {bus, bus \cup {k}}
    /\ UNCHANGED <<outside, created, existing, pc, tag, waitVars, pollVars,
                   faults>>

TaggingFails(k) ==
    /\ ~patient /\ k \in tagging
    /\ tagging' = tagging \ {k}
    /\ UNCHANGED <<outside, created, existing, tagged, bus, pc, tag, waitVars,
                   pollVars, faults>>

(* A build enters a base tag: no message for the side-tag.                 *)
BaseTagged(n) ==
    /\ n \in BaseBuilds \ inherited
    /\ inherited' = inherited \cup {n}
    /\ UNCHANGED <<patient, kojiVars, pc, tag, waitVars, pollVars, faults>>

-----------------------------------------------------------------------------
(* SideTag._prepare                                                        *)

NewTag ==
    /\ created < MaxTags
    /\ created' = created + 1
    /\ existing' = existing \cup {created + 1}

CreateSideTag ==
    /\ pc = "create"
    /\ NewTag
    /\ tag' = created + 1
    /\ pc' = IF Nvrs = {} THEN "ready" ELSE "infos"
    /\ waiter' = [n \in Nvrs |-> "none"]
    /\ UNCHANGED <<outside, tagging, tagged, bus, pending, future, expired,
                   pollVars, faults>>

(* Koji's answer is lost and call_koji asks again.                         *)
CreateSideTagRetried ==
    /\ pc = "create"
    /\ Fault
    /\ NewTag
    /\ UNCHANGED <<outside, tagging, tagged, bus, pc, tag, waitVars, pollVars>>

(* get_multi_buildinfo                                                     *)
GetInfos ==
    /\ pc = "infos"
    /\ pc' = "tag"
    /\ UNCHANGED <<outside, kojiVars, tag, waitVars, pollVars, faults>>

(* tag_builds: the tasks are there before it returns.                      *)
TagBuilds ==
    /\ pc = "tag"
    /\ tagging' = tagging \cup {Key(n) : n \in Nvrs}
    /\ pc' = "register"
    /\ UNCHANGED <<outside, created, existing, tagged, bus, tag, waitVars,
                   pollVars, faults>>

(* PendingNVRTags.push, for every build before any is awaited: a Future    *)
(* that is done is not used again.                                         *)
RegisterAll ==
    /\ pc = "register"
    /\ pc' = "wait"
    /\ pending' = pending \cup {Key(n) : n \in Nvrs}
    /\ future' = [k \in Keys |-> IF k[1] = tag THEN "pending" ELSE future[k]]
    /\ waiter' = [n \in Nvrs |-> "waiting"]
    /\ UNCHANGED <<outside, kojiVars, tag, expired, pollVars, faults>>

(* The Futures, once only pending_nvr_tags refers to them.                 *)
Dropped == [k \in Keys |-> IF k \in pending THEN future[k] ELSE "none"]

(* Mutant of Gathered: the tag that is given up is not removed.            *)
Gathered_LeavesTag ==
    /\ pc = "wait"
    /\ \A n \in Nvrs : waiter[n] \in {"success", "timeout"}
    /\ pc' = IF \A n \in Nvrs : waiter[n] = "success" THEN "ready" ELSE "create"
    /\ future' = Dropped
    /\ UNCHANGED <<outside, kojiVars, tag, pending, expired, waiter, pollVars,
                   faults>>

Gathered ==
    /\ pc = "wait"
    /\ \A n \in Nvrs : waiter[n] \in {"success", "timeout"}
    /\ pc' = IF \A n \in Nvrs : waiter[n] = "success" THEN "ready" ELSE "cancel"
    /\ future' = Dropped
    /\ UNCHANGED <<outside, kojiVars, tag, pending, expired, waiter, pollVars,
                   faults>>

(* cancel_tasks swallows its errors.                                       *)
CancelTasks ==
    /\ pc = "cancel"
    /\ pc' = "remove"
    /\ tagging' \in {tagging, {k \in tagging : k[1] # tag}}
    /\ UNCHANGED <<outside, created, existing, tagged, bus, tag, waitVars,
                   pollVars, faults>>

(* The tag is removed, no task can tag into it any more, and               *)
(* SideTagTimeoutError makes the caller start over.                        *)
RemoveSideTag ==
    /\ pc = "remove"
    /\ existing' = existing \ {tag}
    /\ tagging' = {k \in tagging : k[1] # tag}
    /\ pc' = "create"
    /\ UNCHANGED <<outside, created, tagged, bus, tag, waitVars, pollVars,
                   faults>>

(* A call fails for good: the exception leaves _create_and_populate_side_  *)
(* tag, and nobody removes the tag.  Some builds may be tagged all the     *)
(* same.                                                                   *)
CallRaises ==
    /\ pc \in {"create", "infos", "tag", "remove"}
    /\ Fault
    /\ pc' = "failed"
    /\ \E S \in SUBSET Nvrs :
          /\ S # {} => pc = "tag"
          /\ tagging' = tagging \cup {Key(n) : n \in S}
    /\ UNCHANGED <<outside, created, existing, tagged, bus, tag, waitVars,
                   pollVars>>

(* The process dies: a restart knows nothing of the tag.                   *)
Crash ==
    /\ pc \notin {"ready", "failed"}
    /\ Fault
    /\ pc' = "failed"
    /\ pending' = {} /\ expired' = {}
    /\ future' = [k \in Keys |-> "none"]
    /\ waiter' = [n \in Nvrs |-> "none"]
    /\ asked' = NoTag /\ watched' = {} /\ listing' = {} /\ poll' = "idle"
    /\ UNCHANGED <<outside, kojiVars, tag>>

-----------------------------------------------------------------------------
(* wait_for_registered_nvr_tag                                             *)

(* fire_task_callback                                                      *)
Fire(K) ==
    future' = [k \in Keys |-> IF k \in K /\ future[k] = "pending"
                              THEN "success" ELSE future[k]]

TimerFires(n) ==
    /\ ~patient
    /\ waiter[n] = "waiting" /\ Key(n) \notin expired
    /\ expired' = expired \cup {Key(n)}
    /\ future' = [future EXCEPT ![Key(n)] = IF @ = "pending" THEN "cancelled"
                                                            ELSE @]
    /\ UNCHANGED <<outside, kojiVars, pc, tag, pending, waiter, pollVars,
                   faults>>

WaiterReturns(n) ==
    /\ waiter[n] = "waiting" /\ Key(n) \notin expired
    /\ future[Key(n)] = "success"
    /\ waiter' = [waiter EXCEPT ![n] = "success"]
    /\ UNCHANGED <<outside, kojiVars, pc, tag, pending, future, expired,
                   pollVars, faults>>

(* Mutant of WaiterTimesOut: the canceled Future stays registered.         *)
WaiterTimesOut_KeepsKey(n) ==
    /\ waiter[n] = "waiting" /\ Key(n) \in expired
    /\ waiter' = [waiter EXCEPT ![n] = "timeout"]
    /\ expired' = expired \ {Key(n)}
    /\ UNCHANGED <<outside, kojiVars, pc, tag, pending, future, pollVars,
                   faults>>

WaiterTimesOut(n) ==
    /\ waiter[n] = "waiting" /\ Key(n) \in expired
    /\ waiter' = [waiter EXCEPT ![n] = "timeout"]
    /\ pending' = pending \ {Key(n)}
    /\ expired' = expired \ {Key(n)}
    /\ UNCHANGED <<outside, kojiVars, pc, tag, future, pollVars, faults>>

-----------------------------------------------------------------------------
(* listener._handle_awaited_tag                                            *)

(* Mutant of DeliverMessage: a build is looked up by its NVR alone.        *)
DeliverMessage_AnyTag(k) ==
    /\ k \in bus
    /\ bus' \in {bus, bus \ {k}}
    /\ \E j \in pending : j[2] = k[2] /\ pending' = pending \ {j} /\ Fire({j})
    /\ UNCHANGED <<outside, created, existing, tagging, tagged, pc, tag,
                   expired, waiter, pollVars, faults>>

(* A message for a key that nobody waits for is dropped; it may come again.*)
DeliverMessage(k) ==
    /\ k \in bus
    /\ bus' \in {bus, bus \ {k}}
    /\ pending' = pending \ {k}
    /\ Fire({k} \cap pending)
    /\ UNCHANGED <<outside, created, existing, tagging, tagged, pc, tag,
                   expired, waiter, pollVars, faults>>

-----------------------------------------------------------------------------
(* listener.check_tags                                                     *)

PollAsk ==
    /\ poll = "idle" /\ pending # {}
    /\ \E t \in Tags :
          /\ asked' = t
          /\ watched' = {n \in Nvrs : <<t, n>> \in pending}
    /\ watched' # {}
    /\ listing' = {} /\ poll' = "asking"
    /\ UNCHANGED <<outside, kojiVars, pc, tag, waitVars, faults>>

PollAnswered ==
    /\ poll = "asking" /\ asked \in existing
    /\ poll' = "answered"
    /\ listing' = {n \in Nvrs : InTag(<<asked, n>>)}
    /\ UNCHANGED <<outside, kojiVars, pc, tag, waitVars, asked, watched,
                   faults>>

(* Mutant of PollFires: all that was watched is unregistered.              *)
PollFires_ForgetsRest ==
    /\ poll = "answered"
    /\ LET found == {<<asked, n>> : n \in watched \cap listing} IN
          /\ pending' = pending \ {<<asked, n>> : n \in watched}
          /\ Fire(found \cap pending)
    /\ asked' = NoTag /\ watched' = {} /\ listing' = {} /\ poll' = "idle"
    /\ UNCHANGED <<outside, kojiVars, pc, tag, expired, waiter, faults>>

(* Builds that were watched, are listed, and nobody claimed meanwhile.     *)
PollFires ==
    /\ poll = "answered"
    /\ LET found == {<<asked, n>> : n \in watched \cap listing} IN
          /\ pending' = pending \ found
          /\ Fire(found \cap pending)
    /\ asked' = NoTag /\ watched' = {} /\ listing' = {} /\ poll' = "idle"
    /\ UNCHANGED <<outside, kojiVars, pc, tag, expired, waiter, faults>>

(* The listing fails, by a fault or because the tag was removed; the       *)
(* PeriodicTask logs it and polls again later.                             *)
PollRaises ==
    /\ poll = "asking"
    /\ asked \in existing => Fault
    /\ asked \notin existing => UNCHANGED faults
    /\ asked' = NoTag /\ watched' = {} /\ listing' = {} /\ poll' = "idle"
    /\ UNCHANGED <<outside, kojiVars, pc, tag, waitVars>>

-----------------------------------------------------------------------------
Prepare ==
    \/ CreateSideTag \/ GetInfos \/ TagBuilds \/ RegisterAll
    \/ Gathered \/ CancelTasks \/ RemoveSideTag

WaitStep(n) == WaiterReturns(n) \/ WaiterTimesOut(n)

PollStep == PollAsk \/ PollAnswered \/ PollFires

Next ==
    \/ Prepare \/ CreateSideTagRetried \/ CallRaises \/ Crash
    \/ \E n \in Nvrs : TimerFires(n) \/ WaitStep(n)
    \/ \E k \in tagging : BuildTagged(k) \/ TaggingFails(k)
    \/ \E n \in BaseBuilds : BaseTagged(n)
    \/ \E k \in bus : DeliverMessage(k)
    \/ PollStep \/ PollRaises

Spec == Init /\ [][Next]_vars

(* The event loop runs what is ready, check_tags is a PeriodicTask, and    *)
(* Koji works off its tasks.  Messages are owed nothing.                   *)
FairSpec ==
    /\ Spec
    /\ WF_vars(Prepare) /\ WF_vars(PollStep) /\ WF_vars(PollRaises)
    /\ \A n \in Nvrs : WF_vars(WaitStep(n)) /\ WF_vars(TimerFires(n))
    /\ WF_vars(\E k \in tagging : BuildTagged(k))

-----------------------------------------------------------------------------
(* Correctness                                                             *)

(* Every variable has its type.                                            *)
TypeOK ==
    /\ patient \in BOOLEAN /\ inherited \subseteq BaseBuilds
    /\ created \in 0 .. MaxTags
    /\ existing \subseteq 1 .. created
    /\ tagging \subseteq Keys /\ tagged \subseteq Keys
    /\ bus \subseteq tagged
    /\ pc \in Phases /\ tag \in 0 .. created
    /\ pending \subseteq Keys /\ expired \subseteq Keys
    /\ future \in [Keys -> FutureStates]
    /\ waiter \in [Nvrs -> WaiterStates]
    /\ asked \in 0 .. created
    /\ watched \subseteq Nvrs /\ listing \subseteq Nvrs
    /\ poll \in PollStates
    /\ poll = "idle" <=> asked = NoTag
    /\ faults \in 0 .. MaxFaults

(* A side-tag that is handed out exists and holds all the builds, its own  *)
(* or inherited, whatever messages and listings of the tags given up       *)
(* before it are still under way: the batch is built against it.           *)
ReadyMeansTagged ==
    pc = "ready" => tag \in existing /\ \A n \in Nvrs : InTag(Key(n))

(* What is left when only Koji's tags are looked at.                       *)
Offer == INSTANCE SideTagOffer WITH
    phase <- IF pc \in {"ready", "failed"} THEN pc ELSE "preparing",
    inHand <- IF pc \in {"create", "failed"} THEN NoTag ELSE tag

(* A preparation is what the batch and the publication take it for: of the *)
(* tags it goes through it has one in hand at a time, hands one out only   *)
(* when every build was tagged into this very one or is inherited by it,   *)
(* and removes only the one in hand; no build of a tag that was given up   *)
(* strays into the next; and nothing is created or removed once it is over.*)
ImplementsOffer == Offer!Spec

(* Whoever waits for an unsettled Future can be reached through            *)
(* pending_nvr_tags,                                                       *)
NoOrphan ==
    \A n \in Nvrs :
        waiter[n] = "waiting" /\ future[Key(n)] = "pending" => Key(n) \in pending

(* and nothing else is there: a Future that is left behind done would      *)
(* defeat a later wait, or keep the poll asking for a tag that is gone.    *)
NoStaleEntry ==
    \A k \in pending : pc = "wait" /\ k[1] = tag /\ waiter[k[2]] = "waiting"

(* pending_nvr_tags is what the waiters need, no less and no more.         *)
WaitsMatchEntries == NoOrphan /\ NoStaleEntry

(* Side-tags do not pile up: besides the one in use, each that is left     *)
(* over is due to a crash or a call that failed.                           *)
LeaksAccounted ==
    Cardinality(existing)
        <= faults + (IF pc \in {"create", "failed"} THEN 0 ELSE 1)

(* Every preparation ends, or starts over after a timeout; and when Koji    *)
(* tags the builds in time the side-tag gets ready, unless a call fails,    *)
(* even if all messages are lost or come before the registration.           *)
EventuallyReady ==
    <>(pc \in {"ready", "failed"} \/ (~patient /\ created = MaxTags))
=============================================================================
