---------------------------- MODULE RebuildBatch ----------------------------
(***************************************************************************)
(* RebuildBatch.run(): what a batch does between its side-tag and its end. *)
(*                                                                         *)
(* The triggers are split into slices by config.get_order, and the slices  *)
(* run one after the other.  A slice (RebuildBatchSlice.run) submits all   *)
(* its URLs, waits for every verdict (RebuildAttempt; how a verdict comes  *)
(* about is in TaskWaits), and submits those that failed again until the   *)
(* number of failures no longer drops.  Then the failures are recorded in  *)
(* the denylist and mailed, and the builds that succeeded are promoted and *)
(* published, through Bodhi or by tagging.                                 *)
(*                                                                         *)
(* An exception anywhere ends the run; process_message_batch logs it and   *)
(* marks the triggers completed all the same (BuildTriggers).              *)
(*                                                                         *)
(* Components may share an SCM URL.  In different slices it is built twice *)
(* over, so that a build here is a URL in a slice.  In one slice it is     *)
(* submitted once per component, but start_builds keeps the last task of   *)
(* each URL: the others are neither awaited nor published, and the slice   *)
(* has one build of it.                                                    *)
(***************************************************************************)
EXTENDS Integers, FiniteSets

CONSTANTS
    Triggers,  \* of the batch, one per component
    Urls,
    ScmUrl,    \* the SCM URL of each trigger
    NumSlices,
    Order,     \* the slice get_order puts each trigger into
    Routes,    \* the ways of publishing the configuration may choose from
    BatchSize, MaxSingle, \* bodhi.batch_size, bodhi.max_single_batch_size
    MaxFaults  \* bound on failures of Koji, the database and Bodhi

Builds == {[slice |-> Order[t], url |-> ScmUrl[t]] : t \in Triggers}
SliceBuilds(k) == {b \in Builds : b.slice = k}
UrlsOf(B) == {b.url : b \in B}

(* prev_failures before the first retry: "since we will never have that    *)
(* many packages, let alone failures".                                     *)
TenMillion == 10000000

ASSUME TriggersAssumption == /\ IsFiniteSet(Triggers)
                             /\ Cardinality(Triggers) < TenMillion
                             /\ ScmUrl \in [Triggers -> Urls]
ASSUME SliceAssumption == /\ NumSlices \in Nat \ {0}
                          /\ Order \in [Triggers -> 1 .. NumSlices]
                          /\ \A k \in 1 .. NumSlices : SliceBuilds(k) # {}
ASSUME RouteAssumption == Routes \subseteq {"bodhi", "tagging", "scratch"}
(* config/static.py lets a negative batch_size pass; no run does.          *)
ASSUME SizeAssumption == BatchSize \in Nat /\ MaxSingle \in Nat
ASSUME FaultAssumption == MaxFaults \in Nat

VARIABLES
    emailer,   \* config.emailer is not None
    route,     \* scratch, or config.main["bodhi"] given or False
    pc,
    \* the slice that runs
    slice,
    attempt,   \* the builds of its RebuildAttempt
    verdict,   \* what wait_for_tasks knows of their tasks
    prev,      \* prev_failures
    \* what run() has gathered
    successes, \* all_successes
    failures,  \* the builds whose URLs are in all_failures
    nameless,  \* whether all_failures holds a None
    \* what outlives it
    denylist,  \* the URLs in failed_builds
    sideTag,   \* the build side-tag exists
    published, \* sets of builds that were sent to the stable tag together
    \* publication
    todo,      \* builds the loop or the wait in progress has still to see
    nvrs,      \* build_nvrs
    errata,    \* builds promoted for the update in progress
    \* history and bounds
    fails,     \* how often each build has failed
    attempts,  \* RebuildAttempts of the slice so far
    refused,   \* builds Koji would not promote
    faults

config    == <<emailer, route>>
sliceVars == <<slice, attempt, verdict, prev, attempts, fails>>
runVars   == <<successes, failures, nameless>>
pubVars   == <<published, todo, nvrs, errata, refused>>
vars == <<config, pc, sliceVars, runVars, denylist, sideTag, pubVars, faults>>

Verdicts == {"success", "failed", "unknown", "timeout"}
Phases == {"submit", "wait", "record", "notify", "collect", "promote",
           "errata", "populate", "update", "tag", "stable", "remove",
           "done", "aborted"}

Fault == faults < MaxFaults /\ faults' = faults + 1

(* The failures of the attempt that name their request, and those that do  *)
(* not: the data of a timeout, or of a poll that failed, holds None.       *)
Named    == {b \in attempt : verdict[b] = "failed"}
Nameless == {b \in attempt : verdict[b] \in {"unknown", "timeout"}}
NumFailures == Cardinality(Named \cup Nameless)

Init ==
    /\ emailer \in BOOLEAN /\ route \in Routes
    /\ pc = "submit" /\ slice = 1 /\ attempt = SliceBuilds(1)
    /\ verdict = [b \in Builds |-> "waiting"]
    /\ prev = TenMillion /\ attempts = 1
    /\ fails = [b \in Builds |-> 0]
    /\ successes = {} /\ failures = {} /\ nameless = FALSE
    /\ denylist = {} /\ sideTag = TRUE
    /\ published = {} /\ todo = {} /\ nvrs = {} /\ errata = {} /\ refused = {}
    /\ faults = 0

-----------------------------------------------------------------------------
(* The slices                                                              *)

(* start_builds                                                            *)
StartBuilds ==
    /\ pc = "submit"
    /\ pc' = "wait"
    /\ verdict' = [b \in Builds |-> "waiting"]
    /\ UNCHANGED <<config, slice, attempt, prev, attempts, fails, runVars,
                   denylist, sideTag, pubVars, faults>>

(* A task of the attempt gets its verdict.                                 *)
TaskEnds(b, v) ==
    /\ pc = "wait"
    /\ b \in attempt /\ verdict[b] = "waiting"
    /\ verdict' = [verdict EXCEPT ![b] = v]
    /\ UNCHANGED <<config, pc, slice, attempt, prev, attempts, fails, runVars,
                   denylist, sideTag, pubVars, faults>>

(* async_await returns: what it brought is kept.                           *)
AttemptReturns ==
    /\ pc = "wait"
    /\ \A b \in attempt : verdict[b] # "waiting"
    /\ successes' = successes \cup {b \in attempt : verdict[b] = "success"}
    /\ fails' = [b \in Builds |-> IF b \in Named THEN fails[b] + 1
                                               ELSE fails[b]]

(* Mutant of WorthRetrying: a lone failure is not tried again.             *)
WorthRetrying_NotAlone ==
    /\ NumFailures > 1 /\ NumFailures < prev
    /\ NumFailures - Cardinality(Nameless) > 0

(* Mutant of WorthRetrying: the loop does not compare with prev_failures.  *)
WorthRetrying_Always == NumFailures - Cardinality(Nameless) > 0

(* Mutant of WorthRetrying: one build less is not enough to go on.         *)
WorthRetrying_StopsEarly ==
    /\ NumFailures > 0 /\ NumFailures < prev - 1
    /\ NumFailures - Cardinality(Nameless) > 0

(* The condition of the retry loop, and of the break inside it.            *)
WorthRetrying ==
    /\ NumFailures > 0 /\ NumFailures < prev
    /\ NumFailures - Cardinality(Nameless) > 0

(* What failed with a name is submitted again.                             *)
Retry ==
    /\ AttemptReturns
    /\ WorthRetrying
    /\ pc' = "submit"
    /\ attempt' = Named
    /\ prev' = NumFailures - Cardinality(Nameless)
    /\ attempts' = attempts + 1
    /\ UNCHANGED <<config, slice, verdict, failures, nameless, denylist,
                   sideTag, pubVars, faults>>

(* Mutant of SliceEnds: each slice records its own failures.               *)
SliceEnds_Records ==
    /\ AttemptReturns
    /\ ~WorthRetrying
    /\ failures' = failures \cup Named
    /\ nameless' = (nameless \/ Nameless # {})
    /\ denylist' = denylist \cup UrlsOf(Named)
    /\ \/ /\ slice < NumSlices
          /\ slice' = slice + 1
          /\ attempt' = SliceBuilds(slice + 1)
          /\ prev' = TenMillion
          /\ attempts' = 1
          /\ pc' = "submit"
       \/ /\ slice = NumSlices
          /\ pc' = "record"
          /\ UNCHANGED <<slice, attempt, prev, attempts>>
    /\ UNCHANGED <<config, verdict, sideTag, pubVars, faults>>

(* The slice gives up on what is left; the next one starts, or none is     *)
(* left.                                                                   *)
SliceEnds ==
    /\ AttemptReturns
    /\ ~WorthRetrying
    /\ failures' = failures \cup Named
    /\ nameless' = (nameless \/ Nameless # {})
    /\ \/ /\ slice < NumSlices
          /\ slice' = slice + 1
          /\ attempt' = SliceBuilds(slice + 1)
          /\ prev' = TenMillion
          /\ attempts' = 1
          /\ pc' = "submit"
       \/ /\ slice = NumSlices
          /\ pc' = "record"
          /\ UNCHANGED <<slice, attempt, prev, attempts>>
    /\ UNCHANGED <<config, verdict, denylist, sideTag, pubVars, faults>>

-----------------------------------------------------------------------------
(* The failures                                                            *)

(* record_failed_build_urls drops what is None, and a URL given twice.     *)
RecordFailures ==
    /\ pc = "record"
    /\ pc' = "notify"
    /\ denylist' = denylist \cup UrlsOf(failures)
    /\ UNCHANGED <<config, sliceVars, runVars, sideTag, pubVars, faults>>

(* The mail is built and sent; send_email swallows its errors.             *)
NotifyFailures ==
    /\ pc = "notify"
    /\ ~(emailer /\ nameless)
    /\ pc' = "collect"
    /\ todo' = successes
    /\ UNCHANGED <<config, sliceVars, runVars, denylist, sideTag, published,
                   nvrs, errata, refused, faults>>

(* Building the mail from a None raises TypeError, outside send_email.     *)
NotifyRaises ==
    /\ pc = "notify"
    /\ emailer /\ nameless
    /\ pc' = "aborted"
    /\ UNCHANGED <<config, sliceVars, runVars, denylist, sideTag, pubVars,
                   faults>>

-----------------------------------------------------------------------------
(* Publication                                                             *)

(* get_build_info_from_task                                                *)
CollectNvr(b) ==
    /\ pc = "collect" /\ b \in todo
    /\ todo' = todo \ {b}
    /\ nvrs' = nvrs \cup {b}
    /\ UNCHANGED <<config, pc, sliceVars, runVars, denylist, sideTag,
                   published, errata, refused, faults>>

(* Koji knows no build of the task: the build is left out.                 *)
NoBuildInfo(b) ==
    /\ pc = "collect" /\ b \in todo
    /\ Fault
    /\ todo' = todo \ {b}
    /\ UNCHANGED <<config, pc, sliceVars, runVars, denylist, sideTag,
                   published, nvrs, errata, refused>>

(* Scratch builds are not published, and there may be nothing to tag.      *)
Finalize ==
    /\ pc = "collect" /\ todo = {}
    /\ todo' = nvrs
    /\ \/ route = "scratch" /\ pc' = "remove"
       \/ route = "tagging" /\ nvrs = {} /\ pc' = "remove"
       \/ route = "tagging" /\ nvrs # {} /\ pc' = "tag"
       \/ route = "bodhi" /\ pc' = "promote"
    /\ UNCHANGED <<config, sliceVars, runVars, denylist, sideTag, published,
                   nvrs, errata, refused, faults>>

(* finalize_via_tagging: what Koji lets us promote goes to the stable tag. *)
TagDirectly(P) ==
    /\ pc = "tag"
    /\ P \in (SUBSET nvrs) \ {{}}
    /\ published' = published \cup {P}
    /\ refused' = nvrs \ P
    /\ todo' = P
    /\ pc' = "stable"
    /\ UNCHANGED <<config, sliceVars, runVars, denylist, sideTag, nvrs, errata,
                   faults>>

(* EmptyPromotionError                                                     *)
NothingToTag ==
    /\ pc = "tag"
    /\ refused' = nvrs
    /\ pc' = "aborted"
    /\ UNCHANGED <<config, sliceVars, runVars, denylist, sideTag, published,
                   todo, nvrs, errata, faults>>

(* _build_batch_generator                                                  *)
ChunkSize ==
    IF BatchSize = 0 \/ Cardinality(nvrs) <= MaxSingle
                     \/ Cardinality(todo) < BatchSize
    THEN Cardinality(todo) ELSE BatchSize

(* _process_batch: of the next chunk, P is promoted; if P is empty, the    *)
(* chunk is skipped.                                                       *)
PromoteChunk(S, P) ==
    /\ pc = "promote" /\ todo # {}
    /\ S \subseteq todo /\ Cardinality(S) = ChunkSize
    /\ P \subseteq S
    /\ todo' = todo \ S
    /\ refused' = refused \cup (S \ P)
    /\ errata' = P
    /\ pc' = IF P = {} THEN "promote" ELSE "errata"
    /\ UNCHANGED <<config, sliceVars, runVars, denylist, sideTag, published,
                   nvrs, faults>>

(* SideTag.create for the errata side-tag: it is there, and the builds are *)
(* being tagged into it.                                                   *)
CreateErrataTag ==
    /\ pc = "errata"
    /\ pc' = "populate"
    /\ UNCHANGED <<config, sliceVars, runVars, denylist, sideTag, pubVars,
                   faults>>

(* All of them have been seen in it.                                       *)
ErrataTagReady ==
    /\ pc = "populate"
    /\ pc' = "update"
    /\ UNCHANGED <<config, sliceVars, runVars, denylist, sideTag, pubVars,
                   faults>>

(* SideTagTimeoutError: the tag is removed again (SideTags) and the loop   *)
(* starts over, as often as that happens.                                  *)
ErrataTagTimesOut ==
    /\ pc = "populate"
    /\ pc' = "errata"
    /\ UNCHANGED <<config, sliceVars, runVars, denylist, sideTag, pubVars,
                   faults>>

(* Bodhi takes the update of the errata side-tag.                          *)
SubmitUpdate ==
    /\ pc = "update"
    /\ published' = published \cup {errata}
    /\ errata' = {}
    /\ pc' = "promote"
    /\ UNCHANGED <<config, sliceVars, runVars, denylist, sideTag, todo, nvrs,
                   refused, faults>>

(* What was promoted is awaited in the stable tag.                         *)
AllSubmitted ==
    /\ pc = "promote" /\ todo = {}
    /\ todo' = UNION published
    /\ pc' = "stable"
    /\ UNCHANGED <<config, sliceVars, runVars, denylist, sideTag, published,
                   nvrs, errata, refused, faults>>

(* Bodhi, or Koji, brings a build into the stable tag.                     *)
BuildArrives(b) ==
    /\ pc = "stable" /\ b \in todo
    /\ todo' = todo \ {b}
    /\ UNCHANGED <<config, pc, sliceVars, runVars, denylist, sideTag,
                   published, nvrs, errata, refused, faults>>

(* Mutant of StableTimeout: the builds share one timer, and the wait that  *)
(* is registered last has it.                                              *)
StableTimeout_Overwritten(b) ==
    /\ pc = "stable" /\ b \in todo
    /\ b = CHOOSE last \in UNION published : TRUE
    /\ todo' = todo \ {b}
    /\ UNCHANGED <<config, pc, sliceVars, runVars, denylist, sideTag,
                   published, nvrs, errata, refused, faults>>

(* Its timer ends the wait for it.                                         *)
StableTimeout(b) ==
    /\ pc = "stable" /\ b \in todo
    /\ todo' = todo \ {b}
    /\ UNCHANGED <<config, pc, sliceVars, runVars, denylist, sideTag,
                   published, nvrs, errata, refused, faults>>

(* wait_for_nvrs_in_tag returns; builds that did not arrive are only       *)
(* logged and mailed.                                                      *)
StableWaitEnds ==
    /\ pc = "stable" /\ todo = {}
    /\ pc' = "remove"
    /\ UNCHANGED <<config, sliceVars, runVars, denylist, sideTag, pubVars,
                   faults>>

RemoveSideTag ==
    /\ pc = "remove"
    /\ sideTag' = FALSE
    /\ pc' = "done"
    /\ UNCHANGED <<config, sliceVars, runVars, denylist, pubVars, faults>>

-----------------------------------------------------------------------------
(* Mutant of CallRaises: a failing Bodhi update is skipped.                *)
CallRaises_UpdateSkipped ==
    /\ pc = "update"
    /\ Fault
    /\ pc' = "promote"
    /\ errata' = {}
    /\ UNCHANGED <<config, sliceVars, runVars, denylist, sideTag, published,
                   todo, nvrs, refused>>

(* A call to Koji, the database or Bodhi raises.  Recording nothing cannot *)
(* fail, nor do the waits and send_email.                                  *)
CallRaises ==
    /\ \/ pc \in {"submit", "promote", "tag", "errata", "populate", "update",
                "remove"}
       \/ pc = "record" /\ failures # {}
       \/ pc = "collect" /\ todo # {}
    /\ pc = "promote" => todo # {}
    /\ Fault
    /\ pc' = "aborted"
    /\ UNCHANGED <<config, sliceVars, runVars, denylist, sideTag, pubVars>>

Slices ==
    \/ StartBuilds \/ Retry \/ SliceEnds
    \/ \E b \in Builds, v \in Verdicts : TaskEnds(b, v)

(* The steps of publication that the program takes by itself.              *)
Finalization ==
    \/ \E b \in todo : CollectNvr(b) \/ NoBuildInfo(b) \/ StableTimeout(b)
    \/ Finalize
    \/ \E P \in SUBSET nvrs : TagDirectly(P)
    \/ NothingToTag
    \/ \E S \in SUBSET todo : \E P \in SUBSET S : PromoteChunk(S, P)
    \/ CreateErrataTag \/ ErrataTagTimesOut \/ SubmitUpdate \/ AllSubmitted
    \/ StableWaitEnds \/ RemoveSideTag

Publication ==
    \/ Finalization
    \/ ErrataTagReady
    \/ \E b \in todo : BuildArrives(b)

Next ==
    \/ Slices
    \/ RecordFailures \/ NotifyFailures \/ NotifyRaises
    \/ Publication
    \/ CallRaises

(* What happens whether or not a build, its tagging or an update ever ends:*)
(* calls return or raise, the coroutine goes on, and timers fire.          *)
Progress ==
    \/ StartBuilds \/ Retry \/ SliceEnds
    \/ \E b \in Builds : TaskEnds(b, "timeout")
    \/ RecordFailures \/ NotifyFailures \/ NotifyRaises
    \/ Finalization
    \/ CallRaises

Spec == Init /\ [][Next]_vars

(* Nothing is asked of Koji's tasks, of tags that fill up or of Bodhi: the *)
(* waits for them have timers (TaskWaits, SideTags), and calls are tried a *)
(* bounded number of times (KojiConnection).                               *)
FairSpec == Spec /\ WF_vars(Progress)

-----------------------------------------------------------------------------
(* Correctness                                                             *)

(* Every variable has its type.                                            *)
TypeOK ==
    /\ emailer \in BOOLEAN /\ route \in Routes
    /\ pc \in Phases
    /\ slice \in 1 .. NumSlices
    /\ attempt \subseteq Builds
    /\ verdict \in [Builds -> Verdicts \cup {"waiting"}]
    /\ prev \in Nat /\ attempts \in Nat
    /\ fails \in [Builds -> Nat]
    /\ successes \subseteq Builds /\ failures \subseteq Builds
    /\ nameless \in BOOLEAN
    /\ denylist \subseteq Urls
    /\ sideTag \in BOOLEAN
    /\ published \subseteq SUBSET Builds
    /\ todo \subseteq Builds /\ nvrs \subseteq Builds
    /\ errata \subseteq Builds /\ refused \subseteq Builds
    /\ faults \in 0 .. MaxFaults

(* README: "Each batch retries failures at least once, so builds that      *)
(* still fail are treated as real breakage".  The denylist is for ever, so *)
(* no single failure, be it the only one of its slice, may put a URL there.*)
DenylistedFailedTwice ==
    \A url \in denylist : \E b \in Builds : b.url = url /\ fails[b] >= 2

(* The comparison of counts in the retry loop means what the comment after *)
(* it says: a slice gives up only on builds that all failed in the attempt *)
(* before, and of which none was built by the last one.                    *)
GivesUpOnSameSet ==
    [][SliceEnds /\ Named # {} =>
          /\ \A b \in attempt : fails[b] >= 1
          /\ attempt = Named \cup Nameless]_vars

(* Retries come to an end, however the builds flap between attempts.       *)
BoundedAttempts == attempts <= Cardinality(SliceBuilds(slice)) + 1

(* The build side-tag, the only place that still knows the builds, is not  *)
(* removed before every build whose NVR is known has been published or     *)
(* refused by Koji ("so we don't inadvertently remove the build            *)
(* side-tag").                                                             *)
NothingDropped ==
    ~sideTag /\ route # "scratch" => nvrs \subseteq refused \cup UNION published

(* What the caller of run() sees of it.                                    *)
Promised == INSTANCE BatchRun WITH
    built <- successes,
    phase <- IF pc \in {"submit", "wait", "record"} THEN "run"
             ELSE IF pc \in {"done", "aborted"} THEN "over" ELSE "finalize"

(* A run is what process_message_batch, and the model of it, take it for.  *)
(* However builds flap between attempts, no build that succeeded counts as *)
(* failed; failures are recorded at once, before any build is published;   *)
(* however the updates are split, no build is published twice, and none    *)
(* that was not built; nothing goes on when it has returned or raised.     *)
ImplementsBatchRun == Promised!Spec

(* Every run comes to an end, whatever becomes of its builds and updates,  *)
(* unless the builds of an update time out for ever on their way into      *)
(* side-tags, the one loop that has no bound.                              *)
RunTerminates ==
    (<>[][~ErrataTagTimesOut]_vars) => <>(pc \in {"done", "aborted"})

-----------------------------------------------------------------------------
(* What the documentation says and the code does not do                    *)

(* README: "After all slices succeed or exhaust retries: 1. Successful     *)
(* build NVRs are collected", and published.  When every call works, a     *)
(* batch with a timed-out task loses them all the same: the mail about the *)
(* failures raises.                                                        *)
SuccessesPublished ==
    pc = "aborted" /\ faults = 0 /\ refused = {} => successes = {}
=============================================================================
