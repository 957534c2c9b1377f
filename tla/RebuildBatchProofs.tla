------------------------- MODULE RebuildBatchProofs -------------------------
(* Proofs about the run of a batch, for any finite set of triggers in any  *)
(* number of slices: what the retry loop's count of failures means, which  *)
(* URLs reach the denylist, and which builds are published.                *)
EXTENDS RebuildBatch, FiniteSetTheorems, TLAPS

(* The attempt that runs is the first of its slice, or it holds what       *)
(* failed in the one before and prev_failures counts it.                   *)
SliceInv ==
    /\ attempt # {} /\ attempt \subseteq SliceBuilds(slice)
    /\ \/ prev = TenMillion /\ attempts = 1
       \/ /\ prev = Cardinality(attempt)
          /\ \A b \in attempt : fails[b] >= 1
          /\ attempts + Cardinality(attempt) <=
                Cardinality(SliceBuilds(slice)) + 2

(* No slice knows of builds of a later one.                                *)
ResultInv ==
    /\ successes \cap failures = {}
    /\ \A b \in failures : fails[b] >= 2
    /\ denylist \subseteq UrlsOf(failures)
    /\ pc \in {"submit", "wait"} =>
          /\ successes \cap attempt = {}
          /\ \A b \in successes : b.slice <= slice
          /\ \A b \in failures : b.slice < slice

(* Every build that is to be published waits in todo, is in the update     *)
(* being made, is published or was refused, and in only one of the first   *)
(* three.                                                                  *)
PubInv ==
    /\ nvrs \subseteq successes
    /\ UNION published \subseteq nvrs /\ errata \subseteq nvrs
    /\ \A A, B \in published : A = B \/ A \cap B = {}
    /\ errata \cap UNION published = {}
    /\ pc \in {"submit", "wait", "record", "notify", "collect", "tag"} =>
          published = {} /\ errata = {} /\ refused = {}
    /\ pc = "collect" => todo \subseteq successes
    /\ pc \in {"promote", "errata", "populate", "update"} =>
          /\ todo \subseteq nvrs
          /\ todo \cap (errata \cup UNION published) = {}
          /\ nvrs \subseteq todo \cup errata \cup refused \cup UNION published
    /\ pc = "promote" => errata = {}
    /\ pc \in {"errata", "populate", "update"} => errata # {}
    /\ pc = "stable" => todo \subseteq nvrs
    /\ pc \in {"stable", "remove", "done"} /\ route # "scratch" =>
          nvrs \subseteq refused \cup UNION published
    /\ ~sideTag => pc = "done"

IInv == TypeOK /\ SliceInv /\ ResultInv /\ PubInv

-----------------------------------------------------------------------------
(* The initial value of prev_failures is a number.                         *)
LEMMA TenMillionNat == TenMillion \in Nat
BY SMT DEF TenMillion

(* A batch has no more builds than triggers, and each is in a slice.       *)
LEMMA BuildsFinite ==
    IsFiniteSet(Builds) /\ Cardinality(Builds) < TenMillion
<1> DEFINE f == [t \in Triggers |-> [slice |-> Order[t], url |-> ScmUrl[t]]]
<1>1. f \in Surjection(Triggers, Builds)
  BY DEF Surjection, Builds
<1>2. IsFiniteSet(Builds) /\ Cardinality(Builds) <= Cardinality(Triggers)
  BY <1>1, FS_Surjection, TriggersAssumption
<1>3. Cardinality(Builds) \in Nat /\ Cardinality(Triggers) \in Nat
  BY <1>2, FS_CardinalityType, TriggersAssumption
<1> QED
  BY <1>2, <1>3, TriggersAssumption, TenMillionNat

LEMMA BuildFields ==
    \A b \in Builds : b.slice \in 1 .. NumSlices /\ b.url \in Urls
BY SliceAssumption, TriggersAssumption DEF Builds

(* The failures are counted without loss, and they are as many as the      *)
(* attempt only if the attempt consists of them.                           *)
LEMMA Counts ==
    ASSUME attempt \subseteq Builds
    PROVE  /\ Cardinality(attempt) \in Nat
           /\ Cardinality(attempt) < TenMillion
           /\ NumFailures \in Nat /\ NumFailures <= Cardinality(attempt)
           /\ NumFailures = Cardinality(attempt)
                 => attempt = Named \cup Nameless
           /\ Cardinality(Named) = NumFailures - Cardinality(Nameless)
           /\ Cardinality(Named) \in Nat
           /\ Cardinality(Named) <= NumFailures
           /\ Cardinality(Named) > 0 <=> Named # {}
<1>1. /\ IsFiniteSet(attempt)
      /\ Cardinality(attempt) <= Cardinality(Builds)
  BY FS_Subset, BuildsFinite
<1>2. Cardinality(Builds) \in Nat /\ Cardinality(attempt) \in Nat
  BY FS_CardinalityType, BuildsFinite, <1>1
<1>3. Named \subseteq attempt /\ Nameless \subseteq attempt
      /\ Named \cap Nameless = {}
  BY DEF Named, Nameless
<1>4. IsFiniteSet(Named) /\ IsFiniteSet(Nameless)
  BY FS_Subset, <1>1, <1>3
<1>5. Cardinality(Named) \in Nat /\ Cardinality(Nameless) \in Nat
  BY FS_CardinalityType, <1>4
<1>6. NumFailures = Cardinality(Named) + Cardinality(Nameless)
  <2>1. Cardinality(Named \cup Nameless) =
           Cardinality(Named) + Cardinality(Nameless)
              - Cardinality(Named \cap Nameless)
    BY FS_Union, <1>4
  <2>2. Cardinality(Named \cap Nameless) = 0
    BY FS_EmptySet, <1>3
  <2> QED
    BY <2>1, <2>2, <1>5 DEF NumFailures
<1>7. /\ Cardinality(Named \cup Nameless) <= Cardinality(attempt)
      /\ Cardinality(attempt) = Cardinality(Named \cup Nameless)
            => attempt = Named \cup Nameless
  BY FS_Subset, <1>1, <1>3
<1>8. Cardinality(Named) = 0 <=> Named = {}
  BY FS_EmptySet, <1>4
<1>9. Cardinality(attempt) < TenMillion
  BY <1>1, <1>2, BuildsFinite, TenMillionNat
<1> QED
  BY <1>2, <1>5, <1>6, <1>7, <1>8, <1>9 DEF NumFailures

(* The loop goes on with fewer URLs than before, or for the first time.    *)
LEMMA RetryFacts ==
    ASSUME TypeOK, SliceInv, WorthRetrying
    PROVE  /\ Named # {}
           /\ Cardinality(Named) = NumFailures - Cardinality(Nameless)
           /\ Cardinality(Named) \in Nat
           /\ attempts + 1 + Cardinality(Named) <=
                 Cardinality(SliceBuilds(slice)) + 2
<1> USE DEF TypeOK, SliceInv
<1>1. /\ Cardinality(Named) = NumFailures - Cardinality(Nameless)
      /\ Cardinality(Named) \in Nat /\ NumFailures \in Nat
      /\ Cardinality(attempt) \in Nat
      /\ Cardinality(Named) <= NumFailures
      /\ NumFailures <= Cardinality(attempt)
      /\ Cardinality(Named) > 0 <=> Named # {}
  BY Counts
<1>2. /\ Cardinality(SliceBuilds(slice)) \in Nat
      /\ Cardinality(attempt) <= Cardinality(SliceBuilds(slice))
  <2>1. IsFiniteSet(SliceBuilds(slice))
    BY FS_Subset, BuildsFinite DEF SliceBuilds
  <2> QED
    BY FS_Subset, FS_CardinalityType, <2>1
<1>3. Named # {} /\ NumFailures < prev
  BY <1>1 DEF WorthRetrying
<1>4. attempts + 1 + Cardinality(Named) <= Cardinality(SliceBuilds(slice)) + 2
  <2>1. CASE prev = TenMillion /\ attempts = 1
    BY <1>1, <1>2, <2>1
  <2>2. CASE /\ prev = Cardinality(attempt)
             /\ attempts + Cardinality(attempt) <=
                   Cardinality(SliceBuilds(slice)) + 2
    BY <1>1, <1>2, <1>3, <2>2
  <2> QED
    BY <2>1, <2>2
<1> QED
  BY <1>1, <1>3, <1>4

(* When the loop stops with a failure that has a name, all of the attempt  *)
(* failed, and had failed before.                                          *)
LEMMA GiveUpFacts ==
    ASSUME TypeOK, SliceInv, ~WorthRetrying, Named # {}
    PROVE  /\ \A b \in attempt : fails[b] >= 1
           /\ attempt = Named \cup Nameless
<1> USE DEF TypeOK, SliceInv
<1>1. /\ Cardinality(attempt) \in Nat
      /\ Cardinality(attempt) < TenMillion
      /\ NumFailures \in Nat /\ NumFailures <= Cardinality(attempt)
      /\ NumFailures = Cardinality(attempt)
            => attempt = Named \cup Nameless
      /\ Cardinality(Named) = NumFailures - Cardinality(Nameless)
      /\ Cardinality(Named) \in Nat
      /\ Cardinality(Named) <= NumFailures
      /\ Cardinality(Named) > 0 <=> Named # {}
  BY Counts
<1>2. NumFailures >= prev
  BY <1>1 DEF WorthRetrying
<1>3. prev = Cardinality(attempt) /\ \A b \in attempt : fails[b] >= 1
  BY <1>1, <1>2
<1> QED
  BY <1>1, <1>2, <1>3

-----------------------------------------------------------------------------
(* The initial state.                                                      *)
LEMMA InitInv == Init => IInv
<1> SUFFICES ASSUME Init PROVE IInv
  OBVIOUS
<1>1. TypeOK
  <2>1. emailer \in BOOLEAN /\ nameless \in BOOLEAN /\ sideTag \in BOOLEAN
    BY DEF Init
  <2>2. /\ slice \in 1 .. NumSlices /\ attempt \subseteq Builds
        /\ prev \in Nat /\ attempts \in Nat /\ faults \in 0 .. MaxFaults
    BY SliceAssumption, FaultAssumption, TenMillionNat DEF Init, SliceBuilds
  <2>3. /\ verdict \in [Builds -> Verdicts \cup {"waiting"}]
        /\ fails \in [Builds -> Nat]
    BY DEF Init
  <2> QED
    BY <2>1, <2>2, <2>3 DEF Init, TypeOK, Phases
<1>2. SliceInv
  BY SliceAssumption DEF Init, SliceInv
<1>3. ResultInv
  BY DEF Init, ResultInv
<1>4. PubInv
  BY DEF Init, PubInv
<1> QED
  BY <1>1, <1>2, <1>3, <1>4 DEF IInv

(* A step of the slices keeps the types.                                   *)
LEMMA SlicesType == TypeOK /\ SliceInv /\ Slices => TypeOK'
<1> SUFFICES ASSUME TypeOK, SliceInv, Slices PROVE TypeOK'
  OBVIOUS
<1> USE DEF TypeOK, Phases, Verdicts, config, sliceVars, runVars, pubVars
<1>1. CASE StartBuilds
  BY <1>1 DEF StartBuilds
<1>2. CASE Retry
  <2>1. NumFailures - Cardinality(Nameless) \in Nat
    BY <1>2, RetryFacts DEF Retry
  <2> QED
    BY <1>2, <2>1 DEF Retry, AttemptReturns, Named
<1>3. CASE SliceEnds
  <2>1. Named \subseteq Builds /\ TenMillion \in Nat
    BY TenMillionNat DEF Named
  <2>2. /\ slice' \in 1 .. NumSlices /\ attempt' \subseteq Builds
        /\ prev' \in Nat /\ attempts' \in Nat /\ pc' \in Phases
    BY <1>3, <2>1, SliceAssumption DEF SliceEnds, SliceBuilds
  <2>3. nameless' \in BOOLEAN
    BY <1>3 DEF SliceEnds
  <2>4. /\ successes' \subseteq Builds /\ failures' \subseteq Builds
        /\ fails' \in [Builds -> Nat]
    BY <1>3, <2>1 DEF SliceEnds, AttemptReturns
  <2> QED
    BY <1>3, <2>2, <2>3, <2>4 DEF SliceEnds
<1>4. ASSUME NEW b \in Builds, NEW v \in Verdicts, TaskEnds(b, v)
      PROVE  TypeOK'
  BY <1>4 DEF TaskEnds
<1> QED
  BY <1>1, <1>2, <1>3, <1>4 DEF Slices

(* So do the other steps.                                                  *)
LEMMA OtherType ==
    ASSUME TypeOK, PubInv,
           \/ RecordFailures \/ NotifyFailures \/ NotifyRaises
           \/ Publication \/ CallRaises
    PROVE  TypeOK'
<1> USE DEF TypeOK, Phases, config, sliceVars, runVars, pubVars
<1>1. CASE RecordFailures
  <2>1. UrlsOf(failures) \subseteq Urls
    BY BuildFields DEF UrlsOf
  <2> QED
    BY <1>1, <2>1 DEF RecordFailures
<1>2. CASE NotifyFailures
  BY <1>2 DEF NotifyFailures
<1>3. CASE NotifyRaises
  BY <1>3 DEF NotifyRaises
<1>4. ASSUME NEW b \in todo, CollectNvr(b)
      PROVE  TypeOK'
  BY <1>4 DEF CollectNvr
<1>5. ASSUME NEW b \in todo, NoBuildInfo(b)
      PROVE  TypeOK'
  BY <1>5, FaultAssumption DEF NoBuildInfo, Fault
<1>6. CASE Finalize
  BY <1>6 DEF Finalize
<1>7. ASSUME NEW P \in SUBSET nvrs, TagDirectly(P)
      PROVE  TypeOK'
  BY <1>7 DEF TagDirectly
<1>8. CASE NothingToTag
  BY <1>8 DEF NothingToTag
<1>9. ASSUME NEW S \in SUBSET todo, NEW P \in SUBSET S, PromoteChunk(S, P)
      PROVE  TypeOK'
  BY <1>9 DEF PromoteChunk
<1>10. CASE CreateErrataTag \/ ErrataTagReady \/ ErrataTagTimesOut
  BY <1>10 DEF CreateErrataTag, ErrataTagReady, ErrataTagTimesOut
<1>11. CASE SubmitUpdate
  BY <1>11 DEF SubmitUpdate
<1>12. CASE AllSubmitted
  BY <1>12 DEF AllSubmitted
<1>13. CASE StableWaitEnds
  BY <1>13 DEF StableWaitEnds
<1>13a. ASSUME NEW b \in todo, BuildArrives(b) \/ StableTimeout(b)
        PROVE  TypeOK'
  BY <1>13a DEF BuildArrives, StableTimeout
<1>14. CASE RemoveSideTag
  BY <1>14 DEF RemoveSideTag
<1>15. CASE CallRaises
  BY <1>15, FaultAssumption DEF CallRaises, Fault
<1> QED
  BY <1>1, <1>2, <1>3, <1>4, <1>5, <1>6, <1>7, <1>8, <1>9, <1>10, <1>11,
     <1>12, <1>13, <1>13a, <1>14, <1>15 DEF Publication, Finalization

-----------------------------------------------------------------------------
(* A step of the slices keeps the invariant of the attempts.               *)
LEMMA SlicesSlice == TypeOK /\ SliceInv /\ Slices => SliceInv'
<1> SUFFICES ASSUME TypeOK, SliceInv, Slices PROVE SliceInv'
  OBVIOUS
<1>1. CASE StartBuilds
  BY <1>1 DEF StartBuilds, SliceInv
<1>2. ASSUME NEW b \in Builds, NEW v \in Verdicts, TaskEnds(b, v)
      PROVE  SliceInv'
  BY <1>2 DEF TaskEnds, SliceInv
<1>3. CASE Retry
  <2>1. /\ Named # {}
        /\ Cardinality(Named) = NumFailures - Cardinality(Nameless)
        /\ Cardinality(Named) \in Nat
        /\ attempts + 1 + Cardinality(Named) <=
              Cardinality(SliceBuilds(slice)) + 2
    BY <1>3, RetryFacts DEF Retry
  <2>2. attempt' = Named /\ slice' = slice /\ attempts' = attempts + 1
        /\ prev' = Cardinality(Named)
    BY <1>3, <2>1 DEF Retry
  <2>3. Named \subseteq SliceBuilds(slice)
    BY DEF SliceInv, Named
  <2>4. \A b \in Named : fails'[b] >= 1
    BY <1>3 DEF Retry, AttemptReturns, TypeOK, Named
  <2> QED
    BY <2>1, <2>2, <2>3, <2>4 DEF SliceInv
<1>4. CASE SliceEnds
  <2>1. \A b \in Builds : fails'[b] >= fails[b] /\ fails'[b] \in Nat
    BY <1>4 DEF SliceEnds, AttemptReturns, TypeOK
  <2>2. CASE slice' = slice + 1
    <3>1. /\ slice + 1 \in 1 .. NumSlices
          /\ attempt' = SliceBuilds(slice + 1)
          /\ prev' = TenMillion /\ attempts' = 1
      BY <1>4, <2>2, SliceAssumption DEF SliceEnds, TypeOK
    <3> QED
      BY <2>2, <3>1, SliceAssumption DEF SliceInv
  <2>3. CASE UNCHANGED <<slice, attempt, prev, attempts>>
    BY <2>1, <2>3 DEF SliceInv, TypeOK
  <2> QED
    BY <1>4, <2>2, <2>3 DEF SliceEnds
<1> QED
  BY <1>1, <1>2, <1>3, <1>4 DEF Slices

(* A step of the slices keeps what is known of successes and failures.     *)
LEMMA SlicesResult ==
    TypeOK /\ SliceInv /\ ResultInv /\ Slices => ResultInv'
<1> SUFFICES ASSUME TypeOK, SliceInv, ResultInv, Slices PROVE ResultInv'
  OBVIOUS
<1> USE DEF ResultInv
<1>1. CASE StartBuilds
  BY <1>1 DEF StartBuilds, runVars
<1>2. ASSUME NEW b \in Builds, NEW v \in Verdicts, TaskEnds(b, v)
      PROVE  ResultInv'
  BY <1>2 DEF TaskEnds, runVars
<1>3. ASSUME AttemptReturns
      PROVE  /\ successes' \cap failures = {}
             /\ successes' \cap Named = {}
             /\ \A b \in successes' : b.slice <= slice
             /\ \A b \in attempt : b.slice = slice
             /\ \A b \in Builds : fails'[b] >= fails[b] /\ fails'[b] \in Nat
             /\ \A b \in Named : fails'[b] = fails[b] + 1
  BY <1>3 DEF AttemptReturns, TypeOK, SliceInv, SliceBuilds, Named
<1>4. CASE Retry
  <2>1. /\ UNCHANGED <<failures, denylist, slice>> /\ attempt' = Named
        /\ AttemptReturns /\ pc = "wait"
    BY <1>4 DEF Retry, AttemptReturns
  <2> QED
    BY <1>3, <2>1 DEF TypeOK
<1>5. CASE SliceEnds
  <2>1. AttemptReturns /\ pc = "wait" /\ failures' = failures \cup Named
        /\ UNCHANGED denylist
    BY <1>5 DEF SliceEnds, AttemptReturns
  <2>2. \A b \in Named : fails'[b] >= 2
    <3> SUFFICES ASSUME NEW b \in Named PROVE fails'[b] >= 2
      OBVIOUS
    <3>1. fails[b] >= 1 /\ fails[b] \in Nat
      BY <1>5, GiveUpFacts DEF SliceEnds, Named, TypeOK
    <3> QED
      BY <1>3, <2>1, <3>1
  <2>3. Named \subseteq attempt
    BY DEF Named
  <2>4. /\ successes' \cap failures' = {}
        /\ \A b \in failures' : fails'[b] >= 2
        /\ denylist' \subseteq UrlsOf(failures')
    BY <1>3, <2>1, <2>2 DEF TypeOK, UrlsOf
  <2>5. \A b \in successes' \cup failures' : b.slice <= slice
    BY <1>3, <2>1, <2>3, BuildFields, SliceAssumption DEF TypeOK
  <2>6. CASE slice' = slice + 1 /\ attempt' = SliceBuilds(slice + 1)
    <3>1. \A b \in successes' \cup failures' : b \in Builds
      BY <2>1, <2>3 DEF TypeOK, AttemptReturns
    <3>2. successes' \cap attempt' = {}
      BY <2>5, <2>6 DEF SliceBuilds, TypeOK
    <3>3. \A b \in failures' : b.slice < slice + 1
      BY <2>5, <3>1, BuildFields, SliceAssumption DEF TypeOK
    <3>4. \A b \in successes' : b.slice <= slice + 1
      BY <2>5, <3>1, BuildFields, SliceAssumption DEF TypeOK
    <3> QED
      BY <2>4, <2>6, <3>2, <3>3, <3>4
  <2>7. CASE pc' = "record"
    BY <2>4, <2>7
  <2> QED
    BY <1>5, <2>6, <2>7 DEF SliceEnds
<1> QED
  BY <1>1, <1>2, <1>4, <1>5 DEF Slices

(* The other steps leave the slices alone.                                 *)
LEMMA OtherResult ==
    ASSUME SliceInv, ResultInv,
           \/ RecordFailures \/ NotifyFailures \/ NotifyRaises
           \/ Publication \/ CallRaises \/ UNCHANGED vars
    PROVE  SliceInv' /\ ResultInv'
<1>1. /\ UNCHANGED <<slice, attempt, prev, attempts, fails, successes,
                     failures>>
      /\ denylist' = denylist \/ denylist' = denylist \cup UrlsOf(failures)
      /\ pc' \in {"submit", "wait"} => pc' = pc
  BY DEF RecordFailures, NotifyFailures, NotifyRaises, Publication,
         Finalization, CollectNvr, NoBuildInfo, Finalize, TagDirectly,
         NothingToTag, PromoteChunk, CreateErrataTag, ErrataTagReady,
         ErrataTagTimesOut, SubmitUpdate, AllSubmitted, BuildArrives,
         StableTimeout, StableWaitEnds, RemoveSideTag, CallRaises, vars,
         sliceVars, runVars
<1> QED
  BY <1>1 DEF SliceInv, ResultInv

-----------------------------------------------------------------------------
(* The slices publish nothing.                                             *)
LEMMA SlicesPub == PubInv /\ Slices => PubInv'
<1> SUFFICES ASSUME PubInv, Slices PROVE PubInv'
  OBVIOUS
<1>1. /\ pc \in {"submit", "wait"}
      /\ pc' \in {"submit", "wait", "record"}
      /\ UNCHANGED <<published, todo, nvrs, errata, refused, sideTag, route>>
      /\ successes \subseteq successes'
  BY DEF Slices, StartBuilds, TaskEnds, Retry, SliceEnds, AttemptReturns,
         config, runVars, pubVars
<1> QED
  BY <1>1 DEF PubInv

(* Publishing loses no build and publishes none twice.                     *)
LEMMA OtherPub ==
    ASSUME TypeOK, PubInv,
           \/ RecordFailures \/ NotifyFailures \/ NotifyRaises
           \/ Publication \/ CallRaises \/ UNCHANGED vars
    PROVE  PubInv'
<1> USE DEF PubInv, config, runVars, pubVars
<1>1. CASE RecordFailures
  BY <1>1 DEF RecordFailures
<1>2. CASE NotifyFailures
  BY <1>2 DEF NotifyFailures
<1>3. CASE NotifyRaises
  BY <1>3 DEF NotifyRaises
<1>4. ASSUME NEW b \in todo, CollectNvr(b)
      PROVE  PubInv'
  BY <1>4 DEF CollectNvr
<1>5. ASSUME NEW b \in todo, NoBuildInfo(b)
      PROVE  PubInv'
  BY <1>5 DEF NoBuildInfo
<1>6. CASE Finalize
  BY <1>6 DEF Finalize
<1>7. ASSUME NEW P \in SUBSET nvrs, TagDirectly(P)
      PROVE  PubInv'
  <2>1. published' = {P} /\ errata = {}
    BY <1>7 DEF TagDirectly
  <2>2. UNION published' = P
    BY <2>1
  <2> QED
    BY <1>7, <2>1, <2>2 DEF TagDirectly
<1>8. CASE NothingToTag
  BY <1>8 DEF NothingToTag
<1>9. ASSUME NEW S \in SUBSET todo, NEW P \in SUBSET S, PromoteChunk(S, P)
      PROVE  PubInv'
  BY <1>9 DEF PromoteChunk
<1>10. CASE CreateErrataTag \/ ErrataTagReady \/ ErrataTagTimesOut
  BY <1>10 DEF CreateErrataTag, ErrataTagReady, ErrataTagTimesOut
<1>11. CASE SubmitUpdate
  <2>1. UNION published' = errata \cup UNION published
    BY <1>11 DEF SubmitUpdate
  <2>2. \A A \in published : A \cap errata = {}
    BY <1>11 DEF SubmitUpdate
  <2>3. \A A, B \in published' : A = B \/ A \cap B = {}
    BY <1>11, <2>2 DEF SubmitUpdate
  <2> QED
    BY <1>11, <2>1, <2>3 DEF SubmitUpdate
<1>12. CASE AllSubmitted
  BY <1>12 DEF AllSubmitted
<1>13. CASE StableWaitEnds
  BY <1>13 DEF StableWaitEnds
<1>13a. ASSUME NEW b \in todo, BuildArrives(b) \/ StableTimeout(b)
        PROVE  PubInv'
  BY <1>13a DEF BuildArrives, StableTimeout
<1>14. CASE RemoveSideTag
  BY <1>14 DEF RemoveSideTag
<1>15. CASE CallRaises
  BY <1>15 DEF CallRaises
<1>16. CASE UNCHANGED vars
  BY <1>16 DEF vars
<1> QED
  BY <1>1, <1>2, <1>3, <1>4, <1>5, <1>6, <1>7, <1>8, <1>9, <1>10, <1>11,
     <1>12, <1>13, <1>13a, <1>14, <1>15, <1>16
     DEF Publication, Finalization

-----------------------------------------------------------------------------
(* Every step keeps the invariant.                                         *)
LEMMA NextInv == IInv /\ [Next]_vars => IInv'
<1> SUFFICES ASSUME IInv, [Next]_vars PROVE IInv'
  OBVIOUS
<1> USE DEF IInv
<1>1. CASE Slices
  BY <1>1, SlicesType, SlicesSlice, SlicesResult, SlicesPub
<1>2. CASE \/ RecordFailures \/ NotifyFailures \/ NotifyRaises
           \/ Publication \/ CallRaises
  BY <1>2, OtherType, OtherResult, OtherPub
<1>3. CASE UNCHANGED vars
  <2>1. TypeOK'
    BY <1>3 DEF vars, config, sliceVars, runVars, pubVars, TypeOK
  <2> QED
    BY <1>3, <2>1, OtherResult, OtherPub
<1> QED
  BY <1>1, <1>2, <1>3 DEF Next

(* The invariant holds of every behavior.                                  *)
THEOREM Invariance == Spec => []IInv
<1>1. IInv /\ [Next]_vars => IInv'
  BY NextInv
<1> QED
  BY InitInv, <1>1, PTL DEF Spec

(* Every variable of a run has its type.                                   *)
THEOREM TypeCorrect == Spec => []TypeOK
<1>1. IInv => TypeOK
  BY DEF IInv
<1> QED
  BY Invariance, <1>1, PTL

(* Whatever the verdicts, a URL reaches the denylist only after it failed  *)
(* twice in the batch.                                                     *)
THEOREM DenialJustified == Spec => []DenylistedFailedTwice
<1>1. IInv => DenylistedFailedTwice
  BY DEF IInv, TypeOK, ResultInv, UrlsOf, DenylistedFailedTwice
<1> QED
  BY Invariance, <1>1, PTL

(* Comparing numbers of failures amounts to comparing the sets.            *)
THEOREM SameSetFailedTwice == Spec => GivesUpOnSameSet
<1>1. IInv /\ [Next]_vars =>
         [SliceEnds /\ Named # {} =>
             /\ \A b \in attempt : fails[b] >= 1
             /\ attempt = Named \cup Nameless]_vars
  BY GiveUpFacts DEF IInv, SliceEnds
<1> QED
  BY Invariance, <1>1, PTL DEF Spec, GivesUpOnSameSet

(* A slice of n builds makes at most n + 1 attempts.                       *)
THEOREM AttemptsBounded == Spec => []BoundedAttempts
<1>1. ASSUME IInv PROVE BoundedAttempts
  <2>1. /\ IsFiniteSet(SliceBuilds(slice)) /\ IsFiniteSet(attempt)
        /\ attempt # {}
    BY <1>1, FS_Subset, BuildsFinite
       DEF IInv, TypeOK, SliceInv, SliceBuilds
  <2>2. /\ Cardinality(SliceBuilds(slice)) \in Nat
        /\ Cardinality(attempt) \in Nat
    BY <2>1, FS_CardinalityType
  <2>3. Cardinality(attempt) # 0
    BY <2>1, FS_EmptySet
  <2> QED
    BY <1>1, <2>2, <2>3 DEF IInv, TypeOK, SliceInv, BoundedAttempts
<1> QED
  BY Invariance, <1>1, PTL

(* The build side-tag goes only when every build has been dealt with.      *)
THEOREM NoBuildDropped == Spec => []NothingDropped
<1>1. IInv => NothingDropped
  BY DEF IInv, PubInv, NothingDropped
<1> QED
  BY Invariance, <1>1, PTL

(* Each step of a run is one of its promise, or none.                      *)
LEMMA StepRefines == IInv /\ [Next]_vars => [Promised!Next]_(Promised!vars)
<1> SUFFICES ASSUME IInv, [Next]_vars
             PROVE  [Promised!Next]_(Promised!vars)
  OBVIOUS
<1> USE DEF Promised!vars, config, sliceVars, runVars, pubVars
<1>1. CASE StartBuilds \/ \E b \in Builds, v \in Verdicts : TaskEnds(b, v)
  BY <1>1 DEF StartBuilds, TaskEnds
<1>1a. CASE Retry \/ SliceEnds
  <2> DEFINE new == {b \in attempt : verdict[b] = "success"}
  <2>1. new \in SUBSET Builds
    BY DEF IInv, TypeOK
  <2>2. Promised!Build(new)
    BY <1>1a DEF Retry, SliceEnds, AttemptReturns, Promised!Build
  <2> QED
    BY <2>1, <2>2 DEF Promised!Next
<1>2. CASE RecordFailures
  <2>1. failures \in SUBSET Builds
    BY DEF IInv, TypeOK
  <2>2. /\ failures \cap successes = {}
        /\ denylist \cup UrlsOf(failures) = UrlsOf(failures)
    BY DEF IInv, ResultInv
  <2>3. Promised!Record(failures)
    BY <1>2, <2>2 DEF RecordFailures, Promised!Record, UrlsOf
  <2> QED
    BY <2>1, <2>3 DEF Promised!Next
<1>3. CASE NotifyRaises \/ CallRaises \/ RemoveSideTag \/ NothingToTag
  <2>1. Promised!End
    BY <1>3 DEF NotifyRaises, CallRaises, RemoveSideTag, NothingToTag,
                Promised!End
  <2> QED
    BY <2>1 DEF Promised!Next
<1>4. ASSUME NEW P \in SUBSET nvrs, TagDirectly(P)
      PROVE  [Promised!Next]_(Promised!vars)
  <2>1. P \in SUBSET Builds
    BY <1>4 DEF IInv, TypeOK
  <2>2. P \subseteq successes \ UNION published
    BY <1>4 DEF IInv, PubInv, TagDirectly
  <2>3. Promised!Publish(P)
    BY <1>4, <2>2 DEF TagDirectly, Promised!Publish
  <2> QED
    BY <2>1, <2>3 DEF Promised!Next
<1>5. CASE SubmitUpdate
  <2>1. errata \in SUBSET Builds
    BY DEF IInv, TypeOK
  <2>2. errata # {} /\ errata \subseteq successes \ UNION published
    BY <1>5 DEF IInv, PubInv, SubmitUpdate
  <2>3. Promised!Publish(errata)
    BY <1>5, <2>2 DEF SubmitUpdate, Promised!Publish
  <2> QED
    BY <2>1, <2>3 DEF Promised!Next
<1>6. CASE \/ NotifyFailures \/ Finalize \/ CreateErrataTag
           \/ ErrataTagReady \/ ErrataTagTimesOut \/ AllSubmitted
           \/ StableWaitEnds
           \/ \E b \in todo : CollectNvr(b) \/ NoBuildInfo(b)
           \/ \E b \in todo : BuildArrives(b) \/ StableTimeout(b)
           \/ \E S \in SUBSET todo : \E P \in SUBSET S : PromoteChunk(S, P)
  BY <1>6 DEF NotifyFailures, Finalize, CreateErrataTag, ErrataTagReady,
              ErrataTagTimesOut, AllSubmitted, StableWaitEnds, CollectNvr,
              NoBuildInfo, BuildArrives, StableTimeout, PromoteChunk
<1>7. CASE UNCHANGED vars
  BY <1>7 DEF vars
<1> QED
  BY <1>1, <1>2, <1>3, <1>4, <1>5, <1>6, <1>7, <1>1a
     DEF Next, Slices, Publication, Finalization

(* For any batch, run() keeps what its caller takes for granted.           *)
THEOREM RunRefines == Spec => ImplementsBatchRun
<1>1. Init => Promised!Init
  BY DEF Init, Promised!Init
<1> QED
  BY <1>1, StepRefines, Invariance, PTL
     DEF Spec, ImplementsBatchRun, Promised!Spec

-----------------------------------------------------------------------------
(* A run is finite but for the errata side-tags: the number of steps it    *)
(* can still take is bounded by a natural number that every step lowers    *)
(* but the timeout of such a tag, which adds one to it.                    *)

Size == Cardinality(Builds)
Waiting == {b \in attempt : verdict[b] = "waiting"}

(* What one attempt can take, and what one slice can.                      *)
AttemptSteps == Size + 2
SliceSteps == AttemptSteps * (Size + 2)

(* Within the publication: an update takes four steps at most, and one     *)
(* build fewer is left to promote; each build is awaited once.             *)
PubSteps ==
    CASE pc = "record"   -> 6 * Size + 6
      [] pc = "notify"   -> 6 * Size + 5
      [] pc = "collect"  -> 5 * Size + 4 + Cardinality(todo)
      [] pc = "promote"  -> 4 * Cardinality(todo) + Size + 3
      [] pc = "errata"   -> 4 * Cardinality(todo) + Size + 6
      [] pc = "populate" -> 4 * Cardinality(todo) + Size + 5
      [] pc = "update"   -> 4 * Cardinality(todo) + Size + 4
      [] pc = "tag"      -> Size + 3
      [] pc = "stable"   -> Cardinality(todo) + 2
      [] pc = "remove"   -> 1
      [] OTHER           -> 0

StepsLeft ==
    IF pc \in {"submit", "wait"}
    THEN 6 * Size + 7 + SliceSteps * (NumSlices - slice)
                      + AttemptSteps * (Size + 2 - attempts)
                      + (IF pc = "submit" THEN Size + 1 ELSE Cardinality(Waiting))
    ELSE PubSteps

(* Sets of builds are finite, and a proper part of one is smaller.         *)
LEMMA Sizes ==
    ASSUME NEW S, S \subseteq Builds
    PROVE  /\ Size \in Nat /\ Cardinality(S) \in Nat /\ Cardinality(S) <= Size
           /\ Cardinality(S) = 0 <=> S = {}
           /\ \A R : R \subseteq S /\ R # S =>
                 Cardinality(R) \in Nat /\ Cardinality(R) < Cardinality(S)
<1>1. IsFiniteSet(S) /\ Cardinality(S) <= Size
  BY FS_Subset, BuildsFinite DEF Size
<1>2. Size \in Nat /\ Cardinality(S) \in Nat
  BY <1>1, FS_CardinalityType, BuildsFinite DEF Size
<1>3. Cardinality(S) = 0 <=> S = {}
  BY <1>1, FS_EmptySet
<1>4. ASSUME NEW R, R \subseteq S, R # S
      PROVE  Cardinality(R) \in Nat /\ Cardinality(R) < Cardinality(S)
  <2>1. /\ IsFiniteSet(R) /\ Cardinality(R) <= Cardinality(S)
        /\ Cardinality(S) = Cardinality(R) => R = S
    BY <1>1, <1>4, FS_Subset
  <2>2. Cardinality(R) \in Nat
    BY <2>1, FS_CardinalityType
  <2> QED
    BY <1>2, <1>4, <2>1, <2>2
<1> QED
  BY <1>1, <1>2, <1>3, <1>4

(* Multiplying a number of attempts, or of slices.                         *)
LEMMA Products ==
    ASSUME NEW a \in Nat
    PROVE  /\ \A b \in Int : a * b \in Int /\ a * (b - 1) = a * b - a
           /\ \A b \in Nat : a * b \in Nat /\ (b >= 1 => a * b >= a)
<1>1. \A b \in Int : a * b \in Int /\ a * (b - 1) = a * b - a
  BY SMT
<1>2. \A b \in Nat : a * b \in Nat
  BY SMT
<1>3. ASSUME NEW b \in Nat, b >= 1 PROVE a * b >= a
  <2>1. a * (b - 1) \in Nat
    BY <1>2, <1>3
  <2> QED
    BY <1>1, <2>1, SMT
<1> QED
  BY <1>1, <1>2, <1>3

LEMMA StepConstants ==
    /\ Size \in Nat /\ AttemptSteps \in Nat /\ SliceSteps \in Nat
    /\ AttemptSteps = Size + 2
    /\ SliceSteps = AttemptSteps * (Size + 1) + AttemptSteps
<1>1. Size \in Nat /\ AttemptSteps \in Nat
  BY Sizes DEF AttemptSteps
<1>2. SliceSteps \in Nat
  BY <1>1, Products DEF SliceSteps
<1>3. SliceSteps = AttemptSteps * (Size + 1) + AttemptSteps
  <2>1. AttemptSteps * ((Size + 2) - 1) = AttemptSteps * (Size + 2) - AttemptSteps
    BY <1>1, Products
  <2>2. (Size + 2) - 1 = Size + 1 /\ AttemptSteps * (Size + 2) \in Int
    BY <1>1, Products
  <2> QED
    BY <1>1, <2>1, <2>2 DEF SliceSteps
<1> QED
  BY <1>1, <1>2, <1>3 DEF AttemptSteps

(* While the slices run.                                                   *)
LEMMA SliceBounds ==
    ASSUME TypeOK, SliceInv
    PROVE  /\ attempts \in Nat /\ Size + 2 - attempts \in Nat
           /\ Size + 2 - attempts >= 1
           /\ NumSlices - slice \in Nat
           /\ Cardinality(Waiting) \in Nat /\ Cardinality(Waiting) <= Size
           /\ Cardinality(Waiting) = 0 <=> Waiting = {}
           /\ AttemptSteps * (Size + 2 - attempts) \in Nat
           /\ AttemptSteps * (Size + 2 - attempts) >= AttemptSteps
           /\ SliceSteps * (NumSlices - slice) \in Nat
<1> USE DEF TypeOK, SliceInv
<1>1. Size + 2 - attempts \in Nat /\ Size + 2 - attempts >= 1
  <2>1. /\ Cardinality(SliceBuilds(slice)) \in Nat
        /\ Cardinality(SliceBuilds(slice)) <= Size /\ Size \in Nat
    BY Sizes DEF SliceBuilds
  <2>2. Cardinality(attempt) \in Nat /\ Cardinality(attempt) # 0
    BY Sizes
  <2>3. attempts <= Cardinality(SliceBuilds(slice)) + 1
    BY <2>1, <2>2
  <2> QED
    BY <2>1, <2>3
<1>2. NumSlices - slice \in Nat
  BY SliceAssumption
<1>3. /\ Cardinality(Waiting) \in Nat /\ Cardinality(Waiting) <= Size
      /\ Cardinality(Waiting) = 0 <=> Waiting = {}
  <2>1. Waiting \subseteq Builds
    BY DEF Waiting
  <2> QED
    BY <2>1, Sizes
<1>4. /\ AttemptSteps * (Size + 2 - attempts) \in Nat
      /\ AttemptSteps * (Size + 2 - attempts) >= AttemptSteps
  BY <1>1, StepConstants, Products
<1>5. SliceSteps * (NumSlices - slice) \in Nat
  BY <1>2, StepConstants, Products
<1> QED
  BY <1>1, <1>2, <1>3, <1>4, <1>5

LEMMA StepsAreNat == IInv => StepsLeft \in Nat
<1> SUFFICES ASSUME TypeOK, SliceInv PROVE StepsLeft \in Nat
  BY DEF IInv
<1>1. /\ Size \in Nat /\ Cardinality(todo) \in Nat
  BY Sizes DEF TypeOK
<1>2. CASE pc \in {"submit", "wait"}
  BY <1>1, <1>2, SliceBounds DEF StepsLeft
<1>3. CASE pc \notin {"submit", "wait"}
  BY <1>1, <1>3 DEF StepsLeft, PubSteps
<1> QED
  BY <1>2, <1>3

(* Each step of the slices lowers the number,                              *)
LEMMA SlicesLower == IInv /\ Slices => StepsLeft' < StepsLeft
<1> SUFFICES ASSUME TypeOK, SliceInv, (TypeOK /\ SliceInv)', Slices
             PROVE  StepsLeft' < StepsLeft
  BY NextInv DEF IInv, Next
<1> DEFINE A == AttemptSteps * (Size + 2 - attempts)
           B == SliceSteps * (NumSlices - slice)
<1>0. /\ Size \in Nat /\ AttemptSteps = Size + 2 /\ SliceSteps \in Nat
      /\ SliceSteps = AttemptSteps * (Size + 1) + AttemptSteps
      /\ AttemptSteps * (Size + 1) \in Nat
  BY StepConstants, Products
<1>1. /\ A \in Nat /\ A >= AttemptSteps /\ B \in Nat
      /\ Cardinality(Waiting) \in Nat /\ Cardinality(Waiting) <= Size
      /\ Cardinality(Waiting') \in Nat /\ Cardinality(Waiting') <= Size
  <2>1. Cardinality(Waiting') \in Nat /\ Cardinality(Waiting') <= Size
    <3>1. Waiting' \subseteq Builds
      BY DEF Waiting, TypeOK
    <3> QED
      BY <3>1, Sizes
  <2> QED
    BY <2>1, SliceBounds
<1>2. Size' = Size /\ AttemptSteps' = AttemptSteps /\ SliceSteps' = SliceSteps
  BY DEF Size, AttemptSteps, SliceSteps
<1>3. CASE StartBuilds
  <2>1. /\ StepsLeft = 6 * Size + 7 + B + A + (Size + 1)
        /\ StepsLeft' = 6 * Size + 7 + B + A + Cardinality(Waiting')
    BY <1>2, <1>3 DEF StartBuilds, StepsLeft
  <2> HIDE DEF A, B
  <2> QED
    BY <1>0, <1>1, <2>1
<1>4. CASE \E b \in Builds, v \in Verdicts : TaskEnds(b, v)
  <2>1. PICK b \in Builds, v \in Verdicts : TaskEnds(b, v)
    BY <1>4
  <2>2. Waiting' \subseteq Waiting /\ Waiting' # Waiting
    BY <2>1 DEF TaskEnds, Waiting, Verdicts, TypeOK
  <2>3. Cardinality(Waiting') < Cardinality(Waiting)
    <3>1. Waiting \subseteq Builds
      BY DEF Waiting, TypeOK
    <3> QED
      BY <2>2, <3>1, Sizes
  <2>4. /\ StepsLeft = 6 * Size + 7 + B + A + Cardinality(Waiting)
        /\ StepsLeft' = 6 * Size + 7 + B + A + Cardinality(Waiting')
    BY <1>2, <2>1 DEF TaskEnds, StepsLeft
  <2> HIDE DEF A, B
  <2> QED
    BY <1>0, <1>1, <2>3, <2>4
<1>5. CASE Retry
  <2>1. Waiting = {}
    BY <1>5 DEF Retry, AttemptReturns, Waiting
  <2>2. /\ StepsLeft = 6 * Size + 7 + B + A + Cardinality(Waiting)
        /\ StepsLeft' = 6 * Size + 7 + B
                        + AttemptSteps * (Size + 2 - (attempts + 1)) + (Size + 1)
    BY <1>2, <1>5 DEF Retry, AttemptReturns, StepsLeft
  <2>3. AttemptSteps * (Size + 2 - (attempts + 1)) = A - AttemptSteps
    <3>1. /\ Size + 2 - attempts \in Int
          /\ Size + 2 - (attempts + 1) = (Size + 2 - attempts) - 1
      BY <1>0 DEF TypeOK
    <3> QED
      BY <1>0, <3>1, Products, StepConstants
  <2>4. Cardinality(Waiting) = 0
    BY <2>1, SliceBounds
  <2> HIDE DEF A, B
  <2> QED
    BY <1>0, <1>1, <2>2, <2>3, <2>4
<1>6. CASE SliceEnds
  <2>1. StepsLeft = 6 * Size + 7 + B + A + Cardinality(Waiting)
    BY <1>6 DEF SliceEnds, AttemptReturns, StepsLeft
  <2>2. CASE pc' = "submit" /\ slice' = slice + 1 /\ attempts' = 1
    <3>1. StepsLeft' = 6 * Size + 7 + SliceSteps * (NumSlices - (slice + 1))
                       + AttemptSteps * (Size + 2 - 1) + (Size + 1)
      BY <1>2, <2>2 DEF StepsLeft
    <3>2. SliceSteps * (NumSlices - (slice + 1)) = B - SliceSteps
      <4>1. /\ NumSlices - slice \in Int
            /\ NumSlices - (slice + 1) = (NumSlices - slice) - 1
        BY SliceAssumption DEF TypeOK
      <4> QED
        BY <4>1, <1>0, Products
    <3>3. Size + 2 - 1 = Size + 1
      BY <1>0
    <3>4. StepsLeft' = 6 * Size + 7 + (B - SliceSteps)
                       + AttemptSteps * (Size + 1) + (Size + 1)
      BY <3>1, <3>2, <3>3
    <3> HIDE DEF A, B
    <3> QED
      BY <1>0, <1>1, <2>1, <3>4
  <2>3. CASE pc' = "record"
    <3>1. StepsLeft' = 6 * Size + 6
      BY <1>2, <2>3 DEF StepsLeft, PubSteps
    <3> HIDE DEF A, B
    <3> QED
      BY <1>0, <1>1, <2>1, <3>1
  <2> QED
    BY <1>6, <2>2, <2>3 DEF SliceEnds
<1> QED
  BY <1>3, <1>4, <1>5, <1>6 DEF Slices

(* and so does every other step, the timeout of an errata side-tag apart.  *)
LEMMA OthersLower ==
    ASSUME IInv, ~ErrataTagTimesOut,
           \/ RecordFailures \/ NotifyFailures \/ NotifyRaises
           \/ Publication \/ CallRaises
    PROVE  StepsLeft' < StepsLeft
<1>1. /\ todo \subseteq Builds /\ nvrs \subseteq Builds /\ successes \subseteq Builds
      /\ nvrs \subseteq successes
  BY DEF IInv, TypeOK, PubInv
<1>2. /\ Size \in Nat
      /\ Cardinality(todo) \in Nat /\ Cardinality(todo) <= Size
      /\ Cardinality(nvrs) \in Nat /\ Cardinality(nvrs) <= Size
      /\ Cardinality(successes) \in Nat /\ Cardinality(successes) <= Size
      /\ Cardinality(todo) = 0 <=> todo = {}
  BY <1>1, Sizes
<1>3. \A R : R \subseteq todo /\ R # todo =>
         Cardinality(R) \in Nat /\ Cardinality(R) < Cardinality(todo)
  BY <1>1, Sizes
<1>4. Size' = Size
  BY DEF Size
<1> USE DEF StepsLeft, PubSteps
<1>5. CASE RecordFailures \/ NotifyFailures \/ NotifyRaises
  BY <1>2, <1>4, <1>5 DEF RecordFailures, NotifyFailures, NotifyRaises
<1>6. CASE \E b \in todo : CollectNvr(b) \/ NoBuildInfo(b)
  <2>1. PICK b \in todo : CollectNvr(b) \/ NoBuildInfo(b)
    BY <1>6
  <2>2. todo' \subseteq todo /\ todo' # todo
    BY <2>1 DEF CollectNvr, NoBuildInfo
  <2> QED
    BY <1>2, <1>3, <1>4, <2>1, <2>2 DEF CollectNvr, NoBuildInfo
<1>7. CASE Finalize
  BY <1>2, <1>4, <1>7 DEF Finalize
<1>8. ASSUME NEW P \in SUBSET nvrs, TagDirectly(P)
      PROVE  StepsLeft' < StepsLeft
  <2>1. P \subseteq Builds
    BY <1>1
  <2>2. Cardinality(P) \in Nat /\ Cardinality(P) <= Size
    BY <2>1, Sizes
  <2> QED
    BY <1>2, <1>4, <1>8, <2>2 DEF TagDirectly
<1>8a. CASE NothingToTag
  BY <1>2, <1>4, <1>8a DEF NothingToTag
<1>9. ASSUME NEW S \in SUBSET todo, NEW P \in SUBSET S, PromoteChunk(S, P)
      PROVE  StepsLeft' < StepsLeft
  <2>1. ChunkSize # 0
    BY <1>2, <1>9, SizeAssumption DEF PromoteChunk, ChunkSize
  <2>2. S # {}
    BY <2>1, <1>9, FS_EmptySet DEF PromoteChunk
  <2>3. todo' \subseteq todo /\ todo' # todo
    BY <1>9, <2>2 DEF PromoteChunk
  <2>4. Cardinality(todo') \in Nat /\ Cardinality(todo') < Cardinality(todo)
    BY <1>3, <2>3
  <2> QED
    BY <1>2, <1>4, <1>9, <2>4 DEF PromoteChunk
<1>10. CASE CreateErrataTag \/ ErrataTagReady \/ SubmitUpdate
  BY <1>2, <1>4, <1>10
     DEF CreateErrataTag, ErrataTagReady, SubmitUpdate, pubVars
<1>10a. CASE AllSubmitted
  <2>1. UNION published \subseteq Builds
    BY <1>1 DEF IInv, PubInv
  <2>2. /\ Cardinality(UNION published) \in Nat
        /\ Cardinality(UNION published) <= Size
    BY <2>1, Sizes
  <2> QED
    BY <1>2, <1>4, <1>10a, <2>2 DEF AllSubmitted
<1>10b. CASE \E b \in todo : BuildArrives(b) \/ StableTimeout(b)
  <2>1. PICK b \in todo : BuildArrives(b) \/ StableTimeout(b)
    BY <1>10b
  <2>2. todo' \subseteq todo /\ todo' # todo /\ pc = "stable" /\ pc' = pc
    BY <2>1 DEF BuildArrives, StableTimeout
  <2> QED
    BY <1>2, <1>3, <1>4, <2>2
<1>11. CASE StableWaitEnds \/ RemoveSideTag
  BY <1>2, <1>4, <1>11 DEF StableWaitEnds, RemoveSideTag, pubVars
<1>12. CASE CallRaises
  <2>1. CASE pc = "submit"
    <3>1. /\ AttemptSteps * (Size + 2 - attempts) \in Nat
          /\ SliceSteps * (NumSlices - slice) \in Nat
      BY SliceBounds DEF IInv
    <3>2. StepsLeft = 6 * Size + 7 + SliceSteps * (NumSlices - slice)
                      + AttemptSteps * (Size + 2 - attempts) + (Size + 1)
      BY <2>1
    <3>3. StepsLeft' = 0
      BY <1>12 DEF CallRaises
    <3> QED
      BY <1>2, <3>1, <3>2, <3>3
  <2>2. CASE pc # "submit"
    BY <1>2, <1>4, <1>12, <2>2 DEF CallRaises
  <2> QED
    BY <2>1, <2>2
<1> QED
  BY <1>5, <1>6, <1>7, <1>8, <1>8a, <1>9, <1>10, <1>10a, <1>10b, <1>11, <1>12
     DEF Publication, Finalization

(* A run of n builds in s slices has (n + 2)^2 s + 6 n + 6 steps at most,  *)
(* apart from those that timeouts of errata side-tags cost.                *)
LEMMA StepsAtFirst == Init => StepsLeft = SliceSteps * NumSlices + 6 * Size + 6
<1> SUFFICES ASSUME Init
             PROVE  StepsLeft = SliceSteps * NumSlices + 6 * Size + 6
  OBVIOUS
<1>1. /\ Size \in Nat /\ AttemptSteps = Size + 2 /\ SliceSteps \in Nat
      /\ SliceSteps = AttemptSteps * (Size + 1) + AttemptSteps
      /\ AttemptSteps * (Size + 1) \in Nat
  BY StepConstants, Products
<1>2. /\ SliceSteps * NumSlices \in Nat
      /\ SliceSteps * (NumSlices - 1) = SliceSteps * NumSlices - SliceSteps
  BY <1>1, SliceAssumption, Products
<1>3. StepsLeft = 6 * Size + 7 + SliceSteps * (NumSlices - 1)
                  + AttemptSteps * (Size + 2 - 1) + (Size + 1)
  BY DEF Init, StepsLeft
<1>4. Size + 2 - 1 = Size + 1
  BY <1>1
<1>5. StepsLeft = 6 * Size + 7 + (SliceSteps * NumSlices - SliceSteps)
                  + AttemptSteps * (Size + 1) + (Size + 1)
  BY <1>2, <1>3, <1>4
<1> QED
  BY <1>1, <1>2, <1>5

(* Such a timeout starts the errata side-tag over.                         *)
LEMMA TimeoutRaises == IInv /\ ErrataTagTimesOut => StepsLeft' = StepsLeft + 1
<1>1. ASSUME IInv, ErrataTagTimesOut PROVE StepsLeft' = StepsLeft + 1
  <2>1. Size \in Nat /\ Cardinality(todo) \in Nat
    BY <1>1, Sizes DEF IInv, TypeOK
  <2>2. Size' = Size /\ todo' = todo /\ pc = "populate" /\ pc' = "errata"
    BY <1>1 DEF ErrataTagTimesOut, Size, pubVars
  <2> QED
    BY <2>1, <2>2 DEF StepsLeft, PubSteps
<1> QED
  BY <1>1

(* Retries, updates and the wait for the stable tag come to an end whatever*)
(* Koji and Bodhi answer: each step takes one off a number that is known   *)
(* when the run starts.  Only the errata side-tags have no bound: each     *)
(* timeout of one puts back the step that made it.                         *)
THEOREM RunIsFinite ==
    Spec => /\ StepsLeft = SliceSteps * NumSlices + 6 * Size + 6
            /\ [](StepsLeft \in Nat)
            /\ [][IF ErrataTagTimesOut THEN StepsLeft' = StepsLeft + 1
                                       ELSE StepsLeft' < StepsLeft]_vars
<1>1. IInv /\ [Next]_vars =>
         [IF ErrataTagTimesOut THEN StepsLeft' = StepsLeft + 1
                               ELSE StepsLeft' < StepsLeft]_vars
  <2> SUFFICES ASSUME IInv, [Next]_vars, ~UNCHANGED vars
               PROVE  IF ErrataTagTimesOut THEN StepsLeft' = StepsLeft + 1
                                           ELSE StepsLeft' < StepsLeft
    OBVIOUS
  <2>1. CASE ErrataTagTimesOut
    BY <2>1, TimeoutRaises
  <2>2. CASE ~ErrataTagTimesOut
    BY <2>2, SlicesLower, OthersLower DEF Next
  <2> QED
    BY <2>1, <2>2
<1> QED
  BY <1>1, StepsAtFirst, StepsAreNat, Invariance, PTL DEF Spec
=============================================================================
