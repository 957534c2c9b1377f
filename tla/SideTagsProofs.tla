--------------------------- MODULE SideTagsProofs ---------------------------
(* Proofs about the preparation of side-tags, for any set of builds and    *)
(* any number of retries and faults.                                       *)
EXTENDS SideTags, FiniteSetTheorems, TLAPS

(* A success comes from a message or a listing of the very tag, and no     *)
(* build leaves a tag or its base.                                         *)
TruthInv ==
    /\ \A k \in Keys : future[k] = "success" => InTag(k)
    /\ \A k \in pending : future[k] # "success"
    /\ \A n \in Nvrs : waiter[n] = "success" => InTag(Key(n))
    /\ \A n \in listing : InTag(<<asked, n>>)

(* The tag in hand exists, and its builds are awaited in one phase only.   *)
PhaseInv ==
    /\ pc \notin {"create", "failed"} => tag \in existing
    /\ \A n \in Nvrs : waiter[n] = "waiting" => pc = "wait"
    /\ pc = "ready" => \A n \in Nvrs : waiter[n] = "success"

IInv ==
    /\ TypeOK /\ ReadyMeansTagged /\ NoOrphan /\ NoStaleEntry
    /\ TruthInv /\ PhaseInv

(* A message or a listing settles the Futures it finds, if still pending.  *)
LEMMA FireFacts ==
    ASSUME future \in [Keys -> FutureStates], NEW K, Fire(K)
    PROVE  /\ future' \in [Keys -> FutureStates]
           /\ \A k \in Keys :
                 future'[k] = IF k \in K /\ future[k] = "pending"
                              THEN "success" ELSE future[k]
BY DEF Fire, FutureStates

(* The key of a build that is awaited.                                     *)
LEMMA KeyFacts ==
    ASSUME TypeOK, PhaseInv, NEW n \in Nvrs, waiter[n] = "waiting"
    PROVE  Key(n) \in Keys /\ tag \in Tags
BY BoundAssumption DEF TypeOK, PhaseInv, Key, Keys, Tags

(* What pending_nvr_tags holds.                                            *)
LEMMA EntryFacts ==
    ASSUME TypeOK, NoStaleEntry
    PROVE  \A k \in pending : k[2] \in Nvrs /\ k = Key(k[2])
<1>1. ASSUME NEW k \in Keys, k[1] = tag
      PROVE  k[2] \in Nvrs /\ k = <<tag, k[2]>>
  BY <1>1 DEF Keys
<1> QED
  BY <1>1 DEF TypeOK, NoStaleEntry, Key

(* The initial state.                                                      *)
LEMMA InitInv == Init => IInv
BY BoundAssumption
   DEF Init, IInv, TypeOK, ReadyMeansTagged, NoOrphan, NoStaleEntry, TruthInv,
       PhaseInv, Phases, PollStates, FutureStates, WaiterStates, NoTag

(* What Koji does keeps the invariant.                                     *)
LEMMA KojiInv ==
    ASSUME IInv,
           \/ \E k \in tagging : BuildTagged(k) \/ TaggingFails(k)
           \/ \E n \in BaseBuilds : BaseTagged(n)
    PROVE  IInv'
<1> USE DEF IInv, TypeOK, ReadyMeansTagged, NoOrphan, NoStaleEntry, TruthInv,
        InTag, PhaseInv, Key, pollVars, waitVars, kojiVars, outside
<1>1. ASSUME NEW k \in tagging, BuildTagged(k) PROVE IInv'
  BY <1>1 DEF BuildTagged
<1>2. ASSUME NEW k \in tagging, TaggingFails(k) PROVE IInv'
  BY <1>2 DEF TaggingFails
<1>3. ASSUME NEW n \in BaseBuilds, BaseTagged(n) PROVE IInv'
  BY <1>3 DEF BaseTagged
<1> QED
  BY <1>1, <1>2, <1>3

(* So does every step of the preparation,                                  *)
LEMMA PrepareInv == IInv /\ (Prepare \/ CreateSideTagRetried \/ CallRaises) => IInv'
<1> SUFFICES ASSUME IInv, Prepare \/ CreateSideTagRetried \/ CallRaises
             PROVE  IInv'
  OBVIOUS
<1> USE BoundAssumption DEF IInv, TypeOK, ReadyMeansTagged, NoOrphan,
        NoStaleEntry, TruthInv, InTag, PhaseInv, Phases, WaiterStates, Key, NoTag,
        pollVars, waitVars, kojiVars, outside
<1>1. CASE CreateSideTag
  BY <1>1 DEF CreateSideTag, NewTag
<1>2. CASE CreateSideTagRetried
  BY <1>2 DEF CreateSideTagRetried, NewTag, Fault
<1>3. CASE GetInfos
  BY <1>3 DEF GetInfos
<1>4. CASE TagBuilds
  <2>1. tag \in Tags
    BY <1>4 DEF TagBuilds, Tags
  <2> QED
    BY <1>4, <2>1 DEF TagBuilds, Keys
<1>5. CASE RegisterAll
  <2>1. tag \in Tags
    BY <1>5 DEF RegisterAll, Tags
  <2>2. pending = {}
    BY <1>5 DEF RegisterAll
  <2> QED
    BY <1>5, <2>1, <2>2 DEF RegisterAll, Keys, FutureStates
<1>6. CASE Gathered
  <2>1. pending = {}
    BY <1>6, EntryFacts DEF Gathered
  <2> QED
    BY <1>6, <2>1 DEF Gathered, Dropped, FutureStates
<1>7. CASE CancelTasks
  BY <1>7 DEF CancelTasks
<1>8. CASE RemoveSideTag
  BY <1>8 DEF RemoveSideTag
<1>9. CASE CallRaises
  <2>1. PICK S \in SUBSET Nvrs :
          /\ S # {} => pc = "tag"
          /\ tagging' = tagging \cup {<<tag, n>> : n \in S}
    BY <1>9 DEF CallRaises
  <2>2. S # {} => tag \in Tags
    BY <2>1 DEF Tags
  <2>3. tagging' \subseteq Keys
    BY <2>1, <2>2 DEF Keys
  <2> QED
    BY <1>9, <2>3 DEF CallRaises, Fault
<1> QED
  BY <1>1, <1>2, <1>3, <1>4, <1>5, <1>6, <1>7, <1>8, <1>9 DEF Prepare

(* a crash,                                                                *)
LEMMA CrashInv == IInv /\ Crash => IInv'
BY BoundAssumption
   DEF IInv, TypeOK, ReadyMeansTagged, NoOrphan, NoStaleEntry, TruthInv,
       PhaseInv, Phases, PollStates, WaiterStates, FutureStates, Key, NoTag, Crash, Fault,
       kojiVars, outside

(* every step of a wait,                                                   *)
LEMMA WaitInv ==
    ASSUME IInv, NEW n \in Nvrs, TimerFires(n) \/ WaitStep(n)
    PROVE  IInv'
<1> USE DEF IInv, TypeOK, ReadyMeansTagged, NoOrphan, NoStaleEntry, TruthInv,
        InTag, PhaseInv, PollStates, WaiterStates, FutureStates, pollVars, kojiVars, outside
<1>1. Key(n) \in Keys /\ waiter[n] = "waiting"
  BY KeyFacts DEF TimerFires, WaitStep, WaiterReturns, WaiterTimesOut
<1>2. CASE TimerFires(n)
  BY <1>1, <1>2 DEF TimerFires, Key
<1>3. CASE WaiterReturns(n)
  BY <1>1, <1>3, EntryFacts DEF WaiterReturns, Key
<1>4. CASE WaiterTimesOut(n)
  BY <1>1, <1>4, EntryFacts DEF WaiterTimesOut, Key
<1> QED
  BY <1>2, <1>3, <1>4 DEF WaitStep

(* settling some of the Futures that are registered, if their builds are   *)
(* tagged, and unregistering them,                                         *)
LEMMA SettleInv ==
    ASSUME IInv, NEW K, \A k \in K \cap pending : InTag(k),
           pending' = pending \ K, Fire(K \cap pending),
           UNCHANGED <<tag, tagged, inherited, waiter, pc>>
    PROVE  /\ future' \in [Keys -> FutureStates]
           /\ NoOrphan' /\ NoStaleEntry'
           /\ \A k \in Keys : future'[k] = "success" => InTag(k)
           /\ \A k \in pending' : future'[k] # "success"
<1> USE DEF IInv, TypeOK, PhaseInv
<1>1. /\ future' \in [Keys -> FutureStates]
      /\ \A j \in Keys :
            future'[j] = IF j \in K \cap pending /\ future[j] = "pending"
                         THEN "success" ELSE future[j]
  BY FireFacts
<1>2. NoOrphan'
  <2> SUFFICES ASSUME NEW n \in Nvrs, waiter[n] = "waiting",
                      future'[Key(n)] = "pending"
               PROVE  Key(n) \in pending'
    BY DEF NoOrphan, Key
  <2>1. Key(n) \in Keys
    BY KeyFacts
  <2>2. future[Key(n)] = "pending" /\ Key(n) \notin K \cap pending
    BY <1>1, <2>1
  <2> QED
    BY <2>2 DEF NoOrphan
<1>3. NoStaleEntry'
  BY DEF NoStaleEntry
<1>4. \A k \in Keys : future'[k] = "success" => InTag(k)
  BY <1>1 DEF TruthInv
<1>5. \A k \in pending' : future'[k] # "success"
  BY <1>1 DEF TruthInv
<1> QED
  BY <1>1, <1>2, <1>3, <1>4, <1>5

(* which is what a message does,                                           *)
LEMMA MessageInv ==
    ASSUME IInv, NEW k \in bus, DeliverMessage(k)
    PROVE  IInv'
<1>1. /\ \A j \in {k} \cap pending : InTag(j)
      /\ pending' = pending \ {k}
      /\ UNCHANGED <<tag, tagged, inherited, waiter, pc>>
      /\ Fire({k} \cap pending)
  BY DEF IInv, TypeOK, InTag, DeliverMessage, outside
<1>2. /\ future' \in [Keys -> FutureStates]
      /\ NoOrphan' /\ NoStaleEntry'
      /\ \A j \in Keys : future'[j] = "success" => InTag(j)
      /\ \A j \in pending' : future'[j] # "success"
  BY <1>1, SettleInv
<1> QED
  BY <1>1, <1>2 DEF IInv, TypeOK, ReadyMeansTagged, TruthInv, InTag, PhaseInv,
                    Key, DeliverMessage, pollVars, outside

(* and every step of the poll.                                             *)
LEMMA PollInv == IInv /\ (PollStep \/ PollRaises) => IInv'
<1> SUFFICES ASSUME IInv, PollStep \/ PollRaises PROVE IInv'
  OBVIOUS
<1> USE BoundAssumption DEF IInv, TypeOK, ReadyMeansTagged, NoOrphan,
        NoStaleEntry, TruthInv, InTag, PhaseInv, PollStates, Key, NoTag
<1>1. CASE PollAsk
  <2>1. PICK t \in Tags : /\ asked' = t
                          /\ watched' = {n \in Nvrs : <<t, n>> \in pending}
    BY <1>1 DEF PollAsk
  <2>2. PICK n \in Nvrs : <<t, n>> \in pending
    BY <1>1, <2>1 DEF PollAsk
  <2>3. t = tag
    BY <2>2
  <2> QED
    BY <1>1, <2>1, <2>3 DEF PollAsk, Tags, kojiVars, outside, waitVars
<1>2. CASE PollAnswered
  BY <1>2 DEF PollAnswered, kojiVars, outside, waitVars
<1>3. CASE PollFires
  <2> DEFINE found == {<<asked, n>> : n \in watched \cap listing}
  <2>1. \A k \in found : InTag(k)
    OBVIOUS
  <2>2. pending' = pending \ found /\ Fire(found \cap pending)
    BY <1>3 DEF PollFires
  <2> HIDE DEF found
  <2>3. UNCHANGED <<tag, tagged, inherited, waiter, pc>>
    BY <1>3 DEF PollFires, kojiVars, outside
  <2>4. /\ future' \in [Keys -> FutureStates]
        /\ NoOrphan' /\ NoStaleEntry'
        /\ \A k \in Keys : future'[k] = "success" => InTag(k)
        /\ \A k \in pending' : future'[k] # "success"
    BY <2>1, <2>2, <2>3, SettleInv
  <2> QED
    BY <1>3, <2>2, <2>4 DEF PollFires, kojiVars, outside
<1>4. CASE PollRaises
  BY <1>4 DEF PollRaises, Fault, kojiVars, outside, waitVars
<1> QED
  BY <1>1, <1>2, <1>3, <1>4 DEF PollStep

(* So the invariant is inductive.                                          *)
LEMMA NextInv == IInv /\ [Next]_vars => IInv'
<1> SUFFICES ASSUME IInv, [Next]_vars PROVE IInv'
  OBVIOUS
<1>1. CASE UNCHANGED vars
  BY <1>1 DEF IInv, TypeOK, ReadyMeansTagged, NoOrphan, NoStaleEntry, TruthInv,
              InTag, PhaseInv, Key, vars, kojiVars, outside, waitVars, pollVars
<1> QED
  BY <1>1, KojiInv, PrepareInv, CrashInv, WaitInv, MessageInv, PollInv DEF Next

-----------------------------------------------------------------------------
(* The side-tags are finitely many.                                        *)
LEMMA ExistingFinite ==
    ASSUME TypeOK
    PROVE  IsFiniteSet(existing) /\ Cardinality(existing) \in Nat
<1>1. created \in Int /\ existing \in SUBSET (1 .. created)
  BY BoundAssumption DEF TypeOK
<1>2. IsFiniteSet(1 .. created)
  BY <1>1, FS_Interval
<1> QED
  BY <1>1, <1>2, FS_Subset, FS_CardinalityType

(* At most one is made for every fault and every start.                    *)
LEMMA LeaksInit == Init => LeaksAccounted
BY FS_EmptySet DEF Init, LeaksAccounted

LEMMA LeaksNext == IInv /\ LeaksAccounted /\ [Next]_vars => LeaksAccounted'
<1> SUFFICES ASSUME IInv, LeaksAccounted, [Next]_vars PROVE LeaksAccounted'
  OBVIOUS
<1>1. IsFiniteSet(existing) /\ Cardinality(existing) \in Nat /\ faults \in Nat
  BY ExistingFinite, BoundAssumption DEF IInv, TypeOK
<1>2. ASSUME NewTag PROVE Cardinality(existing') = Cardinality(existing) + 1
  <2>1. created + 1 \notin existing
    BY BoundAssumption DEF IInv, TypeOK
  <2> QED
    BY <1>1, <1>2, <2>1, FS_AddElement DEF NewTag
<1>3. CASE CreateSideTag
  BY <1>1, <1>2, <1>3 DEF CreateSideTag, LeaksAccounted
<1>4. CASE CreateSideTagRetried
  BY <1>1, <1>2, <1>4 DEF CreateSideTagRetried, Fault, LeaksAccounted
<1>5. CASE RemoveSideTag
  <2>1. tag \in existing
    BY <1>5 DEF RemoveSideTag, IInv, PhaseInv
  <2>2. Cardinality(existing') = Cardinality(existing) - 1
    BY <1>1, <1>5, <2>1, FS_RemoveElement DEF RemoveSideTag
  <2> QED
    BY <1>1, <1>5, <2>2 DEF RemoveSideTag, LeaksAccounted
<1>6. CASE CallRaises \/ Crash
  BY <1>1, <1>6 DEF CallRaises, Crash, Fault, LeaksAccounted, kojiVars, outside
<1>7. CASE GetInfos \/ TagBuilds \/ RegisterAll \/ Gathered \/ CancelTasks
  BY <1>1, <1>7 DEF GetInfos, TagBuilds, RegisterAll, Gathered, CancelTasks,
                    LeaksAccounted, kojiVars, outside
<1>8. ASSUME UNCHANGED <<existing, pc>>, faults' \in {faults, faults + 1}
      PROVE  LeaksAccounted'
  BY <1>1, <1>8 DEF LeaksAccounted
<1>9. CASE \/ \E n \in Nvrs : TimerFires(n) \/ WaitStep(n)
           \/ \E k \in tagging : BuildTagged(k) \/ TaggingFails(k)
           \/ \E n \in BaseBuilds : BaseTagged(n)
           \/ \E k \in bus : DeliverMessage(k)
           \/ PollStep \/ PollRaises \/ UNCHANGED vars
  <2>1. UNCHANGED <<existing, pc>> /\ faults' \in {faults, faults + 1}
    BY <1>9 DEF TimerFires, WaitStep, WaiterReturns, WaiterTimesOut,
                BuildTagged, TaggingFails, BaseTagged, DeliverMessage,
                PollStep, PollAsk, PollAnswered, PollFires, PollRaises, Fault,
                kojiVars, vars
  <2> QED
    BY <1>8, <2>1
<1> QED
  BY <1>3, <1>4, <1>5, <1>6, <1>7, <1>9 DEF Next, Prepare

-----------------------------------------------------------------------------
(* The invariant holds of every behavior.                                  *)
THEOREM Invariance == Spec => []IInv
<1>1. IInv /\ [Next]_vars => IInv'
  BY NextInv
<1> QED
  BY InitInv, <1>1, PTL DEF Spec

(* Every variable of the preparation has its type.                         *)
THEOREM TypeCorrect == Spec => []TypeOK
<1>1. IInv => TypeOK
  BY DEF IInv
<1> QED
  BY Invariance, <1>1, PTL

(* A side-tag that is handed out exists and holds every build, its own or  *)
(* inherited, even when messages and listings of earlier tags are still    *)
(* under way.                                                              *)
THEOREM ReadyIsTagged == Spec => []ReadyMeansTagged
<1>1. IInv => ReadyMeansTagged
  BY DEF IInv
<1> QED
  BY Invariance, <1>1, PTL

(* No race of messages, poll and timers leaves a waiter with an unsettled  *)
(* Future that pending_nvr_tags has lost, nor an entry of a wait that is   *)
(* over or of a tag that was given up.                                     *)
THEOREM WaitsMatch == Spec => []WaitsMatchEntries
<1>1. IInv => WaitsMatchEntries
  BY DEF IInv, WaitsMatchEntries
<1> QED
  BY Invariance, <1>1, PTL

(* However often the preparation starts over, Koji keeps at most one       *)
(* side-tag more than there were failed calls and crashes.                 *)
THEOREM LeaksBounded == Spec => []LeaksAccounted
<1>1. IInv /\ LeaksAccounted /\ [Next]_vars => LeaksAccounted'
  BY LeaksNext
<1> QED
  BY Invariance, LeaksInit, <1>1, PTL DEF Spec

-----------------------------------------------------------------------------
(* The preparation implements its promise.                                 *)

(* Only tags that exist are tagged into, so a new tag is an empty one.     *)
FreshInv ==
    /\ \A k \in tagging : k[1] \in existing
    /\ \A k \in tagged : k[1] \in 1 .. created

LEMMA FreshInit == Init => FreshInv
BY DEF Init, FreshInv

LEMMA FreshNext == IInv /\ FreshInv /\ [Next]_vars => FreshInv'
<1> SUFFICES ASSUME IInv, FreshInv, [Next]_vars PROVE FreshInv'
  OBVIOUS
<1> USE BoundAssumption DEF FreshInv, IInv, TypeOK, PhaseInv, Key, kojiVars, outside
<1>1. CASE CreateSideTag \/ CreateSideTagRetried
  BY <1>1 DEF CreateSideTag, CreateSideTagRetried, NewTag
<1>2. CASE TagBuilds
  BY <1>2 DEF TagBuilds
<1>3. CASE CallRaises
  <2>1. PICK S \in SUBSET Nvrs :
          /\ S # {} => pc = "tag"
          /\ tagging' = tagging \cup {<<tag, n>> : n \in S}
    BY <1>3 DEF CallRaises
  <2> QED
    BY <1>3, <2>1 DEF CallRaises
<1>4. CASE CancelTasks \/ RemoveSideTag
  BY <1>4 DEF CancelTasks, RemoveSideTag
<1>5. CASE \E k \in tagging : BuildTagged(k) \/ TaggingFails(k)
  BY <1>5 DEF BuildTagged, TaggingFails
<1>6. CASE \/ GetInfos \/ RegisterAll \/ Gathered \/ Crash
           \/ \E n \in BaseBuilds : BaseTagged(n)
           \/ \E n \in Nvrs : TimerFires(n) \/ WaitStep(n)
           \/ \E k \in bus : DeliverMessage(k)
           \/ PollStep \/ PollRaises \/ UNCHANGED vars
  <2>1. UNCHANGED <<created, existing, tagging, tagged>>
    BY <1>6 DEF GetInfos, RegisterAll, Gathered, Crash, TimerFires, WaitStep,
                WaiterReturns, WaiterTimesOut, DeliverMessage, PollStep,
                PollAsk, PollAnswered, PollFires, PollRaises, BaseTagged, vars
  <2> QED
    BY <2>1
<1> QED
  BY <1>1, <1>2, <1>3, <1>4, <1>5, <1>6 DEF Next, Prepare

(* Each step of the preparation is one of its promise, or none.            *)
LEMMA StepRefines ==
    IInv /\ FreshInv /\ [Next]_vars => [Offer!Next]_(Offer!vars)
<1> SUFFICES ASSUME IInv, FreshInv, [Next]_vars
             PROVE  [Offer!Next]_(Offer!vars)
  OBVIOUS
<1> USE DEF Offer!vars, kojiVars, outside
<1>0. ASSUME NewTag
      PROVE  created + 1 \in Tags /\ Offer!New(created + 1)
  <2>1. /\ created \in Nat /\ created + 1 \in Tags
        /\ created + 1 \notin existing
    BY <1>0, BoundAssumption DEF NewTag, IInv, TypeOK, Tags
  <2>2. \A n \in Nvrs : <<created + 1, n>> \notin tagged
    <3> SUFFICES ASSUME NEW n \in Nvrs, <<created + 1, n>> \in tagged
                 PROVE  FALSE
      OBVIOUS
    <3>1. <<created + 1, n>>[1] \in 1 .. created
      BY DEF FreshInv
    <3> QED
      BY <2>1, <3>1
  <2> QED
    BY <2>1, <2>2 DEF Offer!New
<1>1. CASE CreateSideTag
  <2>1. created + 1 \in Tags /\ Offer!New(created + 1)
    BY <1>0, <1>1 DEF CreateSideTag
  <2>2. Offer!Take(created + 1)
    BY <1>1, <2>1 DEF CreateSideTag, NewTag, Offer!Take
  <2> QED
    BY <2>1, <2>2 DEF Offer!Next
<1>2. CASE CreateSideTagRetried
  <2>1. created + 1 \in Tags /\ Offer!New(created + 1)
    BY <1>0, <1>2 DEF CreateSideTagRetried
  <2>2. Offer!Lose(created + 1)
    BY <1>2, <2>1 DEF CreateSideTagRetried, NewTag, Offer!Lose
  <2> QED
    BY <2>1, <2>2 DEF Offer!Next
<1>3. CASE \E k \in tagging : BuildTagged(k)
  <2> PICK k \in tagging : BuildTagged(k)
    BY <1>3
  <2>1. /\ k[1] \in Tags /\ k[2] \in Nvrs /\ k = <<k[1], k[2]>>
        /\ k[1] \in existing
    BY DEF IInv, TypeOK, Keys, FreshInv
  <2>2. Offer!Fill(k[1], k[2])
    BY <2>1 DEF BuildTagged, Offer!Fill
  <2> QED
    BY <2>1, <2>2 DEF Offer!Next
<1>4. CASE RemoveSideTag
  <2>1. tag \in existing /\ tag # NoTag
    BY <1>4 DEF RemoveSideTag, IInv, TypeOK, PhaseInv, NoTag
  <2>2. Offer!GiveUp
    BY <1>4, <2>1 DEF RemoveSideTag, Offer!GiveUp
  <2> QED
    BY <2>2 DEF Offer!Next
<1>5. CASE Gathered
  <2>1. CASE \A n \in Nvrs : waiter[n] = "success"
    <3>1. /\ tag \in existing
          /\ \A n \in Nvrs : <<tag, n>> \in tagged \/ n \in inherited
      BY <1>5, <2>1 DEF Gathered, IInv, PhaseInv, TruthInv, InTag, Key
    <3>2. Offer!HandOut
      BY <1>5, <2>1, <3>1 DEF Gathered, Offer!HandOut
    <3> QED
      BY <3>2 DEF Offer!Next
  <2>2. CASE ~ \A n \in Nvrs : waiter[n] = "success"
    BY <1>5, <2>2 DEF Gathered
  <2> QED
    BY <2>1, <2>2
<1>6. CASE CallRaises \/ Crash
  <2>1. pc \notin {"ready", "failed"} /\ pc' = "failed"
    BY <1>6 DEF CallRaises, Crash
  <2>2. UNCHANGED <<existing, tagged, inherited>>
    BY <1>6 DEF CallRaises, Crash, outside
  <2>3. Offer!Fail
    BY <2>1, <2>2 DEF Offer!Fail
  <2> QED
    BY <2>3 DEF Offer!Next
<1>6a. CASE \E n \in BaseBuilds : BaseTagged(n)
  <2> PICK n \in BaseBuilds : BaseTagged(n)
    BY <1>6a
  <2>1. Offer!Inherit(n)
    BY DEF BaseTagged, Offer!Inherit
  <2> QED
    BY <2>1 DEF Offer!Next
<1>7. CASE \/ GetInfos \/ TagBuilds \/ RegisterAll \/ CancelTasks
           \/ \E n \in Nvrs : TimerFires(n) \/ WaitStep(n)
           \/ \E k \in tagging : TaggingFails(k)
           \/ \E k \in bus : DeliverMessage(k)
           \/ PollStep \/ PollRaises \/ UNCHANGED vars
  BY <1>7 DEF GetInfos, TagBuilds, RegisterAll, CancelTasks, TimerFires,
     WaitStep, WaiterReturns, WaiterTimesOut, TaggingFails, DeliverMessage,
     PollStep, PollAsk, PollAnswered, PollFires, PollRaises, vars
<1> QED
  BY <1>1, <1>2, <1>3, <1>4, <1>5, <1>6, <1>6a, <1>7 DEF Next, Prepare

(* For any builds, retries and faults the preparation keeps its promise.   *)
THEOREM OfferRefines == Spec => ImplementsOffer
<1>1. Init => Offer!Init
  BY DEF Init, Offer!Init, NoTag
<1>2. IInv /\ FreshInv /\ [Next]_vars => FreshInv'
  BY FreshNext
<1>3. Spec => []FreshInv
  BY <1>2, FreshInit, Invariance, PTL DEF Spec
<1> QED
  BY <1>1, <1>3, StepRefines, Invariance, PTL
     DEF Spec, ImplementsOffer, Offer!Spec

-----------------------------------------------------------------------------
(* How soon the poll finds a build in its tag.                             *)

(* The listing that is awaited or has come will show build k.              *)
Seen(k) == asked = k[1] /\ k[2] \in watched
               /\ (poll = "answered" => k[2] \in listing)

PollLag(k) == CASE poll = "idle" -> 3
                [] poll = "asking" -> IF Seen(k) THEN 2 ELSE 5
                [] OTHER -> IF Seen(k) THEN 1 ELSE 4

(* Every step of check_tags brings it nearer to a build that is tagged and *)
(* still awaited; one that raises sets it back to its beginning; and       *)
(* whoever takes out the entry fulfils it, unless its time is up or the    *)
(* process dies.                                                           *)
BuildIsNear(k) ==
    k \in pending /\ InTag(k) =>
        IF k \in pending'
        THEN IF PollStep THEN PollLag(k)' < PollLag(k)
             ELSE IF PollRaises THEN PollLag(k)' = 3
             ELSE PollLag(k)' = PollLag(k)
        ELSE k \in expired \/ Crash \/ future'[k] = "success"

LEMMA PollCloses ==
    ASSUME IInv, NEW k \in Keys, k \in pending, InTag(k), k \in pending',
           PollStep
    PROVE  PollLag(k)' < PollLag(k)
<1>1. k[2] \in Nvrs /\ k = <<k[1], k[2]>> /\ k[1] = tag
  BY DEF IInv, NoStaleEntry, Keys
<1>2. CASE PollAsk
  <2>1. PICK t \in Tags : /\ asked' = t
                          /\ watched' = {n \in Nvrs : <<t, n>> \in pending}
    BY <1>2 DEF PollAsk
  <2>2. PICK n \in Nvrs : <<t, n>> \in pending
    BY <1>2, <2>1 DEF PollAsk
  <2>3. <<t, n>>[1] = tag
    BY <2>2 DEF IInv, NoStaleEntry
  <2>4. t = tag
    BY <2>3
  <2>5. asked' = k[1] /\ k[2] \in watched'
    BY <1>1, <2>1, <2>4
  <2>6. poll = "idle" /\ poll' = "asking"
    BY <1>2 DEF PollAsk
  <2> QED
    BY <2>5, <2>6 DEF PollLag, Seen
<1>3. CASE PollAnswered
  <2>1. /\ poll = "asking" /\ poll' = "answered"
        /\ UNCHANGED <<asked, watched>>
        /\ listing' = {n \in Nvrs : InTag(<<asked, n>>)}
    BY <1>3 DEF PollAnswered
  <2>2. Seen(k) => Seen(k)'
    BY <1>1, <2>1 DEF Seen
  <2> QED
    BY <2>1, <2>2 DEF PollLag
<1>4. CASE PollFires
  <2>1. poll = "answered" /\ poll' = "idle"
    BY <1>4 DEF PollFires
  <2>2. ~Seen(k)
    <3>1. SUFFICES ASSUME Seen(k) PROVE FALSE
      OBVIOUS
    <3>2. k \in {<<asked, n>> : n \in watched \cap listing}
      BY <1>1, <2>1, <3>1 DEF Seen
    <3> QED
      BY <1>4, <3>2 DEF PollFires
  <2> QED
    BY <2>1, <2>2 DEF PollLag
<1> QED
  BY <1>2, <1>3, <1>4 DEF PollStep

(* An entry is unsettled unless its timer has fired.                       *)
UnsettledInv == \A k \in pending : future[k] = "pending" \/ k \in expired

LEMMA UnsettledStep == IInv /\ UnsettledInv /\ [Next]_vars => UnsettledInv'
<1> SUFFICES ASSUME IInv, UnsettledInv, [Next]_vars
             PROVE  UnsettledInv'
  OBVIOUS
<1>1. /\ future \in [Keys -> FutureStates] /\ pending \in SUBSET Keys
      /\ expired \in SUBSET Keys
  BY DEF IInv, TypeOK
<1>2. CASE UNCHANGED <<pending, future, expired>>
  BY <1>2 DEF UnsettledInv
<1>3. CASE RegisterAll
  <2>1. pending = {}
    BY <1>3 DEF RegisterAll, IInv, NoStaleEntry
  <2>2. /\ \A k \in pending' : k[1] = tag
        /\ pending' \in SUBSET Keys
    <3>1. pending' = {Key(n) : n \in Nvrs}
      BY <1>3, <2>1 DEF RegisterAll
    <3>2. tag \in Tags
      BY <1>3, BoundAssumption DEF RegisterAll, IInv, TypeOK, PhaseInv, Tags
    <3> QED
      BY <3>1, <3>2 DEF Key, Keys
  <2>3. \A k \in Keys : k[1] = tag => future'[k] = "pending"
    BY <1>3 DEF RegisterAll
  <2> QED
    BY <2>2, <2>3 DEF UnsettledInv
<1>4. CASE Gathered
  BY <1>1, <1>4 DEF Gathered, Dropped, UnsettledInv
<1>5. CASE Crash
  BY <1>5 DEF Crash, UnsettledInv
<1>6. ASSUME NEW n \in Nvrs, TimerFires(n) \/ WaiterTimesOut(n)
      PROVE  UnsettledInv'
  BY <1>1, <1>6 DEF TimerFires, WaiterTimesOut, UnsettledInv
<1>7. ASSUME NEW j \in bus, DeliverMessage(j)
      PROVE  UnsettledInv'
  <2>1. /\ pending' = pending \ {j} /\ expired' = expired
        /\ Fire({j} \cap pending)
    BY <1>7 DEF DeliverMessage
  <2> QED
    BY <1>1, <2>1, FireFacts DEF UnsettledInv
<1>8. CASE PollFires
  <2> DEFINE F == {<<asked, n>> : n \in watched \cap listing}
  <2>1. /\ pending' = pending \ F /\ expired' = expired
        /\ Fire(F \cap pending)
    BY <1>8 DEF PollFires
  <2> HIDE DEF F
  <2> QED
    BY <1>1, <2>1, FireFacts DEF UnsettledInv
<1> QED
  BY <1>2, <1>3, <1>4, <1>5, <1>6, <1>7, <1>8
     DEF Next, Prepare, WaitStep, PollStep, CreateSideTag, GetInfos, TagBuilds,
         CancelTasks, RemoveSideTag, CallRaises, CreateSideTagRetried,
         WaiterReturns, BuildTagged, TaggingFails, BaseTagged, PollAsk, PollAnswered,
         PollRaises, waitVars, vars

LEMMA BuildIsTold ==
    ASSUME IInv, UnsettledInv, Next, NEW k \in pending, k \notin pending',
           k \notin expired, ~Crash
    PROVE  future'[k] = "success"
<1>1. future[k] = "pending"
  BY DEF UnsettledInv
<1>2. k \in Keys /\ future \in [Keys -> FutureStates]
  BY DEF IInv, TypeOK
<1>3. ASSUME NEW j \in bus, DeliverMessage(j)
      PROVE  future'[k] = "success"
  <2>1. pending' = pending \ {j} /\ Fire({j} \cap pending)
    BY <1>3 DEF DeliverMessage
  <2> QED
    BY <1>1, <1>2, <2>1, FireFacts
<1>4. CASE PollFires
  <2> DEFINE F == {<<asked, n>> : n \in watched \cap listing}
  <2>1. pending' = pending \ F /\ Fire(F \cap pending)
    BY <1>4 DEF PollFires
  <2> HIDE DEF F
  <2> QED
    BY <1>1, <1>2, <2>1, FireFacts
<1>5. ASSUME NEW n \in Nvrs, WaiterTimesOut(n)
      PROVE  FALSE
  BY <1>5 DEF WaiterTimesOut
<1>6. UNCHANGED pending \/ (\E j \in bus : DeliverMessage(j)) \/ PollFires
      \/ (\E n \in Nvrs : WaiterTimesOut(n)) \/ k \in pending'
  BY DEF Next, Prepare, WaitStep, PollStep, CreateSideTag, GetInfos, TagBuilds,
         RegisterAll, Gathered, CancelTasks, RemoveSideTag, CallRaises,
         CreateSideTagRetried, TimerFires, WaiterReturns, BuildTagged,
         BaseTagged, TaggingFails, PollAsk, PollAnswered, PollRaises, waitVars
<1> QED
  BY <1>3, <1>4, <1>5, <1>6

(* An entry in pending_nvr_tags is settled only when its timer has fired,  *)
(* so that a message or a listing that claims it has something to tell.    *)
THEOREM EntriesAreOpen == Spec => []UnsettledInv
<1>1. Init => UnsettledInv
  BY DEF Init, UnsettledInv
<1> QED
  BY <1>1, UnsettledStep, Invariance, PTL DEF Spec

(* For EventuallyReady, when every message is lost: a build that is tagged *)
(* is found by the second listing at the latest.                           *)
THEOREM PollFindsBuild == Spec => [][\A k \in Keys : BuildIsNear(k)]_vars
<1>1. ASSUME IInv, UnsettledInv, Next, NEW k \in Keys
      PROVE  BuildIsNear(k)
  <2>1. ASSUME k \in pending, k \notin pending'
        PROVE  k \in expired \/ Crash \/ future'[k] = "success"
    BY <1>1, <2>1, BuildIsTold
  <2>2. ASSUME k \in pending', PollRaises, ~PollStep
        PROVE  PollLag(k)' = 3
    BY <2>2 DEF PollRaises, PollLag
  <2>3. ASSUME k \in pending', ~PollStep, ~PollRaises
        PROVE  PollLag(k)' = PollLag(k)
    <3>1. UNCHANGED pollVars
      BY <1>1, <2>3 DEF Next, Prepare, WaitStep, CreateSideTag, GetInfos,
         TagBuilds, RegisterAll, Gathered, CancelTasks, RemoveSideTag,
         CallRaises, CreateSideTagRetried, TimerFires, WaiterReturns,
         WaiterTimesOut, BuildTagged, TaggingFails, BaseTagged, DeliverMessage,
         Crash
    <3> QED
      BY <3>1 DEF pollVars, PollLag, Seen
  <2> QED
    BY <1>1, <2>1, <2>2, <2>3, PollCloses DEF BuildIsNear
<1>2. IInv /\ UnsettledInv /\ [Next]_vars
      => [\A k \in Keys : BuildIsNear(k)]_vars
  BY <1>1
<1> QED
  BY <1>2, Invariance, EntriesAreOpen, PTL DEF Spec
=============================================================================
