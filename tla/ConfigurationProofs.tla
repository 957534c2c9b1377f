------------------------ MODULE ConfigurationProofs ------------------------
(* Proofs about the configuration in force, for any revisions, lists of    *)
(* packages and components.                                                *)
EXTENDS Configuration, FiniteSetTheorems, TLAPS

(* While Bodhi is asked, the update holds the revision and the list it has *)
(* fetched, which make a table that is not empty.                          *)
PendingInv == lpc = "rawhide" => Downstream(Table(yaml, list)) # {}

IInv == TypeOK /\ OneRevisionInForce /\ PendingInv

(* What is applied is whole.                                               *)
LEMMA AppliedIsWhole ==
    ASSUME NEW r \in Valid, NEW l \in Lists \cup {{}}, Apply(r, l),
           Downstream(Table(r, l)) # {}
    PROVE  /\ control' \in Valid /\ comps' \in Tables
           /\ OneRevisionInForce' /\ PendingInv'
BY DEF Apply, UpdateEnds, OneRevisionInForce, PendingInv, Downstream, Table,
       Tables

(* The update has ended with nothing applied.                              *)
LEMMA RetainedIsWhole ==
    ASSUME OneRevisionInForce, UpdateEnds, UNCHANGED configVars
    PROVE  OneRevisionInForce' /\ PendingInv'
BY DEF UpdateEnds, OneRevisionInForce, PendingInv, configVars, Downstream

LEMMA InitInv == Init => IInv
<1> SUFFICES ASSUME Init PROVE IInv
  OBVIOUS
<1> USE RevisionAssumption, NameAssumption, AttemptAssumption
<1>1. TypeOK
  BY DEF Init, TypeOK, ListFor, Table, Tables, LoaderStates, CleanupStates
<1>2. OneRevisionInForce /\ PendingInv
  BY DEF Init, OneRevisionInForce, PendingInv, Downstream, Table
<1> QED
  BY <1>1, <1>2 DEF IInv

(* The steps of an update.                                                 *)
LEMMA LoaderStep == ASSUME IInv, Loader \/ CloneFails \/ FetchFails PROVE IInv'
<1> USE RevisionAssumption, NameAssumption, AttemptAssumption
    DEF IInv, TypeOK, worldVars, configVars, cleanupVars, statusVars,
        LoaderStates
<1>1. CASE UpdateConfig
  <2>1. TypeOK'
    BY <1>1 DEF UpdateConfig
  <2>2. OneRevisionInForce' /\ PendingInv'
    BY <1>1 DEF UpdateConfig, OneRevisionInForce, PendingInv, Downstream
  <2> QED
    BY <2>1, <2>2
<1>2. CASE Clone \/ CloneFails \/ FetchFails
  <2>1. TypeOK'
    BY <1>2 DEF Clone, CloneFails, FetchFails, UpdateEnds
  <2>2. OneRevisionInForce' /\ PendingInv'
    BY <1>2 DEF Clone, CloneFails, FetchFails, UpdateEnds, OneRevisionInForce,
                PendingInv, Downstream
  <2> QED
    BY <2>1, <2>2
<1>3. CASE Packages
  <2> DEFINE l == ListFor(yaml, resolver)
  <2>1. yaml \in Valid /\ l \in Lists \cup {{}}
    BY <1>3 DEF Packages, ListFor
  <2>2. CASE Downstream(Table(yaml, l)) = {}
    <3>1. UpdateEnds /\ UNCHANGED <<configVars, worldVars, cleanupVars, statusVars>>
      BY <1>3, <2>2 DEF Packages
    <3>2. TypeOK'
      BY <3>1 DEF UpdateEnds
    <3> QED
      BY <3>1, <3>2, RetainedIsWhole
  <2>3. CASE Downstream(Table(yaml, l)) # {} /\ yaml \in AsksBodhi
    <3>1. /\ lpc' = "rawhide" /\ list' = l
          /\ UNCHANGED <<attempt, yaml, configVars, worldVars, cleanupVars,
                         statusVars>>
      BY <1>3, <2>3 DEF Packages
    <3>2. TypeOK'
      BY <3>1, <2>1, <1>3 DEF Packages
    <3>3. OneRevisionInForce' /\ PendingInv'
      BY <3>1, <2>3 DEF OneRevisionInForce, PendingInv, Downstream, Table
    <3> QED
      BY <3>2, <3>3
  <2>4. CASE Downstream(Table(yaml, l)) # {} /\ yaml \notin AsksBodhi
    <3>1. Apply(yaml, l) /\ UNCHANGED <<worldVars, cleanupVars, statusVars>>
      BY <1>3, <2>4 DEF Packages
    <3>2. control' \in Valid /\ comps' \in Tables /\ OneRevisionInForce'
          /\ PendingInv'
      BY <3>1, <2>1, <2>4, AppliedIsWhole
    <3>3. TypeOK'
      BY <3>1, <3>2 DEF Apply, UpdateEnds
    <3> QED
      BY <3>2, <3>3
  <2> QED
    BY <2>2, <2>3, <2>4
<1>4. CASE RawhideTag
  <2>1. /\ Apply(yaml, list) /\ yaml \in Valid
        /\ Downstream(Table(yaml, list)) # {}
        /\ UNCHANGED <<worldVars, cleanupVars, statusVars>>
    BY <1>4 DEF RawhideTag, PendingInv
  <2>2. control' \in Valid /\ comps' \in Tables /\ OneRevisionInForce'
        /\ PendingInv'
    BY <2>1, AppliedIsWhole
  <2>3. TypeOK'
    BY <2>1, <2>2 DEF Apply, UpdateEnds
  <2> QED
    BY <2>2, <2>3
<1> QED
  BY <1>1, <1>2, <1>3, <1>4 DEF Loader

(* The steps of everybody else.                                            *)
LEMMA OtherStep ==
    ASSUME IInv,
           \/ \E r \in Revisions : Push(r)
           \/ \E l \in Lists : ListChanges(l)
           \/ \E d \in Names : TagChanges(d)
           \/ CleanupTask \/ StatusTask \/ CleanupFails \/ StatusFails
    PROVE  IInv'
<1>1. UNCHANGED <<configVars, loaderVars>>
  BY DEF Push, ListChanges, TagChanges, CleanupTask, StatusTask, StartCleanup,
         Missing, Listings, CleanupFails, SkipComponent, PickComponent,
         InsertReturns, CleanupDone, StartStatus, BuildsListed,
         SetPackageStatus, PublishStatus, StatusFails
<1>2. OneRevisionInForce' /\ PendingInv'
  BY <1>1 DEF IInv, OneRevisionInForce, PendingInv, Downstream, Table,
              configVars, loaderVars
<1> USE <1>1, NameAssumption
    DEF IInv, TypeOK, Tables, worldVars, configVars, loaderVars, cleanupVars,
        statusVars, CleanupStates
<1>3. CASE \/ \E r \in Revisions : Push(r)
           \/ \E l \in Lists : ListChanges(l)
           \/ \E d \in Names : TagChanges(d)
  BY <1>2, <1>3 DEF Push, ListChanges, TagChanges
<1>4. Downstream(comps) \subseteq Names
  BY RevisionAssumption DEF Downstream
<1>5. CASE CleanupTask \/ CleanupFails
  BY <1>2, <1>4, <1>5
     DEF CleanupTask, StartCleanup, Missing, Listings, CleanupFails,
         SkipComponent, PickComponent, InsertReturns, CleanupDone, CleanupEnds
<1>6. CASE StatusTask \/ StatusFails
  BY <1>2, <1>4, <1>6
     DEF StatusTask, StartStatus, BuildsListed, SetPackageStatus,
         PublishStatus, StatusFails, StatusEnds
<1> QED
  BY <1>3, <1>5, <1>6

LEMMA StepInv == IInv /\ [Next]_vars => IInv'
<1>1. ASSUME IInv, Next PROVE IInv'
  BY <1>1, LoaderStep, OtherStep DEF Next, ServiceFails
<1>2. ASSUME IInv, UNCHANGED vars PROVE IInv'
  BY <1>2 DEF IInv, TypeOK, OneRevisionInForce, PendingInv, Downstream, Table,
              vars, worldVars, configVars, loaderVars, cleanupVars, statusVars
<1> QED
  BY <1>1, <1>2

THEOREM Invariance == Spec => []IInv
BY InitInv, StepInv, PTL DEF Spec

(* Every reachable state has its type, whatever the constants.             *)
THEOREM TypeCorrect == Spec => []TypeOK
BY Invariance, PTL DEF IInv

(* The configuration in force is of one revision and not empty, whatever   *)
(* is pushed, whatever fails and wherever the update is suspended.         *)
THEOREM WholeConfiguration == Spec => []OneRevisionInForce
BY Invariance, PTL DEF IInv

-----------------------------------------------------------------------------
(* How far the update is from what its sources say.                        *)

(* What the sources say, once they are read.                               *)
Source == Table(repo, ListFor(repo, resolver))
Usable == repo \in Valid /\ Downstream(Source) # {}
InForce == control = repo /\ comps = Source

(* What the update has read so far is what it would read now.              *)
Fresh ==
    /\ lpc \in {"packages", "rawhide"} => yaml = repo
    /\ lpc = "rawhide" => list = ListFor(repo, resolver)

StepsLeft == CASE lpc = "idle" -> 4 [] lpc = "clone" -> 3
               [] lpc = "packages" -> 2 [] OTHER -> 1

(* An update that read too early is to end first.                          *)
Lag == IF ~Fresh THEN 4 + StepsLeft ELSE IF InForce THEN 0 ELSE StepsLeft

(* While nobody changes the sources, the update comes nearer to them with  *)
(* each step; a failure sets it back to its beginning, and never from      *)
(* where it has got to.                                                    *)
LagShrinks ==
    Usable /\ UNCHANGED <<repo, resolver>> =>
        /\ Loader => Lag' < Lag \/ (Lag = 0 /\ Lag' = 0)
        /\ CloneFails \/ FetchFails => Lag' <= IF Lag < 4 /\ Lag # 0 THEN 4 ELSE Lag
        /\ ~(Loader \/ CloneFails \/ FetchFails) => Lag' = Lag

LEMMA LoaderIsCloser ==
    ASSUME IInv, Usable, UNCHANGED <<repo, resolver>>, Loader
    PROVE  Lag' < Lag \/ (Lag = 0 /\ Lag' = 0)
<1>1. Source' = Source
  BY DEF Source, Table, ListFor
<1> DEFINE S == Source
           L == ListFor(repo, resolver)
<1>2. S = Table(repo, L) /\ L' = L
  BY DEF Source, ListFor
<1>3. CASE UpdateConfig
  BY <1>1, <1>3 DEF UpdateConfig, configVars, Lag, Fresh, InForce, StepsLeft
<1>4. CASE Clone
  <2>1. /\ lpc = "clone" /\ lpc' = "packages" /\ yaml' = repo
        /\ UNCHANGED <<control, comps>>
    BY <1>4 DEF Clone, Usable, configVars
  <2> QED
    BY <1>1, <2>1 DEF Lag, Fresh, InForce, StepsLeft
<1>5. CASE Packages
  <2> DEFINE l == ListFor(yaml, resolver)
  <2>1. lpc = "packages"
    BY <1>5 DEF Packages
  <2>2. CASE Downstream(Table(yaml, l)) = {}
    <3>1. lpc' = "idle" /\ UNCHANGED <<control, comps>>
      BY <1>5, <2>2 DEF Packages, UpdateEnds, configVars
    <3>2. yaml # repo
      BY <2>2 DEF Usable, Source
    <3> QED
      BY <2>1, <3>1, <3>2, <1>1 DEF Lag, Fresh, InForce, StepsLeft
  <2>3. CASE Downstream(Table(yaml, l)) # {} /\ yaml \in AsksBodhi
    <3>1. /\ lpc' = "rawhide" /\ list' = l
          /\ UNCHANGED <<yaml, control, comps>>
      BY <1>5, <2>3 DEF Packages, configVars
    <3>2. yaml = repo => list' = ListFor(repo, resolver)'
      BY <3>1 DEF ListFor
    <3> QED
      BY <2>1, <3>1, <3>2, <1>1 DEF Lag, Fresh, InForce, StepsLeft
  <2>4. CASE Downstream(Table(yaml, l)) # {} /\ yaml \notin AsksBodhi
    <3>1. lpc' = "idle" /\ control' = yaml /\ comps' = Table(yaml, l)
      BY <1>5, <2>4 DEF Packages, Apply, UpdateEnds
    <3>2. yaml = repo => comps' = Source
      BY <3>1 DEF Source
    <3> QED
      BY <2>1, <3>1, <3>2, <1>1 DEF Lag, Fresh, InForce, StepsLeft
  <2> QED
    BY <2>2, <2>3, <2>4
<1>6. CASE RawhideTag
  <2>1. /\ lpc = "rawhide" /\ lpc' = "idle" /\ control' = yaml
        /\ comps' = Table(yaml, list)
    BY <1>6 DEF RawhideTag, Apply, UpdateEnds
  <2>2. yaml = repo /\ list = ListFor(repo, resolver) => comps' = Source
    BY <2>1 DEF Source
  <2> QED
    BY <2>1, <2>2, <1>1 DEF Lag, Fresh, InForce, StepsLeft
<1> QED
  BY <1>3, <1>4, <1>5, <1>6 DEF Loader

LEMMA FailureIsBounded ==
    ASSUME IInv, Usable, UNCHANGED <<repo, resolver>>, CloneFails \/ FetchFails
    PROVE  Lag' <= IF Lag < 4 /\ Lag # 0 THEN 4 ELSE Lag
<1>1. Source' = Source /\ UNCHANGED <<control, comps>>
  BY DEF Source, Table, ListFor, CloneFails, FetchFails, configVars
<1>2. CASE UpdateEnds /\ lpc \in {"clone", "packages", "rawhide"}
  BY <1>1, <1>2 DEF UpdateEnds, Lag, Fresh, InForce, StepsLeft
<1>3. CASE lpc = "clone" /\ UNCHANGED <<lpc, yaml, list>>
  BY <1>1, <1>3 DEF Lag, Fresh, InForce, StepsLeft
<1> QED
  BY <1>2, <1>3 DEF CloneFails, FetchFails

LEMMA OthersAreNeutral ==
    ASSUME UNCHANGED <<repo, resolver>>, [Next]_vars,
           ~(Loader \/ CloneFails \/ FetchFails)
    PROVE  Lag' = Lag
<1>1. UNCHANGED <<configVars, loaderVars>>
  BY DEF vars, Next, ServiceFails, Push, ListChanges, TagChanges, CleanupTask,
         StatusTask, StartCleanup, Missing, Listings, CleanupFails,
         SkipComponent, PickComponent, InsertReturns, CleanupDone, StartStatus,
         BuildsListed, SetPackageStatus, PublishStatus, StatusFails
<1>2. Source' = Source /\ ListFor(repo, resolver)' = ListFor(repo, resolver)
  BY DEF Source, Table, ListFor
<1> QED
  BY <1>1, <1>2
     DEF Lag, Fresh, InForce, StepsLeft, configVars, loaderVars

(* What fairness and ServicesRecover have to add for ConfigFollows: once   *)
(* the sources stay as they are, at most six steps of update_config lead   *)
(* to what they say, from wherever it was suspended, and nothing leads     *)
(* away from it, whatever fails.                                           *)
THEOREM UpdateCatchesUp == Spec => [][LagShrinks]_vars
<1>1. IInv /\ [Next]_vars => [LagShrinks]_vars
  BY LoaderIsCloser, FailureIsBounded, OthersAreNeutral DEF LagShrinks
<1> QED
  BY <1>1, Invariance, PTL DEF Spec

-----------------------------------------------------------------------------
(* Rounds.                                                                 *)

(* While no reload comes, the status page finds whatever it looks up.      *)
ListedInv == unset \subseteq Downstream(comps)

LEMMA ListedStep ==
    ListedInv /\ [Next]_vars /\ UNCHANGED comps => ListedInv'
<1> SUFFICES ASSUME ListedInv, [Next]_vars, UNCHANGED comps PROVE ListedInv'
  OBVIOUS
<1>1. unset' \subseteq unset \/ unset' = Downstream(comps)
  BY DEF vars, worldVars, configVars, loaderVars, cleanupVars, statusVars, Next,
         ServiceFails, Push, ListChanges, TagChanges, Loader, UpdateConfig,
         Clone, CloneFails, Packages, RawhideTag, FetchFails, CleanupTask,
         StatusTask, StartCleanup, Missing, Listings, CleanupFails,
         SkipComponent, PickComponent, InsertReturns, CleanupDone, StartStatus,
         BuildsListed, SetPackageStatus, PublishStatus, StatusFails, StatusEnds
<1>2. Downstream(comps)' = Downstream(comps)
  BY DEF Downstream
<1> QED
  BY <1>1, <1>2 DEF ListedInv

(* The lookup of a package that is gone.                                   *)
KeyError == \E p \in Names : p \notin Downstream(comps) /\ SetPackageStatus(p)

(* The KeyError of set_package_status is the doing of a reload: unless the *)
(* components change, no round of the status page meets one.               *)
THEOREM OnlyReloadsSpoil ==
    Spec /\ [][UNCHANGED comps]_vars => [][~KeyError]_vars
<1>1. Init => ListedInv
  BY DEF Init, ListedInv
<1>2. ListedInv /\ [Next]_vars /\ [UNCHANGED comps]_vars => ListedInv'
  <2>1. UNCHANGED vars => UNCHANGED comps
    BY DEF vars, configVars
  <2> QED
    BY <2>1, ListedStep
<1>3. ListedInv => [~KeyError]_vars
  BY DEF ListedInv, KeyError, SetPackageStatus
<1> QED
  BY <1>1, <1>2, <1>3, PTL DEF Spec

(* The steps that remain of a round of each of the three tasks.            *)
UpdateLeft == CASE lpc = "idle" -> 0
                [] lpc = "clone" -> 3 + (FetchAttempts - attempt)
                [] lpc = "packages" -> 2 [] OTHER -> 1
CleanupLeft == CASE cpc = "idle" -> 0
                 [] cpc = "missing" -> 2 * Cardinality(todo) + 4
                 [] cpc = "listings" -> 2 * Cardinality(todo) + 3
                 [] cpc = "insert" -> 2 * Cardinality(todo) + 2
                 [] OTHER -> 2 * Cardinality(todo) + 1
StatusLeft == CASE spc = "idle" -> 0
                [] spc = "builds" -> Cardinality(unset) + 2
                [] OTHER -> Cardinality(unset) + 1

UpdateTask == Loader \/ CloneFails \/ FetchFails

(* Every step of a round brings its end nearer, and nobody else's does     *)
(* anything to it: no reload, push or tag prolongs the round of another.   *)
RoundsShrink ==
    /\ UpdateLeft \in Nat /\ CleanupLeft \in Nat /\ StatusLeft \in Nat
    /\ lpc # "idle" => IF UpdateTask THEN UpdateLeft' < UpdateLeft
                                     ELSE UpdateLeft' = UpdateLeft
    /\ cpc # "idle" => IF CleanupTask \/ CleanupFails
                       THEN CleanupLeft' < CleanupLeft
                       ELSE CleanupLeft' = CleanupLeft
    /\ spc # "idle" => IF StatusTask \/ StatusFails
                       THEN StatusLeft' < StatusLeft
                       ELSE StatusLeft' = StatusLeft

LEMMA Sizes ==
    ASSUME NEW s \in SUBSET Names
    PROVE  /\ Cardinality(s) \in Nat
           /\ \A t \in SUBSET s : Cardinality(t) \in Nat
                                  /\ Cardinality(t) <= Cardinality(s)
           /\ \A d \in s : Cardinality(s \ {d}) = Cardinality(s) - 1
<1>1. IsFiniteSet(s)
  BY FiniteAssumption, FS_Subset
<1> QED
  BY <1>1, FS_CardinalityType, FS_Subset, FS_RemoveElement

LEMMA UpdateShrinks ==
    ASSUME TypeOK, lpc # "idle", UpdateTask PROVE UpdateLeft' < UpdateLeft
BY AttemptAssumption
   DEF TypeOK, LoaderStates, UpdateTask, Loader, UpdateConfig, Clone, Packages,
       RawhideTag, CloneFails, FetchFails, Apply, UpdateEnds, UpdateLeft

LEMMA CleanupShrinks ==
    ASSUME TypeOK, cpc # "idle", CleanupTask \/ CleanupFails
    PROVE  CleanupLeft' < CleanupLeft
<1> USE DEF TypeOK, CleanupStates, CleanupLeft
<1>1. todo \in SUBSET Names /\ Cardinality(todo) \in Nat
  BY Sizes
<1>2. CASE Missing
  <2>1. Cardinality(todo') \in Nat /\ Cardinality(todo') <= Cardinality(todo)
    BY <1>1, <1>2, Sizes DEF Missing
  <2> QED
    BY <1>1, <1>2, <2>1 DEF Missing
<1>3. CASE Listings \/ InsertReturns \/ CleanupDone \/ CleanupFails
  BY <1>1, <1>3 DEF Listings, InsertReturns, CleanupDone, CleanupFails, CleanupEnds
<1>4. ASSUME NEW d \in Names, SkipComponent(d) \/ PickComponent(d)
      PROVE  CleanupLeft' < CleanupLeft
  <2>1. Cardinality(todo') = Cardinality(todo) - 1
    BY <1>1, <1>4, Sizes DEF SkipComponent, PickComponent
  <2> QED
    BY <1>1, <1>4, <2>1 DEF SkipComponent, PickComponent
<1> QED
  BY <1>2, <1>3, <1>4 DEF CleanupTask, StartCleanup

LEMMA StatusShrinks ==
    ASSUME TypeOK, spc # "idle", StatusTask \/ StatusFails
    PROVE  StatusLeft' < StatusLeft
<1> USE DEF TypeOK, StatusLeft
<1>1. unset \in SUBSET Names /\ Cardinality(unset) \in Nat
  BY Sizes
<1>2. CASE BuildsListed \/ PublishStatus \/ StatusFails
  BY <1>1, <1>2 DEF BuildsListed, PublishStatus, StatusFails, StatusEnds
<1>3. ASSUME NEW p \in Names, SetPackageStatus(p)
      PROVE  StatusLeft' < StatusLeft
  <2>1. CASE spc' = "idle"
    BY <1>1, <1>3, <2>1 DEF SetPackageStatus
  <2>2. CASE spc' = spc /\ unset' = unset \ {p} /\ p \in unset
    <3>1. Cardinality(unset') = Cardinality(unset) - 1
      BY <1>1, <2>2, Sizes
    <3> QED
      BY <1>1, <1>3, <2>2, <3>1 DEF SetPackageStatus
  <2> QED
    BY <1>3, <2>1, <2>2 DEF SetPackageStatus, StatusEnds
<1> QED
  BY <1>2, <1>3 DEF StatusTask, StartStatus

(* Every round of update_config, of the cleanup and of the status page is  *)
(* over after a number of its own steps fixed when it starts, so that each *)
(* of the PeriodicTasks gets its coroutine back (the safety half of what   *)
(* PeriodicTask takes for granted, and of MissingIsPicked).                *)
THEOREM RoundsAreFinite == Spec => [][RoundsShrink]_vars
<1>1. ASSUME TypeOK, Next
      PROVE  RoundsShrink
  <2>1. ~UpdateTask => UpdateLeft' = UpdateLeft
    BY <1>1 DEF UpdateTask, UpdateLeft, loaderVars, Next, ServiceFails, Push,
         ListChanges, TagChanges, CleanupTask, StatusTask, StartCleanup,
         Missing, Listings, CleanupFails, SkipComponent, PickComponent,
         InsertReturns, CleanupDone, StartStatus, BuildsListed,
         SetPackageStatus, PublishStatus, StatusFails
  <2>2. ~(CleanupTask \/ CleanupFails) => CleanupLeft' = CleanupLeft
    <3>1. ~(CleanupTask \/ CleanupFails) => UNCHANGED cleanupVars
      BY <1>1 DEF Next, ServiceFails, Push, ListChanges, TagChanges, Loader,
         UpdateConfig, Clone, CloneFails, Packages, RawhideTag, FetchFails,
         StatusTask, StartStatus, BuildsListed, SetPackageStatus,
         PublishStatus, StatusFails
    <3> QED
      BY <3>1 DEF cleanupVars, CleanupLeft
  <2>3. ~(StatusTask \/ StatusFails) => StatusLeft' = StatusLeft
    <3>1. ~(StatusTask \/ StatusFails) => UNCHANGED statusVars
      BY <1>1 DEF Next, ServiceFails, Push, ListChanges, TagChanges, Loader,
         UpdateConfig, Clone, CloneFails, Packages, RawhideTag, FetchFails,
         CleanupTask, StartCleanup, Missing, Listings, CleanupFails,
         SkipComponent, PickComponent, InsertReturns, CleanupDone
    <3> QED
      BY <3>1 DEF statusVars, StatusLeft
  <2>4. UpdateLeft \in Nat /\ CleanupLeft \in Nat /\ StatusLeft \in Nat
    BY <1>1, Sizes, AttemptAssumption
       DEF TypeOK, UpdateLeft, CleanupLeft, StatusLeft
  <2> QED
    BY <1>1, <2>1, <2>2, <2>3, <2>4, UpdateShrinks, CleanupShrinks,
       StatusShrinks DEF RoundsShrink
<1>2. IInv /\ [Next]_vars => [RoundsShrink]_vars
  BY <1>1 DEF IInv
<1> QED
  BY <1>2, Invariance, PTL DEF Spec
=============================================================================
