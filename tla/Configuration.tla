--------------------------- MODULE Configuration ---------------------------
(***************************************************************************)
(* The dynamic configuration, who replaces it and who relies on it.        *)
(*                                                                         *)
(* update_config clones the configuration repository every 15 minutes and  *)
(* asks Content Resolver for the list of packages; config.control and      *)
(* config.comps are replaced when both are there.  The periodic cleanup    *)
(* (cleanup.py, batching.rebuild_from_components) and the status page      *)
(* (status.py) start from a copy of the component names and look the       *)
(* components up again after every await, when another configuration may   *)
(* be in force.  The three are PeriodicTasks on one event loop; the        *)
(* services they ask may fail at any time.                                 *)
(***************************************************************************)
EXTENDS Naturals, FiniteSets

CONSTANTS
    Names,         \* component names
    Revisions,     \* of the configuration repository
    Valid,         \* those whose YAML and control block are complete
    AsksResolver,  \* those with an autopackagelist
    AsksBodhi,     \* those whose trigger_tag is "rawhide"
    Overrides,     \* names under components.overrides, by revision
    Excluded,      \* names matched by control.exclude, by revision
    Lists,         \* what Content Resolver may answer
    HasBuild,      \* names with a build in Rawhide or ELN
    NoRevision, NoName,
    FetchAttempts  \* DYNAMIC_CONFIG_FETCH_ATTEMPTS

ASSUME RevisionAssumption ==
    /\ Valid \subseteq Revisions /\ AsksResolver \subseteq Valid
    /\ AsksBodhi \subseteq Valid
    /\ Overrides \in [Valid -> SUBSET Names]
    /\ Excluded \in [Valid -> SUBSET Names]
    /\ NoRevision \notin Revisions
ASSUME NameAssumption ==
    Lists \subseteq SUBSET Names /\ HasBuild \subseteq Names
        /\ NoName \notin Names
ASSUME AttemptAssumption == FetchAttempts \in Nat \ {0}
ASSUME FiniteAssumption == IsFiniteSet(Names)

(* A components block: its revision and the list it was combined with.     *)
Table(r, l) == [rev |-> r, list |-> l]

(* _parse_components: the keys of downstream_components.                   *)
Downstream(c) == c.list \cup Overrides[c.rev]

(* The list that revision r is combined with when Content Resolver says l. *)
ListFor(r, l) == IF r \in AsksResolver THEN l ELSE {}

VARIABLES
    repo,      \* the revision the branch is at
    resolver,  \* the list of Content Resolver
    tagged,    \* names with a build in ELN's stable tag
    \* config
    control,   \* the revision it is from
    comps,
    \* update_config
    lpc, attempt, yaml, list,
    \* periodic_cleanup and rebuild_from_components
    cpc, todo, cur,
    \* create_status_page
    spc, unset

worldVars == <<repo, resolver, tagged>>
configVars == <<control, comps>>
loaderVars == <<lpc, attempt, yaml, list>>
cleanupVars == <<cpc, todo, cur>>
statusVars == <<spc, unset>>
vars == <<worldVars, configVars, loaderVars, cleanupVars, statusVars>>

(* _main ends the process unless the first configuration is good.          *)
Init ==
    /\ repo \in Valid /\ resolver \in Lists
    /\ Downstream(Table(repo, ListFor(repo, resolver))) # {}
    /\ control = repo
    /\ comps = Table(repo, ListFor(repo, resolver))
    /\ tagged \in SUBSET HasBuild
    /\ lpc = "idle" /\ attempt = 0 /\ yaml = NoRevision /\ list = {}
    /\ cpc = "idle" /\ todo = {} /\ cur = NoName
    /\ spc = "idle" /\ unset = {}

-----------------------------------------------------------------------------
(* What others do meanwhile.                                               *)

Push(r) ==
    /\ repo' = r
    /\ UNCHANGED <<resolver, tagged, configVars, loaderVars, cleanupVars,
                   statusVars>>

ListChanges(l) ==
    /\ resolver' = l
    /\ UNCHANGED <<repo, tagged, configVars, loaderVars, cleanupVars,
                   statusVars>>

(* A build of d reaches the stable tag, or its last one is untagged.       *)
TagChanges(d) ==
    /\ d \in HasBuild
    /\ tagged' \in {tagged \cup {d}, tagged \ {d}}
    /\ UNCHANGED <<repo, resolver, configVars, loaderVars, cleanupVars,
                   statusVars>>

-----------------------------------------------------------------------------
(* config.update_config                                                    *)

(* The update is over, with the configuration replaced or retained.        *)
UpdateEnds ==
    lpc' = "idle" /\ attempt' = 0 /\ yaml' = NoRevision /\ list' = {}

(* Mutant of UpdateConfig: a ref that is in force already is left alone.   *)
UpdateConfig_Moved ==
    /\ lpc = "idle" /\ repo # control
    /\ lpc' = "clone" /\ attempt' = 1
    /\ UNCHANGED <<worldVars, configVars, yaml, list, cleanupVars, statusVars>>

(* The branch has a ref; which one does not matter to what follows.        *)
UpdateConfig ==
    /\ lpc = "idle"
    /\ lpc' = "clone" /\ attempt' = 1
    /\ UNCHANGED <<worldVars, configVars, yaml, list, cleanupVars, statusVars>>

(* What the branch is at is read and its control block parsed; a file that *)
(* is missing or wrong is a ConfigError, which is not retried.             *)
Clone ==
    /\ lpc = "clone"
    /\ IF repo \in Valid
       THEN lpc' = "packages" /\ yaml' = repo /\ attempt' = 0 /\ UNCHANGED list
       ELSE UpdateEnds
    /\ UNCHANGED <<worldVars, configVars, cleanupVars, statusVars>>

(* Each attempt has a directory of its own; the last one gives up.         *)
CloneFails ==
    /\ lpc = "clone"
    /\ IF attempt < FetchAttempts
       THEN attempt' = attempt + 1 /\ UNCHANGED <<lpc, yaml, list>>
       ELSE UpdateEnds
    /\ UNCHANGED <<worldVars, configVars, cleanupVars, statusVars>>

(* Both globals are assigned without an await in between.                  *)
Apply(r, l) ==
    /\ control' = r
    /\ comps' = Table(r, l)
    /\ UpdateEnds

(* Mutant of Packages: the control block takes effect at once.             *)
Packages_ControlFirst ==
    /\ lpc = "packages"
    /\ LET l == ListFor(yaml, resolver) IN
       IF Downstream(Table(yaml, l)) = {} THEN UpdateEnds /\ UNCHANGED configVars
       ELSE IF yaml \in AsksBodhi
            THEN /\ lpc' = "rawhide" /\ list' = l
                 /\ control' = yaml
                 /\ UNCHANGED <<attempt, yaml, comps>>
            ELSE Apply(yaml, l)
    /\ UNCHANGED <<worldVars, cleanupVars, statusVars>>

(* Content Resolver has answered, if it is asked at all.  An empty table   *)
(* is refused.                                                             *)
Packages ==
    /\ lpc = "packages"
    /\ LET l == ListFor(yaml, resolver) IN
       IF Downstream(Table(yaml, l)) = {} THEN UpdateEnds /\ UNCHANGED configVars
       ELSE IF yaml \in AsksBodhi
            THEN /\ lpc' = "rawhide" /\ list' = l
                 /\ UNCHANGED <<attempt, yaml, configVars>>
            ELSE Apply(yaml, l)
    /\ UNCHANGED <<worldVars, cleanupVars, statusVars>>

(* Bodhi has named the tag of Rawhide.                                     *)
RawhideTag ==
    /\ lpc = "rawhide"
    /\ Apply(yaml, list)
    /\ UNCHANGED <<worldVars, cleanupVars, statusVars>>

(* Either failed for a minute.                                             *)
FetchFails ==
    /\ lpc \in {"packages", "rawhide"}
    /\ UpdateEnds
    /\ UNCHANGED <<worldVars, configVars, cleanupVars, statusVars>>

Loader == UpdateConfig \/ Clone \/ Packages \/ RawhideTag

-----------------------------------------------------------------------------
(* cleanup.periodic_cleanup and batching.rebuild_from_components           *)

IsEligible(d) == d \in Downstream(comps) /\ d \notin Excluded[control]

(* The copy of the names; then Koji is asked for the stable tag.           *)
StartCleanup ==
    /\ cpc = "idle"
    /\ cpc' = "missing" /\ todo' = Downstream(comps)
    /\ UNCHANGED <<worldVars, configVars, loaderVars, cur, statusVars>>

(* Mutant of Missing: the difference is taken the wrong way round.         *)
Missing_Swapped ==
    /\ cpc = "missing"
    /\ cpc' = "listings" /\ todo' = tagged \ todo
    /\ UNCHANGED <<worldVars, configVars, loaderVars, cur, statusVars>>

Missing ==
    /\ cpc = "missing"
    /\ cpc' = "listings" /\ todo' = todo \ tagged
    /\ UNCHANGED <<worldVars, configVars, loaderVars, cur, statusVars>>

(* The latest builds of the trigger tag and of the target's tag are known. *)
Listings ==
    /\ cpc = "listings"
    /\ cpc' = "each"
    /\ UNCHANGED <<worldVars, configVars, loaderVars, todo, cur, statusVars>>

CleanupEnds == cpc' = "idle" /\ todo' = {} /\ cur' = NoName

(* An exception of a listing ends the round; the PeriodicTask logs it.     *)
CleanupFails ==
    /\ cpc \in {"missing", "listings"}
    /\ CleanupEnds
    /\ UNCHANGED <<worldVars, configVars, loaderVars, statusVars>>

(* The turn of d, which has been removed or excluded, or has no build.     *)
SkipComponent(d) ==
    /\ cpc = "each" /\ d \in todo
    /\ ~IsEligible(d) \/ d \notin HasBuild
    /\ todo' = todo \ {d}
    /\ UNCHANGED <<worldVars, configVars, loaderVars, cpc, cur, statusVars>>

(* The turn of d: the newer of its builds is chosen, the lull timer reset  *)
(* and the insertion of a trigger begun.                                   *)
PickComponent(d) ==
    /\ cpc = "each" /\ d \in todo
    /\ IsEligible(d) /\ d \in HasBuild
    /\ cpc' = "insert" /\ cur' = d /\ todo' = todo \ {d}
    /\ UNCHANGED <<worldVars, configVars, loaderVars, statusVars>>

(* The row is committed, or the exception logged: the next one's turn.     *)
InsertReturns ==
    /\ cpc = "insert"
    /\ cpc' = "each" /\ cur' = NoName
    /\ UNCHANGED <<worldVars, configVars, loaderVars, todo, statusVars>>

CleanupDone ==
    /\ cpc = "each" /\ todo = {}
    /\ CleanupEnds
    /\ UNCHANGED <<worldVars, configVars, loaderVars, statusVars>>

CleanupTask ==
    \/ StartCleanup \/ Missing \/ Listings \/ InsertReturns \/ CleanupDone
    \/ \E d \in Names : SkipComponent(d) \/ PickComponent(d)

-----------------------------------------------------------------------------
(* status.create_status_page                                               *)

StartStatus ==
    /\ spc = "idle"
    /\ spc' = "builds" /\ unset' = Downstream(comps)
    /\ UNCHANGED <<worldVars, configVars, loaderVars, cleanupVars>>

(* Koji has said who it is talking to, what is tagged and what was built.  *)
BuildsListed ==
    /\ spc = "builds"
    /\ spc' = "each"
    /\ UNCHANGED <<worldVars, configVars, loaderVars, cleanupVars, unset>>

StatusEnds == spc' = "idle" /\ unset' = {}

(* Mutant of SetPackageStatus: the KeyError is caught where it is raised,  *)
(* and the package waits for a configuration that has it again.            *)
SetPackageStatus_Waits(p) ==
    /\ spc = "each" /\ p \in unset
    /\ p \in Downstream(comps) \/ p \notin HasBuild
    /\ unset' = unset \ {p}
    /\ UNCHANGED <<worldVars, configVars, loaderVars, cleanupVars, spc>>

(* A package without builds has no status.  The view of one that has is    *)
(* looked up in config.comps, where it may be no longer: the KeyError ends *)
(* the round and the old page stays.                                       *)
SetPackageStatus(p) ==
    /\ spc = "each" /\ p \in unset
    /\ \/ /\ p \in Downstream(comps) \/ p \notin HasBuild
          /\ unset' = unset \ {p} /\ UNCHANGED spc
       \/ p \notin Downstream(comps) /\ p \in HasBuild /\ StatusEnds
    /\ UNCHANGED <<worldVars, configVars, loaderVars, cleanupVars>>

(* encoded_json_data is assigned.                                          *)
PublishStatus ==
    /\ spc = "each" /\ unset = {}
    /\ StatusEnds
    /\ UNCHANGED <<worldVars, configVars, loaderVars, cleanupVars>>

StatusFails ==
    /\ spc \in {"builds", "each"} /\ (spc = "each" => unset # {})
    /\ StatusEnds
    /\ UNCHANGED <<worldVars, configVars, loaderVars, cleanupVars>>

StatusTask ==
    \/ StartStatus \/ BuildsListed \/ PublishStatus
    \/ \E p \in Names : SetPackageStatus(p)

-----------------------------------------------------------------------------
ServiceFails == CloneFails \/ FetchFails \/ CleanupFails \/ StatusFails

Next ==
    \/ \E r \in Revisions : Push(r)
    \/ \E l \in Lists : ListChanges(l)
    \/ \E d \in Names : TagChanges(d)
    \/ Loader \/ CleanupTask \/ StatusTask
    \/ ServiceFails

Spec == Init /\ [][Next]_vars

(* Three PeriodicTasks; every await of theirs returns or raises.           *)
FairSpec == Spec /\ WF_vars(Loader) /\ WF_vars(CleanupTask)
                 /\ WF_vars(StatusTask)

-----------------------------------------------------------------------------
LoaderStates == {"idle", "clone", "packages", "rawhide"}
CleanupStates == {"idle", "missing", "listings", "each", "insert"}
Tables == [rev : Valid, list : Lists \cup {{}}]

TypeOK ==
    /\ repo \in Revisions /\ resolver \in Lists /\ tagged \subseteq Names
    /\ control \in Valid /\ comps \in Tables
    /\ lpc \in LoaderStates /\ attempt \in 0 .. FetchAttempts
    /\ yaml \in Valid \cup {NoRevision} /\ list \in Lists \cup {{}}
    /\ (yaml # NoRevision) <=> (lpc \in {"packages", "rawhide"})
    /\ cpc \in CleanupStates /\ todo \subseteq Names
    /\ cur \in Names \cup {NoName}
    /\ spc \in {"idle", "builds", "each"} /\ unset \subseteq Names

(* At every await of anybody, the control block and the component table    *)
(* in force come from one revision, and the table is not empty: with an    *)
(* empty one every tag event would be dropped as that of a foreign         *)
(* component (load_dynamic_config, _parse_components).                     *)
OneRevisionInForce == comps.rev = control /\ Downstream(comps) # {}

(* Nothing is asked of the repository, Content Resolver, Bodhi or Koji     *)
(* that it goes on refusing.                                               *)
ServicesRecover == <>[][~ServiceFails]_vars

(* What is in force follows the list of Content Resolver even if the       *)
(* repository does not move, and the repository even if revisions in       *)
(* between were refused or outages cut updates short.                      *)
ConfigFollows ==
    ServicesRecover =>
        \A r \in Valid, l \in Lists :
            LET t == Table(r, ListFor(r, l)) IN
            Downstream(t) # {} =>
                (<>[](repo = r /\ resolver = l)
                    => <>[](control = r /\ comps = t))

(* A desired component that has a build, but none in ELN, is handed to the *)
(* trigger queue again and again until it has, whatever other components   *)
(* come and go.                                                            *)
MissingIsPicked ==
    ServicesRecover =>
        \A d \in HasBuild :
            <>[](IsEligible(d) /\ d \notin tagged)
                => []<><<PickComponent(d)>>_vars

(* A reload that removes components under the status page spoils a round,  *)
(* and not the rounds after the reloads have ceased.                       *)
PageIsRefreshed ==
    ServicesRecover /\ <>[][UNCHANGED comps]_vars
        => []<><<PublishStatus>>_vars
=============================================================================
