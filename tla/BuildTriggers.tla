--------------------------- MODULE BuildTriggers ---------------------------
(***************************************************************************)
(* The trigger pipeline of ELNBuildSync: from a tagging event on the       *)
(* message bus, through the build_trigger table, to the batch that rebuilds*)
(* the component and the completed_at mark that retires the row.           *)
(*                                                                         *)
(* Three activities share the database and interleave at their awaits:     *)
(*   - the message consumer (listener.message_handler), which handles one  *)
(*     message at a time and acknowledges it only after the row is         *)
(*     committed;                                                          *)
(*   - rebuild_from_components, called by the web page and the cleanup     *)
(*     task, which inserts rows of its own;                                *)
(*   - process_message_batch, run by one PeriodicTask, hence never twice   *)
(*     at once.                                                            *)
(* The process may crash at any point: the broker keeps unacknowledged     *)
(* messages and PostgreSQL keeps its rows; everything else is lost.        *)
(***************************************************************************)
EXTENDS Integers, Sequences, FiniteSets

CONSTANTS
    NumTags,      \* tag events Koji publishes, numbered in the order they happen
    NumElnBuilds, \* ELN builds rebuild_from_components may pick besides those
    Components,   \* component names
    CompOf,       \* the component each build belongs to
    Eligible,     \* the components config.is_eligible() accepts
    ScmUrl,       \* the source URL Koji records for each build, or NoUrl
    Urls,
    NoUrl,
    MaxFaults,    \* bound on crashes and failed I/O
    MaxManual     \* bound on rows rebuild_from_components inserts

Tags   == 1 .. NumTags
Builds == 1 .. (NumTags + NumElnBuilds)

ASSUME NumAssumption == NumTags \in Nat /\ NumElnBuilds \in Nat
ASSUME CompAssumption == CompOf \in [Builds -> Components]
ASSUME EligibleAssumption == Eligible \subseteq Components
ASSUME UrlAssumption == /\ NoUrl \notin Urls
                        /\ ScmUrl \in [Builds -> Urls \cup {NoUrl}]
ASSUME BoundAssumption == MaxFaults \in Nat /\ MaxManual \in Nat

VARIABLES
    \* the AMQP broker
    tagged,    \* number of tag events published so far
    broker,    \* events not yet acknowledged
    nacked,    \* those of them that were handed back and lost their place
    \* the consumer
    handling,  \* the event being handled, NoMessage between two messages
    stamp,     \* created_at of the row it is inserting, NoStamp if it is not
    stored,    \* its row is committed, its acknowledgement is not sent
    \* inserts of other tasks, and of tasks that are gone
    clock,     \* the last created_at given out
    inserts,   \* INSERTs under way, whose COMMIT has still to take effect
    \* PostgreSQL
    rows,      \* build_trigger, in the order the rows became visible
    denylist,  \* failed_builds: URLs that will not be submitted again
    \* process_message_batch and RebuildBatch.async_init
    paused,    \* config.is_paused()
    running,   \* batching.running
    pc,        \* where process_message_batch stands
    triggers,  \* build_triggers: the newest pending row of every component
    todo,      \* rows the loop in progress has still to visit
    withUrl,   \* triggers_with_scmurl
    admitted,  \* RebuildBatch.build_triggers
    \* history and bounds
    unresolved, \* rows whose SCM URL Koji did not give when asked
    faults,
    manual

busVars      == <<tagged, broker, nacked>>
consumerVars == <<handling, stamp, stored>>
insertVars   == <<clock, inserts, manual>>
dbVars       == <<rows, denylist>>
batchVars    == <<running, pc, triggers, todo, withUrl, admitted>>
vars == <<busVars, consumerVars, insertVars, dbVars, paused, batchVars,
          unresolved, faults>>

NoMessage == 0
NoStamp == 0

(* A row: the build that triggered it, created_at, whether completed_at is *)
(* set, and (history) how many batches have submitted it to Koji and how   *)
(* many rows the table held when a batch last selected it.                 *)
Row == [build : Builds, at : Nat, done : BOOLEAN, runs : Nat, seen : Nat]
Insertion == [build : Builds, at : Nat]

Phases == {"idle", "drop", "scmurl", "denylist", "sidetag", "run",
           "finalize", "complete"}

Ids == DOMAIN rows
CompOfRow(i) == CompOf[rows[i].build]
SameComp(i, j) == CompOfRow(i) = CompOfRow(j)
UrlOfRow(i) == ScmUrl[rows[i].build]

(* ORDER BY created_at.  It is set in Python when the INSERT begins, while *)
(* a row appears when the COMMIT takes effect: a row may be older than one *)
(* that was there before it.                                               *)
Older(i, j) == rows[i].at < rows[j].at

(* The batch that last selected j had row i before it as well.             *)
ReadWith(i, j) == i <= rows[j].seen

(* SELECT ... WHERE completed_at IS NULL                                   *)
Pending == {i \in Ids : ~rows[i].done}

(* get_unprocessed_build_triggers keeps the last row it meets for each     *)
(* component, reading in the order of created_at; the others are dropped.  *)
Newest == {i \in Pending : \A j \in Pending : SameComp(i, j) => ~Older(i, j)}

NewRow(b, t) == [build |-> b, at |-> t, done |-> FALSE, runs |-> 0, seen |-> 0]
Commit(b, t) == rows' = Append(rows, NewRow(b, t))
Complete(i) == rows' = [rows EXCEPT ![i].done = TRUE]
MarkSeen == rows' = [i \in Ids |-> IF i \in Pending
                                   THEN [rows[i] EXCEPT !.seen = Len(rows)]
                                   ELSE rows[i]]
Oldest(i, S) == i \in S /\ \A j \in S : ~Older(j, i)
First(m, S) == m \in S /\ \A n \in S : m <= n
Fault == faults < MaxFaults /\ faults' = faults + 1

Init ==
    /\ tagged = 0 /\ broker = {} /\ nacked = {}
    /\ handling = NoMessage /\ stamp = NoStamp /\ stored = FALSE
    /\ clock = 0 /\ inserts = {}
    /\ rows = <<>> /\ denylist = {}
    /\ paused \in BOOLEAN
    /\ running = FALSE /\ pc = "idle"
    /\ triggers = {} /\ todo = {} /\ withUrl = {} /\ admitted = {}
    /\ unresolved = {} /\ faults = 0 /\ manual = 0

-----------------------------------------------------------------------------
(* The bus and the consumer                                                *)

(* Koji tags a build and its plugin publishes buildsys.tag.                *)
KojiTags ==
    /\ tagged < NumTags
    /\ tagged' = tagged + 1
    /\ broker' = broker \cup {tagged + 1}
    /\ UNCHANGED <<nacked, consumerVars, dbVars, paused, batchVars,
                   unresolved, faults, insertVars>>

(* The consumer takes the next message: the oldest that kept its place, or *)
(* one that was handed back.                                               *)
Deliver(m) ==
    /\ handling = NoMessage
    /\ m \in broker
    /\ m \in nacked \/ First(m, broker \ nacked)
    /\ handling' = m
    /\ UNCHANGED <<busVars, stamp, stored, insertVars, dbVars, paused,
                   batchVars, unresolved, faults>>

(* Mutant of DropMessage: a message ELN has no use for is Nacked.          *)
DropMessage_Nacks ==
    /\ handling # NoMessage /\ ~stored
    /\ CompOf[handling] \notin Eligible
    /\ nacked' = nacked \cup {handling}
    /\ handling' = NoMessage
    /\ UNCHANGED <<tagged, broker, stamp, stored, insertVars, dbVars, paused,
                   batchVars, unresolved, faults>>

(* Drop(): the component is not one ELN wants.                             *)
DropMessage ==
    /\ handling # NoMessage /\ ~stored
    /\ CompOf[handling] \notin Eligible
    /\ broker' = broker \ {handling}
    /\ nacked' = nacked \ {handling}
    /\ handling' = NoMessage
    /\ UNCHANGED <<tagged, stamp, stored, insertVars, dbVars, paused,
                   batchVars, unresolved, faults>>

(* BuildTrigger(...).async_init(): the flush sets created_at and begins    *)
(* the INSERT.                                                             *)
StoreTrigger ==
    /\ handling # NoMessage /\ ~stored /\ stamp = NoStamp
    /\ CompOf[handling] \in Eligible
    /\ clock' = clock + 1
    /\ stamp' = clock + 1
    /\ UNCHANGED <<busVars, handling, stored, inserts, manual, dbVars, paused,
                   batchVars, unresolved, faults>>

(* The COMMIT it awaits takes effect.                                      *)
CommitTrigger ==
    /\ stamp # NoStamp
    /\ Commit(handling, stamp)
    /\ stamp' = NoStamp
    /\ stored' = TRUE
    /\ UNCHANGED <<busVars, handling, insertVars, denylist, paused, batchVars,
                   unresolved, faults>>

(* The INSERT the handler has under way.                                   *)
OwnInsert == IF stamp = NoStamp THEN {}
             ELSE {[build |-> handling, at |-> stamp]}

(* Mutant of StoreFails: the error is logged and the message acknowledged. *)
StoreFails_Acked ==
    /\ stamp # NoStamp
    /\ Fault
    /\ broker' = broker \ {handling}
    /\ nacked' = nacked \ {handling}
    /\ handling' = NoMessage
    /\ stamp' = NoStamp
    /\ UNCHANGED <<tagged, stored, insertVars, dbVars, paused, batchVars,
                   unresolved>>

(* The INSERT or its COMMIT raises, so the handler Nacks and the message   *)
(* is queued again; a COMMIT may take effect in spite of the error.        *)
StoreFails ==
    /\ stamp # NoStamp
    /\ Fault
    /\ inserts' \in {inserts, inserts \cup OwnInsert}
    /\ nacked' = nacked \cup {handling}
    /\ handling' = NoMessage
    /\ stamp' = NoStamp
    /\ UNCHANGED <<tagged, broker, stored, clock, manual, dbVars, paused,
                   batchVars, unresolved>>

Ack ==
    /\ stored
    /\ broker' = broker \ {handling}
    /\ nacked' = nacked \ {handling}
    /\ handling' = NoMessage
    /\ stored' = FALSE
    /\ UNCHANGED <<tagged, stamp, insertVars, dbVars, paused, batchVars,
                   unresolved, faults>>

(* The connection to the broker drops before the acknowledgement.          *)
AckLost ==
    /\ stored
    /\ Fault
    /\ handling' = NoMessage
    /\ stored' = FALSE
    /\ UNCHANGED <<busVars, stamp, insertVars, dbVars, paused, batchVars,
                   unresolved>>

(* rebuild_from_components begins to insert a row for a build it read from *)
(* a tag listing some awaits ago: any build tagged so far, or an ELN build.*)
Enqueue(b) ==
    /\ b \in 1 .. tagged \/ b \in Builds \ Tags
    /\ CompOf[b] \in Eligible
    /\ manual < MaxManual
    /\ manual' = manual + 1
    /\ clock' = clock + 1
    /\ inserts' = inserts \cup {[build |-> b, at |-> clock + 1]}
    /\ UNCHANGED <<busVars, consumerVars, dbVars, paused, batchVars,
                   unresolved, faults>>

(* The COMMIT of such an INSERT takes effect.                              *)
CommitInsert(r) ==
    /\ r \in inserts
    /\ Commit(r.build, r.at)
    /\ inserts' = inserts \ {r}
    /\ UNCHANGED <<busVars, consumerVars, clock, manual, denylist, paused,
                   batchVars, unresolved, faults>>

(* It is rolled back, and the error logged.                                *)
InsertFails(r) ==
    /\ r \in inserts
    /\ Fault
    /\ inserts' = inserts \ {r}
    /\ UNCHANGED <<busVars, consumerVars, clock, manual, dbVars, paused,
                   batchVars, unresolved>>

(* An administrator or a configuration reload changes is_paused().         *)
TogglePause ==
    /\ paused' = ~paused
    /\ UNCHANGED <<busVars, consumerVars, dbVars, batchVars, unresolved,
                   faults, insertVars>>

-----------------------------------------------------------------------------
(* process_message_batch                                                   *)

ClearBatch ==
    /\ running' = FALSE /\ pc' = "idle"
    /\ triggers' = {} /\ todo' = {} /\ withUrl' = {} /\ admitted' = {}

(* Mutant of SelectTriggers: superseded rows are skipped, not dropped.     *)
SelectTriggers_KeepsOld ==
    /\ pc = "idle" /\ ~paused /\ Pending # {}
    /\ triggers' = Newest
    /\ todo' = {}
    /\ MarkSeen
    /\ pc' = "drop"
    /\ UNCHANGED <<busVars, consumerVars, denylist, paused, running,
                   withUrl, admitted, unresolved, faults, insertVars>>

(* Mutant of SelectTriggers: what a batch cut short had already submitted  *)
(* is not picked up again.                                                 *)
SelectTriggers_SkipsSubmitted ==
    /\ pc = "idle" /\ ~paused /\ Pending # {}
    /\ triggers' = {i \in Newest : rows[i].runs = 0}
    /\ todo' = Pending \ Newest
    /\ MarkSeen
    /\ pc' = "drop"
    /\ UNCHANGED <<busVars, consumerVars, denylist, paused, running,
                   withUrl, admitted, unresolved, faults, insertVars>>

(* A tick that is not paused and finds pending rows.                       *)
SelectTriggers ==
    /\ pc = "idle" /\ ~paused /\ Pending # {}
    /\ triggers' = Newest
    /\ todo' = Pending \ Newest
    /\ MarkSeen
    /\ pc' = "drop"
    /\ UNCHANGED <<busVars, consumerVars, denylist, paused, running,
                   withUrl, admitted, unresolved, faults, insertVars>>

(* Mutant of DropSuperseded: the rows to drop in no particular order.      *)
DropSuperseded_AnyOrder(i) ==
    /\ pc = "drop"
    /\ i \in todo
    /\ Complete(i)
    /\ todo' = todo \ {i}
    /\ UNCHANGED <<busVars, consumerVars, denylist, paused, running, pc,
                   triggers, withUrl, admitted, unresolved, faults, insertVars>>

(* Superseded rows are completed after the SELECT.  A row enters to_drop   *)
(* when the next row of its component is read, so those of one component   *)
(* come oldest first.                                                      *)
DropSuperseded(i) ==
    /\ pc = "drop"
    /\ i \in todo
    /\ \A j \in todo : SameComp(i, j) => ~Older(j, i)
    /\ Complete(i)
    /\ todo' = todo \ {i}
    /\ UNCHANGED <<busVars, consumerVars, denylist, paused, running, pc,
                   triggers, withUrl, admitted, unresolved, faults, insertVars>>

BeginBatch ==
    /\ pc = "drop" /\ todo = {}
    /\ running' = TRUE
    /\ pc' = "scmurl"
    /\ todo' = triggers
    /\ UNCHANGED <<busVars, consumerVars, dbVars, paused, triggers,
                   withUrl, admitted, unresolved, faults, insertVars>>

ResolveUrl(i) ==
    /\ pc = "scmurl" /\ Oldest(i, todo)
    /\ UrlOfRow(i) # NoUrl
    /\ withUrl' = withUrl \cup {i}
    /\ todo' = todo \ {i}
    /\ UNCHANGED <<busVars, consumerVars, dbVars, paused, running, pc,
                   triggers, admitted, unresolved, faults, insertVars>>

(* Koji has no source for the build, or could not be asked: either way the *)
(* trigger is completed.                                                   *)
UrlUnavailable(i) ==
    /\ pc = "scmurl" /\ Oldest(i, todo)
    /\ Complete(i)
    /\ unresolved' = unresolved \cup {i}
    /\ todo' = todo \ {i}
    /\ UNCHANGED <<busVars, consumerVars, denylist, paused, running, pc,
                   triggers, withUrl, admitted, faults, insertVars>>

(* find_failed_build_urls.  Only this coroutine writes failed_builds, so   *)
(* the answer it works from stays true while it admits triggers.           *)
QueryDenylist ==
    /\ pc = "scmurl" /\ todo = {}
    /\ pc' = "denylist"
    /\ todo' = withUrl
    /\ UNCHANGED <<busVars, consumerVars, dbVars, paused, running,
                   triggers, withUrl, admitted, unresolved, faults, insertVars>>

Denied(i) == UrlOfRow(i) \in denylist

DenyTrigger(i) ==
    /\ pc = "denylist" /\ Oldest(i, todo)
    /\ Denied(i)
    /\ Complete(i)
    /\ todo' = todo \ {i}
    /\ UNCHANGED <<busVars, consumerVars, denylist, paused, running, pc,
                   triggers, withUrl, admitted, unresolved, faults, insertVars>>

(* Mutant of AdmitTrigger: the denylist is not consulted.                  *)
AdmitTrigger_Unchecked(i) ==
    /\ pc = "denylist" /\ Oldest(i, todo)
    /\ admitted' = admitted \cup {i}
    /\ todo' = todo \ {i}
    /\ UNCHANGED <<busVars, consumerVars, dbVars, paused, running, pc,
                   triggers, withUrl, unresolved, faults, insertVars>>

AdmitTrigger(i) ==
    /\ pc = "denylist" /\ Oldest(i, todo)
    /\ ~Denied(i)
    /\ admitted' = admitted \cup {i}
    /\ todo' = todo \ {i}
    /\ UNCHANGED <<busVars, consumerVars, dbVars, paused, running, pc,
                   triggers, withUrl, unresolved, faults, insertVars>>

(* RebuildBatchEmptyError: nothing to build, the triggers are completed.   *)
EmptyBatch ==
    /\ pc = "denylist" /\ todo = {} /\ admitted = {}
    /\ pc' = "complete"
    /\ todo' = triggers
    /\ UNCHANGED <<busVars, consumerVars, dbVars, paused, running,
                   triggers, withUrl, admitted, unresolved, faults, insertVars>>

PrepareSideTag ==
    /\ pc = "denylist" /\ todo = {} /\ admitted # {}
    /\ pc' = "sidetag"
    /\ UNCHANGED <<busVars, consumerVars, dbVars, paused, running,
                   triggers, todo, withUrl, admitted, unresolved, faults,
                   insertVars>>

(* _create_and_populate_side_tag starts over when the builds do not show   *)
(* up in the side-tag in time.                                             *)
SideTagTimeout ==
    /\ pc = "sidetag"
    /\ Fault
    /\ UNCHANGED <<busVars, consumerVars, dbVars, paused, batchVars,
                   unresolved, insertVars>>

(* Mutant of InitRaises: the failed batch goes on to complete its triggers.*)
InitRaises_Completes ==
    /\ pc \in {"drop", "scmurl", "denylist", "sidetag"}
    /\ Fault
    /\ pc' = "complete"
    /\ todo' = triggers
    /\ UNCHANGED <<busVars, consumerVars, dbVars, paused, running,
                   triggers, withUrl, admitted, unresolved, insertVars>>

(* Any other exception of get_unprocessed_build_triggers or async_init     *)
(* reaches the outermost handler, which completes nothing.                 *)
InitRaises ==
    /\ pc \in {"drop", "scmurl", "denylist", "sidetag"}
    /\ Fault
    /\ ClearBatch
    /\ UNCHANGED <<busVars, consumerVars, dbVars, paused, unresolved,
                   insertVars>>

(* Mutant of StartRun: the triggers are marked completed as it is entered. *)
StartRun_MarksFirst ==
    /\ pc = "sidetag"
    /\ pc' = "run"
    /\ rows' = [i \in Ids |->
                  IF i \in admitted
                  THEN [rows[i] EXCEPT !.runs = @ + 1, !.done = TRUE]
                  ELSE rows[i]]
    /\ UNCHANGED <<busVars, consumerVars, denylist, paused, running,
                   triggers, todo, withUrl, admitted, unresolved, faults,
                   insertVars>>

(* The side-tag is ready and batch.run() is entered.                       *)
StartRun ==
    /\ pc = "sidetag"
    /\ pc' = "run"
    /\ rows' = [i \in Ids |->
                  IF i \in admitted
                  THEN [rows[i] EXCEPT !.runs = @ + 1]
                  ELSE rows[i]]
    /\ UNCHANGED <<busVars, consumerVars, denylist, paused, running,
                   triggers, todo, withUrl, admitted, unresolved, faults,
                   insertVars>>

(* The slices have run; the sources of the builds that kept failing are    *)
(* recorded before anything is published.                                  *)
RecordFailures(failed) ==
    /\ pc = "run"
    /\ failed \subseteq admitted
    /\ denylist' = denylist \cup {UrlOfRow(i) : i \in failed}
    /\ pc' = "finalize"
    /\ UNCHANGED <<busVars, consumerVars, rows, paused, running,
                   triggers, todo, withUrl, admitted, unresolved, faults,
                   insertVars>>

(* Mutant of RunEnds: a batch that raised leaves its triggers pending.     *)
RunEnds_Retried ==
    \/ /\ pc = "finalize"
       /\ pc' = "complete"
       /\ todo' = triggers
       /\ UNCHANGED <<busVars, consumerVars, dbVars, paused, running,
                      triggers, withUrl, admitted, unresolved, faults,
                      insertVars>>
    \/ /\ pc = "run"
       /\ ClearBatch
       /\ UNCHANGED <<busVars, consumerVars, dbVars, paused, unresolved,
                      faults, insertVars>>

(* run() returns, or raises at any of its awaits: the triggers are         *)
(* completed all the same.                                                 *)
RunEnds ==
    /\ pc \in {"run", "finalize"}
    /\ pc' = "complete"
    /\ todo' = triggers
    /\ UNCHANGED <<busVars, consumerVars, dbVars, paused, running,
                   triggers, withUrl, admitted, unresolved, faults, insertVars>>

MarkCompleted(i) ==
    /\ pc = "complete" /\ Oldest(i, todo)
    /\ Complete(i)
    /\ todo' = todo \ {i}
    /\ UNCHANGED <<busVars, consumerVars, denylist, paused, running, pc,
                   triggers, withUrl, admitted, unresolved, faults, insertVars>>

(* The exception is logged and the loop goes on.                           *)
MarkFails(i) ==
    /\ pc = "complete" /\ Oldest(i, todo)
    /\ Fault
    /\ todo' = todo \ {i}
    /\ UNCHANGED <<busVars, consumerVars, dbVars, paused, running, pc,
                   triggers, withUrl, admitted, unresolved, insertVars>>

BatchDone ==
    /\ pc = "complete" /\ todo = {}
    /\ ClearBatch
    /\ UNCHANGED <<busVars, consumerVars, dbVars, paused, unresolved,
                   faults, insertVars>>

(* The process dies and starts again: only the broker and the database     *)
(* survive, and a pause an administrator asked for is forgotten.  An       *)
(* INSERT under way is rolled back, unless its COMMIT had been received.   *)
Crash ==
    /\ Fault
    /\ handling' = NoMessage /\ stamp' = NoStamp /\ stored' = FALSE
    /\ inserts' \in SUBSET (inserts \cup OwnInsert)
    /\ paused' \in BOOLEAN
    /\ ClearBatch
    /\ UNCHANGED <<busVars, clock, manual, dbVars, unresolved>>

-----------------------------------------------------------------------------
ConsumerStep ==
    \/ \E m \in Tags : Deliver(m)
    \/ DropMessage \/ StoreTrigger \/ CommitTrigger \/ Ack

ConsumerFault == StoreFails \/ AckLost

BatchStep ==
    \/ SelectTriggers
    \/ \E i \in Ids : \/ DropSuperseded(i)
                      \/ ResolveUrl(i) \/ UrlUnavailable(i)
                      \/ DenyTrigger(i) \/ AdmitTrigger(i)
                      \/ MarkCompleted(i)
    \/ BeginBatch \/ QueryDenylist \/ EmptyBatch \/ PrepareSideTag
    \/ StartRun \/ RunEnds \/ BatchDone
    \/ \E failed \in SUBSET admitted : RecordFailures(failed)

BatchFault ==
    \/ SideTagTimeout \/ InitRaises
    \/ \E i \in Ids : MarkFails(i)

Next ==
    \/ KojiTags
    \/ ConsumerStep \/ ConsumerFault
    \/ BatchStep \/ BatchFault
    \/ \E b \in Builds : Enqueue(b)
    \/ \E r \in inserts : CommitInsert(r) \/ InsertFails(r)
    \/ TogglePause
    \/ Crash

Spec == Init /\ [][Next]_vars

(* The reactor keeps delivering messages while the process is up; the      *)
(* PeriodicTask keeps ticking and every await of a batch returns or raises *)
(* (the waits for Koji all carry a timeout).  Nothing obliges an           *)
(* administrator to resume, nor Koji to tag.                               *)
FairSpec == Spec /\ WF_vars(ConsumerStep) /\ WF_vars(BatchStep)

-----------------------------------------------------------------------------
(* Correctness                                                             *)

(* Every variable has its type.                                            *)
TypeOK ==
    /\ tagged \in 0 .. NumTags
    /\ broker \subseteq 1 .. tagged
    /\ nacked \subseteq broker
    /\ handling \in broker \cup {NoMessage}
    /\ stamp \in 0 .. clock
    /\ stored \in BOOLEAN
    /\ stored => handling # NoMessage
    /\ clock \in Nat
    /\ inserts \subseteq Insertion
    /\ rows \in Seq(Row)
    /\ denylist \subseteq Urls
    /\ paused \in BOOLEAN /\ running \in BOOLEAN
    /\ pc \in Phases
    /\ triggers \subseteq Ids /\ todo \subseteq Ids
    /\ withUrl \subseteq triggers /\ admitted \subseteq withUrl
    /\ unresolved \subseteq Ids
    /\ faults \in Nat /\ manual \in Nat

(* An eligible tag event is never lost: it waits at the broker until its   *)
(* row is committed, whatever is Nacked, dropped by the connection or cut  *)
(* short by a crash (listener._handle_trigger_tag awaits the commit before *)
(* the acknowledgement).                                                   *)
NoLostTrigger ==
    \A m \in 1 .. tagged :
        CompOf[m] \in Eligible =>
            m \in broker \/ \E i \in Ids : rows[i].build = m

(* Of the rows of one component that a batch has read, none is completed   *)
(* before an older one, so that no crash or failed write between two       *)
(* completions leaves an old trigger pending behind the newer one that     *)
(* superseded it; it would be rebuilt at the next tick and replace the     *)
(* newer build.  An older row whose COMMIT came too late for that batch is *)
(* the only one that may still be pending.                                 *)
CompletedInOrder ==
    \A i, j \in Ids :
        Older(i, j) /\ SameComp(i, j) /\ rows[j].done /\ ReadWith(i, j)
            => rows[i].done

(* A component is rebuilt from an older row after a newer one only when    *)
(* the older row appeared after the batch of the newer had read the table: *)
(* never by a crash, a failed write or another tick alone (what "we only   *)
(* want to rebuild the most recent build for each component" can mean when *)
(* rows do not appear in the order of their created_at).                   *)
NoRegression ==
    [][\A i \in Ids :
          rows'[i].runs # rows[i].runs =>
             \A j \in Ids : Older(i, j) /\ SameComp(i, j) /\ rows[j].runs > 0
                               => ~ReadWith(i, j)]_vars

(* A row is submitted again only after a crash or a failed write kept its  *)
(* completed_at from being set: never by the normal course of ticks.       *)
RunOncePerFault == \A i \in Ids : rows[i].runs <= 1 + faults

(* A source on the denylist is not built again, whichever row asks for it. *)
DenylistRespected ==
    [][\A i \in Ids : rows'[i].runs # rows[i].runs =>
          UrlOfRow(i) \notin denylist]_vars

(* No trigger disappears silently: a completed row was submitted, or was   *)
(* superseded by a newer row of its component that its batch had read, or  *)
(* its URL was unavailable or denied.  In particular a batch that could    *)
(* not be set up completes none of the triggers it had admitted, and one   *)
(* that was set up none that appeared while it ran.                        *)
CompletedForAReason ==
    \A i \in Ids :
        rows[i].done =>
            \/ rows[i].runs > 0
            \/ \E j \in Ids : /\ Older(i, j) /\ SameComp(i, j)
                              /\ ReadWith(j, i)
            \/ i \in unresolved
            \/ Denied(i)

(* What remains of the pipeline when all but the table is forgotten.       *)
Ledger == INSTANCE TriggerLedger WITH
    announced <- 1 .. tagged, awaited <- broker,
    batch <- IF pc = "run" THEN admitted ELSE {}

(* The consumer, the batch and the manual rebuilds, interleaved at their   *)
(* awaits and cut short by crashes, together keep one ledger: an event is  *)
(* let go only for a committed row; builds are under way for one set of    *)
(* rows at a time, of each component the newest that was pending when the  *)
(* table was read, and never for a denied source; only what failed among   *)
(* them is denied; and no row is retired before an older one read with it, *)
(* while builds are under way, or without a reason that the ledger itself  *)
(* shows.                                                                  *)
ImplementsLedger == Ledger!Spec

Wanted == {m \in Tags : CompOf[m] \in Eligible}

(* Every eligible tag event reaches the database, faults being finite.     *)
EventuallyStored ==
    \A m \in Wanted : m <= tagged ~> \E i \in Ids : rows[i].build = m

(* Every row is eventually completed, however late it appeared, unless     *)
(* processing is paused again and again.  (There is a row for each event,  *)
(* each manual rebuild and each fault at most.)                            *)
EventuallyCompleted ==
    (<>[]~paused) =>
        \A i \in 1 .. (Cardinality(Wanted) + MaxFaults + MaxManual) :
            (i \in Ids) ~> (i \in Ids /\ rows[i].done)

-----------------------------------------------------------------------------
(* What the documentation says and the code does not do                    *)

(* buildtrigger.py: "We only want to rebuild the most recent build for     *)
(* each component."  Rows are ranked by created_at, the time of insertion, *)
(* so a message that was Nacked, or a build taken from a listing, comes    *)
(* back as the newest; and a row that appears late is taken up alone when  *)
(* a newer one is already completed.                                       *)
MostRecentBuild ==
    pc = "run" =>
        \A i \in admitted, j \in Ids :
            ReadWith(j, i) /\ SameComp(i, j) /\ rows[j].build \in Tags
                => rows[j].build <= rows[i].build

(* RELEASENOTES: the check of the pause is where "no new Koji build can    *)
(* ever be started while paused", a batch that already runs excepted.  A   *)
(* pause that comes while process_message_batch, past its check, awaits    *)
(* the pending rows does not keep their batch from starting.               *)
NoBatchWhilePaused == [][paused /\ ~running => ~running']_vars
=============================================================================
