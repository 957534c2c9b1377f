# A TLA+ model of ELNBuildSync

ELNBuildSync (EBS) listens to Fedora's message bus for packages tagged into
Rawhide, rebuilds those that ELN wants in Koji, in batches, and publishes the
results through Bodhi or by tagging them directly.  It is one Python process
on one asyncio event loop (shared with Twisted's reactor), with a PostgreSQL
database and calls to Koji and Bodhi made from worker threads.

This directory models the part of it where order matters: everything between
two `await`s is one step, and whatever the program can meet at an `await`
(another message, a poll, a timer, an error, a crash) may happen there.

Contents: [inventory](#1-inventory), [modules](#2-modules-and-code),
[runs](#3-runs-bounds-and-fairness), [properties and what breaks
them](#4-properties), [proofs](#5-proofs), [disagreements
found](#6-where-the-code-and-its-documentation-disagree), [not
modelled](#7-what-is-not-modelled), [plan](#8-plan).

## 1. Inventory

Paths are relative to `elnbuildsync/`.

| Component | State it keeps | Operations | Talks to |
|---|---|---|---|
| Trigger pipeline (`listener.py`, `buildtrigger.py`, `batching.py`, `db_models.py`) | tables `build_trigger` and `failed_builds`; `batching.running`; the list of triggers of the batch | `message_handler`, `_handle_trigger_tag`, `BuildTrigger.async_init`, `mark_completed`, `get_unprocessed_build_triggers`, `process_message_batch`, `rebuild_from_components` | the AMQP broker (ack, Nack, Drop), PostgreSQL, the lull timer, the batch |
| Rebuild batch (`rebuildbatch.py`, `rebuildbatchslice.py`, `rebuildattempt.py`) | slices, successes, failures, `prev_failures`, the build side-tag, the errata side-tags | `async_init`, `run`, slice and retry loop, `record_failed_build_urls`, `finalize_via_bodhi`, `finalize_via_tagging` | Koji, Bodhi, mail, task waits, tag waits |
| Task waits (`listener.py`, `kojihelpers/builds.py`, `state.py`) | `state.active_tasks`: task id -> Future | `wait_for_tasks`, `register_task_id`, `wait_for_registered_task`, `_handle_task_state_change`, `check_tasks` | Koji, the bus, the event loop's timers |
| Tag waits and side-tags (`kojihelpers/tags.py`, `state.py`, `listener.py`) | `state.pending_nvr_tags`: tag -> NVR -> Future; side-tags in Koji | `SideTag.create`, `remove`, `tag_builds`, `wait_for_nvrs_in_tag`, `_handle_awaited_tag`, `check_tags` | the same |
| Periodic tasks (`scheduling.py`) | the driver task, the sleep task, `_resetting` | `start`, `reset`, `stop` | drives every loop of the daemon |
| Koji connection (`kojihelpers/connection.py`) | the session `_bsys`, the ticket, its cached expiry, `_auth_lock` | `call_koji`, `_ensure_tgt`, renewal, login | Koji, Kerberos; worker threads |
| Configuration (`config/`) | `main`, `control`, `comps`, the pause override | load, `update_config` every 15 minutes, `is_eligible`, `get_order`, `is_paused`, `pause_processing` | git, Content Resolver, Bodhi; read by everybody |
| Selection (`batching.rebuild_from_components`, `cleanup.py`) | none | compare the Rawhide and ELN listings, insert triggers | web page, cleanup timer, Koji |
| Web interface (`web.py`, `auth.py`) | `_oidc_state_store`, table of sessions, `started` | login, callback, logout, trigger, pause, session expiry and cleanup, background tasks | OIDC provider, PostgreSQL, the pipeline |
| Status page, mail, start-up (`status.py`, `email.py`, `daemon.py`, `utils.py`) | none of consequence | | |

How they interact.  A `buildsys.tag` message becomes a row of `build_trigger`
and resets the lull timer.  When the timer elapses, `process_message_batch`
takes the newest pending row of every component, filters them, prepares a
side-tag and calls `RebuildBatch.run`, which starts Koji tasks and waits for
them.  The waits are ended by messages, which the same consumer handles, by
the poll `check_tasks`, or by their own timeouts.  When the batch is over its
rows are marked completed.  The web page and the cleanup timer insert rows of
their own at any time.

What is hard about it, and what makes each part correct:

* *Pipeline.*  Concurrency of the consumer, the batch and the inserters over
  one table, in which rows appear later than their time of creation says and in
  any order; crashes and failed writes between any two steps; redelivered
  messages.  Correct when no eligible event is lost, of the rows a batch can
  see no older one is rebuilt after a newer one, the denylist is obeyed, no row
  is completed without a reason, none is submitted for ever, and all are
  completed in the end.
* *Task waits.*  Three parties race to settle one Future, one of them with an
  answer it asked for some time ago; messages may be lost, late or doubled.
  Correct when each wait is told once, truthfully, and in the end.
* *Batch.*  Retries that compare counts, not sets; timeouts that carry no
  request; sources that components share, within a slice or across two; one
  failing step of many; chunks of a list; a loop without bound.  Correct when
  only real breakage is denied, nothing is published twice, the side-tag
  outlives what it holds, and the batch ends.
* *Periodic tasks.*  Cancellation is one signal with two meanings.  Correct
  when `reset` never ends a loop and `stop` always does.
* *Tag waits and side-tags.*  Messages that come before the registration or
  belong to a tag given up, timeouts that leave things behind, calls that fail
  half-way, listings that do not tell a tagged build from an inherited one.
  Correct when a side-tag is handed out only with all its builds, its own or
  inherited, when none pile up, and when preparing one ends.
* *Connection.*  One session and one ticket shared by all worker threads, a
  lock that is let go between a check and what it was for, a cached expiry read
  without it, retries of calls of which some requests were carried out and the
  fate of one is unknown.  Correct when nobody's session is closed under him, a
  ticket found good is good when used, requests are repeated for faults on the
  wire and nothing else, and every call ends.
* *Sessions.*  Tokens in memory, sessions in the database, and a provider asked
  in between; browsers that come twice or late; tasks nobody waits for.
  Correct when a login yields one session, only live sessions of administrators
  get in, nothing stays for ever, and an acknowledged rebuild takes place.
* *Configuration.*  Two globals parsed over several fetches, and readers that
  look a name up long after they copied it.  Correct when what is in force is of
  one piece, catches up with its sources, and a reload spoils at most the round
  of a reader.

The hazards, each at its line and with the properties that cover it, are
`hazards` in `PROJECT.json`.

## 2. Modules and code

| Module | Role |
|---|---|
| `TriggerLedger` | abstract: the table of triggers, as whoever looks at it sees it |
| `BuildTriggers` | the trigger pipeline, with crashes; implements `TriggerLedger` |
| `BatchRun` | abstract: what the caller of `RebuildBatch.run()` relies on |
| `RebuildBatch` | `RebuildBatch.run()`: slices, retries, denylist, publication; implements `BatchRun` |
| `TaskVerdicts` | abstract: what waiting for tasks promises |
| `TaskWaits` | how the listener keeps it; implements `TaskVerdicts` |
| `SideTagOffer` | abstract: what preparing a side-tag promises to the batch |
| `SideTags` | preparing a side-tag: creation, tagging, waits for builds in it; implements `SideTagOffer` |
| `PeriodicTask` | `scheduling.PeriodicTask` |
| `KojiService` | abstract: what `call_koji` promises to the coroutines that await it |
| `KojiConnection` | `call_koji`: the shared session, the ticket, the retries; implements `KojiService` |
| `AccessGrants` | abstract: who gets in, and what an admitted request is owed |
| `Sessions` | logins, sessions, protected requests, background tasks; implements `AccessGrants` |
| `Configuration` | `update_config` and its readers: the cleanup and the status page |
| `MC*` | small instances for TLC |
| `*Proofs` | theorems and their proofs |

The abstract modules have no awaits, no phases and no retries.  Each says what
the rest of the system takes for granted of one component, and the detailed
module is related to it by a refinement mapping (`INSTANCE ... WITH`), checked
by TLC on an instance and proved for all.

**BuildTriggers.**  `broker` is the set of messages without acknowledgement;
those in `nacked` were handed back and may come in any order, the others come
oldest first.  `handling`, `stamp` and `stored` are the consumer between the
delivery, the INSERT, the COMMIT and the acknowledgement of one message
(fedora-messaging awaits the handler before it takes the next).  A row gets its
`created_at` in Python when it is flushed (`StoreTrigger`, `Enqueue`, which take
it from `clock`), and can be read when its COMMIT takes effect (`CommitTrigger`,
`CommitInsert`): in between, others commit, and batches are selected.  `rows` is
`build_trigger` in the order in which rows appeared, `at` their `created_at`, by
which `get_unprocessed_build_triggers` sorts; `seen` (history) is how many rows
there were when a batch last selected the row.  `inserts` holds the INSERTs of
`rebuild_from_components` under way, and those whose client was told of an error
or died, and which may take effect all the same.  `denylist` is `failed_builds`.
`pc` is where `process_message_batch` stands; each phase is a stretch of the
function whose awaits touch the database or Koji, and loops over triggers are
loops over `todo`, so that a crash, a new row or a message can come between two
turns.
`StartRun`, `RecordFailures` and `RunEnds` stand for the whole of
`RebuildBatch.run()`, whose inside is `RebuildBatch`: it may record any subset
of what it builds as failures, once, and may raise at any await.  These are the
actions `Record` and `End` of `BatchRun`, which `RebuildBatch` is shown to
implement, so that the two modules fit together.  `Crash` keeps the
broker and the database and loses all else, the pause override included.
A row counts in `runs` (history) how many batches submitted it.

`TriggerLedger` is what remains when only the broker's events, the rows and the
denylist are looked at: rows appear in any order; the table is read; rows are
submitted in sets, one set at a time, none that a pending row read with it
supersedes; between two sets rows are retired, the oldest of those read together
first, each for a reason.  The crash, the redelivery and the failed write have no
counterpart there: they must look like nothing.

**RebuildBatch.**  One run, from the ready side-tag to the end.  `Order` and
`ScmUrl` say which slice and source each trigger has.  Components that share a
source may be in two slices, which then build it each, so a build is a URL in a
slice.  Within a slice such a source is submitted once per component, but
`start_builds` keeps the last task of each URL; the others are never awaited nor
published, and the slice has one build of it.  The denylist knows URLs only: one
may be there for a build that failed although another build of it succeeded.
`slice`, `attempt`, `prev` are the variables of `RebuildBatchSlice.run`;
`verdict` is what `wait_for_tasks` returns, one of the verdicts of
`TaskVerdicts`.  A failure of verdict `failed` names its request; `unknown` (a
poll that could not reach Koji) and `timeout` hold `None`, and are counted in
`nameless` instead.  `todo`, `nvrs`, `errata`, `published`, `refused` follow the
builds through promotion and the updates; `route` is the configuration's choice
of Bodhi, tagging or scratch builds.  Chunks of the list of NVRs are taken as
subsets of the right size, since nothing depends on the order.  `CallRaises` is
an exception of any call that `run` does not catch: `process_message_batch` logs
it.  An errata side-tag is created, and then ready or timed out, in which case
the loop starts over, as often as that happens (`CreateErrataTag`,
`ErrataTagReady`, `ErrataTagTimesOut`); what the tag goes through is in
`SideTags`.  The wait for the stable tag ends for each build by its arrival or
its timer.  The run's caller sees `BatchRun`: a phase (slices, publication,
over), the denylist, and what was published.

**TaskWaits.**  `active` is `state.active_tasks`, `future` the Future of each
task.  A waiter runs again some time after its Future was settled
(`WaiterReturns`) or its timer has fired (`TimerFires`, then `WaiterTimesOut`);
if both happened, `wait_for` raises `TimeoutError` and the result is lost.
`check_tasks` is `PollStart` (the snapshot), and for each task `PollAsk`,
`PollAnswered` (Koji's answer at that moment, or an error after the retries)
and `PollSettles` or `PollLeaves`, which run when the coroutine does, with an
answer that may be stale by then.  The message handler is one step, as it
awaits nothing.  `bus` holds final messages, possibly for ever: a message may
never be sent, may stay in flight, or may be delivered again.  `calm` chooses,
once, between executions in which waits are long enough and Koji answers every
poll, and those in which timers fire and polls fail.

**SideTags.**  One call of `_create_and_populate_side_tag`, with the loop that
starts over after a timeout; batches come one after the other and so do the
side-tags of one batch, so only one tag is waited for at any moment.  `pc` is
where `SideTag._prepare` stands, `tag` the name Koji gave; `pending` and
`future` are `state.pending_nvr_tags`.  Koji's tags are numbered; `tagging` are
its open tasks, `tagged` what they achieved, `bus` the `buildsys.tag` messages,
which may be lost, late, or come twice, also for a tag that was removed.
`inherited` are the builds in tags the side-tag inherits from, which
`listTagged(inherit=True)` lists with its own (`InTag`): the poll ends the wait
for such a build even if its tagging failed, which goes unnoticed.
`check_tags` is `PollAsk` (the NVRs it watches are read before the await),
`PollAnswered`, and `PollFires` or `PollRaises`.  A repeated `createSideTag` is
the one retried call whose first effect is modelled (`CreateSideTagRetried`):
Koji makes a tag that nobody knows of.  `patient` chooses, once, between
executions in which no wait times out and those in which any may.
`SideTagOffer` is the preparation without Futures, messages and polls: one new
and empty tag at a time in hand, handed out when each build is in it or inherited
by it, or removed.  It is what `PrepareSideTag` of `BuildTriggers` and
`CreateErrataTag` with `ErrataTagReady` of `RebuildBatch` take for granted.

**PeriodicTask.**  `driver` is where `_run` stands, `sleep` the state of
`_sleep_task`: running, canceled but unobserved, elapsed but unobserved.
`doomed` says that asyncio will raise `CancelledError` in the driver itself,
which is what `Task.cancel` arranges when there is nothing left to cancel in
what the driver awaits.

**KojiConnection.**  One thread per call; `lock` is `_auth_lock`, `bsys` the
session of the moment, `open` and `loggedIn` all sessions not closed, and those
that have logged in.  `Check` is `_ensure_tgt` on the event loop, `Ensure` the
critical section of `_ensure_tgt_sync`, `Acquire`, `Recreate` and `Refresh` the
three parts of a renewal, which another thread's `Ensure` or `Enter` may precede
but not interrupt; `Enter`, `Login` and the end of the request are
`_invoke_koji_sync`.  `Tick` takes one unit of time off the ticket and off its
cached expiry.  A failing read of the credential cache counts as an expired
ticket (`Lifetimes`).  A call sends `Requests[c]` requests: one, or the batches
of `koji_batch` that a helper's multicall is cut into.  `at` is the one it is
at, `ran` (history) how often Koji has carried out each, `faults` (history) how
often the call has met a fault on the wire, which is no reply or one of 5xx, 408
and 429; the retry runs the whole helper again.  Sessions have few names, used
again when nothing refers to them.  `KojiService` sees of all that a session
that is logged in or not, whose request is under way, and where each call is.

**Sessions.**  `state` is `_oidc_state_store`, whose entries become `stale`
after ten minutes and are purged by the next login; `row` is the table of
sessions, with `late` for those that have expired and are there still.  A
callback is `Callback` (the token is popped, whatever it is worth) and an action
per await.  `Arrive`, `Validate` and `TriggerPost` or `ControlPost` are the steps
of a protected request, between which the session may expire or be deleted.
`refs` is `_background_tasks`: a suspended task not in it is collected, and never
woken up.  `Crash` keeps the rows.  In `AccessGrants` a token is issued,
redeemed and used up, a session lives once, a request is let in at one moment,
and the rebuild it was promised is owed until it is done or the process dies;
rows that have expired and are there still, callbacks and lookups are hidden by
the mapping.

**Configuration.**  A revision of the repository is valid or not, asks Content
Resolver or not, Bodhi or not, and has overrides and exclusions; `comps` is a
revision and the list it was combined with.  The update (`lpc`), the cleanup
(`cpc`) and the status page (`spc`) have one action per await, with the names
that remain in `todo` and `unset`, while pushes, lists and tags change at any
time.  The row that `PickComponent` hands to the queue is `Enqueue` of
`BuildTriggers`.  `config_ref` is left out: `update_config` writes it, but
nothing reads it.

The line-by-line correspondence is `map` in `PROJECT.json`.  Names ending in
`_Something` next to an action are mutants: the action with a plausible bug,
used to show that a property can fail.

## 3. Runs, bounds and fairness

| Run | Instance | Question |
|---|---|---|
| `BuildTriggers_pipeline` | an event of a component, one of no interest, and an ELN build of the component without source; 1 fault, 1 manual rebuild of either build, fair | can a trigger be lost, completed or rebuilt out of order, completed for nothing, built though denied? is the table a ledger? is every event stored and every row completed? |
| `BuildTriggers_recent` | 2 events of one component, one ELN build of another made from the same source, 1 fault | a statement of a comment (section 6) |
| `BuildTriggers_paused` | the same | a statement of the release notes (section 6) |
| `TaskWaits_races` | 2 tasks, calm or with timeouts and poll errors, fair | do the three parties ever lose, duplicate or falsify a verdict, does every wait end, and does the poll alone report every end when it is calm? |
| `TaskWaits_outage` | the same | a statement of a docstring (section 6) |
| `RebuildBatch_run` | 4 triggers of 2 URLs in 2 slices, one URL shared by three of them, in one slice and in both; updates of 2 builds, all three routes, 1 failing call, fair | what may be denied, published, dropped, for how long is it retried, does a run end, and is it what its caller takes it for? |
| `RebuildBatch_timeout` | the same, no failing call | a statement of the documentation (section 6) |
| `SideTags_prepare` | 2 builds, one of which may be inherited, 2 side-tags, 1 fault, with and without timeouts, fair | is a side-tag ready only when it is, are waits or tags left behind, does it get ready, and is one tag at a time in hand? |
| `PeriodicTask_loop` | 4 resets, 3 stops, fair | is the loop alive until it is stopped, and not after? |
| `KojiConnection_threads` | 2 threads, one of whose calls sends 2 requests, a ticket of 3 units of time against a threshold of 2, 2 tries, with and without a keytab, fair | is a session ever closed under a request or leaked, a dead ticket used, a thread stuck, and is Koji one service to the coroutines? |
| `Sessions_logins` | 2 tokens, 2 callbacks, 2 sessions, 1 request with its task, 1 restart, fair | do tokens, sessions and promises keep their order, whom do sessions admit, what stays, what is dropped? |
| `Configuration_reload` | 3 components, of which one was never built, 2 good revisions and a broken one, 2 lists of packages, 2 attempts, fair | is what is in force of one piece and up to date; do the cleanup and the page survive reloads? |

Why the bounds are enough to mean something.  For the pipeline, two rows of one
component, of which either may appear last, and a third by a redelivery or a
COMMIT that outlives its error suffice to supersede, to leave one behind, and to
insert while the batch runs; one fault falls at every place a fault can.  More
of each multiplies instances of the same pattern, and the proofs remove the
bounds; two components that share a source, so that the denial of one concerns
the other, are left to them (`DenylistHolds`).  For the waits, the poll is
asking about one task while the other moves.  For the batch, a slice of two can
fail alone and together, so that counts go 2, 1, 0 and 2, 2; three builds make
one full chunk and a shorter one; a URL built in one slice can fail in the
other.  For the side-tags, one of two builds can be in the tag while the other
is not, or be inherited, and what belongs to the first tag meets the waits of
the second.  For the connection, one thread can be inside its call while the
other renews the ticket, a ticket above the threshold can fall below it in one
unit and die in three, and a second try may follow a fault on either request,
the first carried out or not. For the sessions, a browser comes back twice, at
once or later, and what the restart forgets is met by what it does not.  For the
configuration, one component is in a list and excluded by the other revision
while the other is forced in by it, so every pair of sources differs; a list may
be empty, or hold a component that was never built, for which neither cleanup
nor page finds a build. `MaxFaults`, `MaxManual`, `MaxTags`, `MaxResets`,
`MaxStops`, `MaxCrashes` and `Threshold` as the limit of the counter `waited`
are the only artificial bounds; all are in guards.

Deadlock checking is off in every run because every model may come to a
legitimate rest: no more events, all waits over, a batch done, a driver ended.

Fairness.  `BuildTriggers`: weak fairness of the consumer's steps and of the
batch's.  The event loop runs whatever is ready, the `PeriodicTask` ticks for
ever (`KeepsCalling`), and every await of a batch returns or raises: the waits
for tasks and tags have timeouts, `call_koji` gives up after 60 seconds. Faults,
pauses, manual rebuilds and new events are owed nothing, and
`EventuallyCompleted` assumes that processing is not paused again and again,
and, since `SideTagTimeout` counts as a fault, that a batch's side-tag does not
time out for ever: the code tries again without bound. `TaskWaits`: weak
fairness of the poll, the waiters and the timers, none of the messages, none of
the tasks' ends.  `RebuildBatch`: weak fairness of the coroutine and of the
timers, none of Koji's and Bodhi's work; `RunTerminates` assumes that errata
side-tags do not time out for ever, the same unbounded loop. `SideTags`: the
preparation, the poll, the waits and the timers; Koji's open tagging tasks
succeed in the end if no timeout ends them, the messages are owed nothing.
`PeriodicTask`: the driver's steps; the coroutine it calls returns.
`KojiConnection`: every thread goes on, requests end (they have timeouts), and
strong fairness of what takes the lock, as a `threading.Lock` released time and
again is obtained in the end.  `Sessions`: what was begun goes on, sessions
expire, the daily cleanup is a `PeriodicTask`; logins, logouts and returning
browsers are owed nothing.  `Configuration`: the three `PeriodicTask`s; its
liveness properties assume that services recover (`ServicesRecover`), that is
that they fail finitely often, or nothing could be said.

## 4. Properties

`BuildTriggers`

* `NoLostTrigger`: an eligible event is at the broker until its row is
  committed.
* `CompletedInOrder`: of the rows of one component that a batch has read
  together, completion is a prefix.  It is what makes `NoRegression` hold across
  crashes, and hangs on the order in which `get_unprocessed_build_triggers`
  completes what it drops.  A row that appears after a newer one was read is
  pending behind it for a while: no code could complete what it cannot see.
* `NoRegression`: not rebuilt from an older row after a newer, unless the older
  row appeared after the batch of the newer had read the table.  Then it is, and
  section 6 says what the code's comment makes of that.
* `RunOncePerFault`: a row is submitted again only after a crash or a failed
  write.
* `CompletedForAReason`: a completed row was submitted, superseded, denied,
  or had no source to be had.
* `DenylistRespected`: no denied source is submitted, whichever row asks.
* `ImplementsLedger`: `TriggerLedger!Spec`.  Beyond the properties above: of each
  component the newest row that was read is submitted, rows are submitted and
  retired in turns, only what failed in the set under way is denied, and what is
  retired or denied stays so.
* `EventuallyStored`, `EventuallyCompleted`.

`TaskWaits`

* `WaitsMatchEntries`: a pending wait is reachable through `active_tasks`, and
  nothing else is in it.
* `ClaimedUnsettled`: whoever claims a Future may settle it, but for the race
  with its timer that the code allows for.
* `ImplementsFairly`: `TaskVerdicts!FairSpec`, that is one verdict per wait,
  success or failure reported only of a task that closed or failed, and in the
  end a verdict.  (`ImplementsVerdicts` is its safety half.)
* `EndIsReported`: the poll makes up for lost messages.

`RebuildBatch`

* `DenylistedFailedTwice`: the denylist is permanent, so one failure must
  never be enough.
* `GivesUpOnSameSet`: comparing *counts* is enough to know that the same set
  failed twice, as the comment in the code says, when at least one failure
  names its request.
* `BoundedAttempts`: at most one attempt more than the slice has URLs.
* `NothingDropped`: the side-tag outlives every build that was neither
  published nor refused.
* `RunTerminates`: though builds never end, are never tagged and never reach the
  stable tag, unless errata side-tags time out for ever.
* `ImplementsBatchRun`: failures are recorded at one moment, before anything is
  published, and no build is among them that succeeded; builds are split over
  updates without overlap, and only what was built is published; nothing goes
  on once `run` has returned or raised.

`SideTags`

* `ImplementsOffer`: `SideTagOffer!Spec`.  Whatever of earlier tags is still
  under way, a side-tag that is handed out exists and holds or inherits every
  build (`ReadyMeansTagged`, which is proved apart), the one before it was
  removed, and no other was touched.
* `WaitsMatchEntries`: as for the tasks; a leftover Future would make the next
  wait end at once, or the poll ask for ever for a tag that is gone.
* `LeaksAccounted`: side-tags left behind are due to faults, never to timeouts.
* `EventuallyReady`: messages are not needed.

`PeriodicTask`: `StopIsObeyed`, `StopEnds`, `KeepsCalling`.

`KojiConnection`

* `RequestKeepsItsSession`: a request in flight is on the current session,
  open and logged in, whoever renews what.
* `NoSessionLeak`: however renewals fail, only the current session is open.
* `TicketOutlivesTheWait`: what the threshold is for.  A call that found a
  ticket above it logs in with a live one if it gets to Koji before the
  threshold has passed.  It says nothing of a call that waits longer for the
  lock, or that went on with a short ticket after a soft renewal failed.
  Without a keytab it assumes that whoever replaces the ticket puts a longer one
  in its place (`Kinit`): a cached expiry cannot know of a shorter one.
* `ImplementsService`: `KojiService!Spec`.  The requests of a call go out in
  order and alone, on a session that has logged in and stays until they are
  over; a call that returns has had all its answers in one try, and starts over
  for a fault on the wire and nothing else.  It then repeats batches that Koji
  has carried out and answered: builds are started, tagged or promoted again.
  How often is bounded by the faults and the tries (`RepeatsAreFaults`, proved
  apart).
* `EveryCallEnds`.

`Sessions`

* `ImplementsGrants`: `AccessGrants!Spec`.  A token leads to one session at
  most, also when it comes back twice, late, or while its first callback is at
  the provider (`OneSessionPerLogin`, proved apart); a session that is over does
  not come back; who is let in has a session that is alive in that very step;
  a promised rebuild is neither lost nor done twice.
* `AdmittedByALiveSession`: at the time the request came; one let in before its
  session ended goes on after it, which the code intends.
* `SessionsGo`, `TokensGo`: nothing stays for ever; tokens need later logins.
* `AcknowledgedIsRun`: a rebuild that was answered with success takes place
  unless the process dies.

`Configuration`

* `OneRevisionInForce`: control block and components come from one revision, and
  there are components.
* `ConfigFollows`: what is in force follows the repository *and* the list of
  packages, broken revisions and outages notwithstanding.
* `MissingIsPicked`: a component ELN wants and lacks is queued again and again
  until it is there.
* `PageIsRefreshed`: reloads under the status page cost rounds, not the page.

## 5. Proofs

TLAPS checks, for every value of the constants that meets the named
assumptions:

| Module | Theorem | Property |
|---|---|---|
| `BuildTriggersProofs` | `TypeCorrect`, `NoTriggerLost`, `InOrder`, `BoundedRuns`, `CompletionJustified`, `NeverRegresses`, `DenylistHolds`, `LedgerRefines` | all safety properties of `BuildTriggers`, the refinement included |
| | `BatchIsFinite` | the safety half of `EventuallyCompleted` |
| `TaskWaitsProofs` | `TypeCorrect`, `WaitsMatch`, `SettledOnce`, `Refinement` | all safety properties of `TaskWaits`, the refinement included |
| | `PollFindsEnd` | the safety half of `EndIsReported` |
| `RebuildBatchProofs` | `TypeCorrect`, `DenialJustified`, `SameSetFailedTwice`, `AttemptsBounded`, `NoBuildDropped`, `RunRefines` | all safety properties of `RebuildBatch`, the refinement included |
| | `RunIsFinite` | the safety half of `RunTerminates` |
| `SideTagsProofs` | `TypeCorrect`, `ReadyIsTagged`, `WaitsMatch`, `LeaksBounded`, `OfferRefines` | all safety properties of `SideTags`, the refinement included |
| | `EntriesAreOpen`, `PollFindsBuild` | the part of `EventuallyReady` that does without messages |
| `PeriodicTaskProofs` | `TypeCorrect`, `StopObeyed`, `ResetSpares` | the safety properties of `PeriodicTask` |
| | `CallIsNear`, `StopIsNear` | the safety halves of `KeepsCalling` and `StopEnds` |
| `KojiConnectionProofs` | `TypeCorrect`, `SessionSafety`, `NothingLeaks`, `TicketSafety`, `RepeatSafety`, `ServiceRefines` | all safety properties of `KojiConnection`, the refinement included |
| | `CallIsFinite`, `LockIsRunning` | the safety half of `EveryCallEnds` |
| `SessionsProofs` | `TypeCorrect`, `LoginsAreSingle`, `AdmissionIsSound`, `GrantsRefine` | all safety properties of `Sessions`, the refinement included |
| | `RebuildIsHeld` | the safety half of `AcknowledgedIsRun` |
| `ConfigurationProofs` | `TypeCorrect`, `WholeConfiguration` | all safety properties of `Configuration` |
| | `UpdateCatchesUp`, `OnlyReloadsSpoil`, `RoundsAreFinite` | the safety halves of `ConfigFollows` and `PageIsRefreshed`, and of what the periodic tasks need |

Every module has its `TypeOK`, which is part of the invariant and proved with
it; no run checks it, since a variable without its type would be found by the
properties or the proofs.

The assumptions are those named in the modules: constants that are distinct
(`NoTask`, `NoFlow`, ...), bounds that are natural numbers, a configuration
whose revisions have the parts they should (`RevisionAssumption`), and sets of
tasks and of component names that are finite, which `PollFindsEnd` and
`RoundsAreFinite` count.

In each the conjunction `IInv` is shown to hold initially and to be preserved
by every action, and the properties follow from it.

*Pipeline.*  No property is inductive alone.  `DropInv` says that while
superseded rows are being completed, `todo` holds all the pending rows that are
older than a trigger of their component and were read with it, so completing the
oldest keeps `CompletedInOrder`.  `OlderInv`: after that phase every such row is
done.  `NewerInv`: rows newer than a trigger are neither done nor submitted if
they came during the batch, and else were done before the trigger could be read.
`SeenInv`, `StampInv` and `InsertInv` say that rows that were read are in the
table, that each row, each INSERT under way and the consumer have a `created_at`
of their own, and that INSERTs are for builds that may have a row.  `FilterInv`
says which triggers each phase has already dealt with, `RunsInv` that a row not
in the hands of the batch was submitted at most once per fault. The proof has
one lemma per group of actions.  `LedgerRefines` maps every step to one of
`TriggerLedger` or to none; a row is retired there for the reason that
`FilterInv` and `OlderInv` give.

*Waits.*  `TruthInv`: what a settled Future, a message or an answer says is
what Koji had decided; final states do not change, so a stale final answer is
still true, and a stale "open" settles nothing.  `RegisteredInv`: all are
registered or none is.

*Batch.*  `SliceInv` relates `prev` to the attempt in progress: after a retry
it is exactly the number of builds submitted, each of which has failed before,
and `attempts` plus that number never exceeds the size of the slice plus 2.
That is why comparing counts is enough, and it rests on cardinalities of finite
sets (`FiniteSetTheorems`).  It also needs the batch to be smaller than the ten
million of the code (`TriggersAssumption`), or the first comparison would fail.
`ResultInv` keeps successes, failures and the current attempt apart, `PubInv`
accounts for every build between `nvrs` and the end.  `RunRefines` maps each
step to one of `BatchRun` or to none, and rests on both.

*Side-tags.*  `TruthInv`: a success comes from a message or a listing of the
very tag, its inherited builds included, and builds do not leave it.
`PhaseInv`: the tag in hand exists, and builds are awaited in one phase only, so
that `pending_nvr_tags` is empty when the next tag is made.  `SettleInv` is the
lemma that a message and the poll share. `LeaksAccounted` then follows by
counting.  `OfferRefines` needs `FreshInv` as well: only tags that exist are
tagged into, so a new one is empty.

*Periodic task.*  `StopInv`: after a `stop` the flag is down and the driver is
doomed, or its sleep is canceled, or it has ended.  `AliveInv`: before the
first, none of that is so, however many resets there were.

*Connection.*  `LockInv`: the lock is held exactly between taking it and
releasing it.  `SessionInv` is about the session of the thread that has it, and
needs `NoSessionLeak`.  `TicketInv`: the cached expiry is never later than the
real one, so a stale cache errs on the safe side, and a ticket found above the
threshold has at least `Threshold - waited` left: others may renew it, which
only makes it longer.  `RunInv` counts what was carried out: by a try that is
under way the requests before `at` once, by each earlier try every request at
most once, and each earlier try ended with a fault.  `ServiceRefines` follows
from these: the thread in the request has the lock, so nobody else's step can
replace the session.

*Sessions.*  A token with a session to its name is neither in the store nor in a
callback, and no two callbacks have the same token.  Admission follows from a
lookup in the one step that grants it; a session id is never issued twice, so
what the row becomes later does not matter.  `GrantsRefine` needs `JobInv`, too:
no rebuild is open behind a request that is being looked at, and one that is
open is in `_background_tasks`.

*Configuration.*  Whatever waits for its last fetch comes from a valid revision
and gives a table that is not empty, so assigning both globals in one step keeps
`OneRevisionInForce`.

*Halves of liveness.*  That something happens in the end needs fairness, which
is out of the prover's reach, and something that cannot go on for ever, which is
not.  The theorems of the second kind give a natural number for each state and
show that every step of the party in question lowers it and that nobody else's
step raises it.  For a run of a batch (`RunIsFinite`) it is made of the slices
left, the attempts that `BoundedAttempts` leaves to the slice, and the
publications left; one step raises it, by one, and the theorem says so: the
timeout of an errata side-tag; for the pipeline (`BatchIsFinite`) of the phase
and the size of `todo`, which rows that arrive meanwhile do not enter; for a
call (`CallIsFinite`) of its tries and, within each, the renewals and the
requests.  `PollFindsEnd` and `PollFindsBuild` count the steps of the polls
until an end that nobody announced is found, and say that who takes an entry out
of the table tells its waiter the truth: a snapshot or an answer that is too old
costs one round. `UpdateCatchesUp` counts how far `update_config` is from its
sources when it may have read an older revision, an older list, or both; a
failure costs a round, and what is right already is not replaced by anything
else.  `RoundsAreFinite` says that the cleanup and the status page end their
rounds whatever is reloaded under them, `OnlyReloadsSpoil` that without a reload
no lookup fails.

Only model-checked: the liveness properties themselves (fairness and `ENABLED`
are out of the prover's reach), `ImplementsFairly` with them, and everything of
section 6.

## 6. Where the code and its documentation disagree

Each of these runs looks for a violation of what a document, docstring or
comment says, and finds one.

* `MostRecentBuild`: "only the most recent build of each component" is the most
  recent *row*; a redelivered message makes an older build the newest row.  So
  is, in its turn, an older row whose COMMIT comes after the table was read for
  the newer one.
* `FailedMeansFailed`: `TaskFailedError` is also raised when the poll cannot
  reach Koji; the task may be running still, nothing cancels it, and as the
  failure names no request the build is not retried.
* `SuccessesPublished`: with mail configured, a batch with one timed-out task
  raises `TypeError` while composing the mail about failures, before it
  collects the builds that succeeded; they are not published, and their
  triggers are completed.
* `NoBatchWhilePaused`: the pause is looked at before `process_message_batch`
  awaits the pending rows.  One that comes during that await does not keep their
  batch from starting, although the release notes say that no build can be
  started while paused.

More are plain from the code and have no run.

* The repository's README says that triggers are Nacked while a batch runs;
  `_handle_trigger_tag` stores them.
* The comment on a slice's end, "either they have all succeeded or the same set
  have failed twice in a row", leaves out timeouts: a URL that timed out is
  forgotten without a second try.
* A `PeriodicTask.reset` that comes between the end of the sleep and the
  driver's next step does not postpone the call.
* "A stop() always wins over a same-tick reset()": over one before it.  A reset
  *after* it, in the same tick, revives the sleep.  The daemon never calls
  `stop`.
* `POST /control/unpause` answers that processing "has been resumed" also when
  `control.pause` keeps it paused.
* The docstring of `get_config_ref` says that the ref is used to check whether
  the configuration should be resynchronised; it is stored and never read.
* The docstring of `oidc_callback` says that it validates group membership; it
  creates a session for any user, and the groups are looked at by each request.
* `rebuild_from_components` compares whole NVRs with `rpm.labelCompare`, so
  for a component renamed in ELN it compares the names, not the versions.

## 7. What is not modelled

* What is inside the messages, the formats of NVRs and URLs, mail texts, HTML,
  and with them which of two builds is the newer.
* Time: a timer may fire at any moment after it is set.  The exception is the
  ticket, whose lifetime, cached expiry and threshold are counted.
* Koji and Bodhi beyond what the code reads from them.  A tag operation or a
  promotion is refused for any subset of builds.
* Repeated effects of calls that `call_koji` retries, outside `KojiConnection`
  and but for `createSideTag`: elsewhere a call takes place once, or raises.
  What Koji makes of a second `tagBuild` or `promoteBuild` is not in the code;
  of a second `build` it makes a second task, which nobody awaits.
* A clock that is set back, or that gives two rows the same `created_at`; a
  ticket replaced by a shorter one, and one without an expiry, which counts as
  just above the threshold each time it is read.
* `mark_completed` writes a row that is completed already a second time; only
  the time stamp would show it, and the model keeps none.
* The validation of the static file: it runs once, before anything else.
  Negative values of `bodhi.batch_size` are excluded by `SizeAssumption`, and
  `control.exclude` is a set of names, not a list of patterns.
* The list of Content Resolver is fetched as a whole, although it comes in
  several files, and the retries of one fetch are one step that succeeds or
  fails.
* An override with another `upstream_name` leaves the component's own name
  eligible as an upstream; the names of `Configuration` are downstream names.
* The mode without OpenID Connect, in which everybody is admitted; what the
  pages show.
* Start-up: a linear sequence that ends the process when a step fails.
* The lull timer: how long triggers that keep coming may put off a batch.  The
  code promises no bound.
* Losses the code accepts: a build whose task Koji knows no build of
  (`NoBuildInfo` leaves it out), a pause that a restart forgets (`Crash` leaves
  `paused` arbitrary), a build tagged between a listing and the row made from it.

## 8. Plan

Done, most important first: the pipeline, the task waits, the batch, the
side-tags, the periodic task, the connection, the sessions, and the
configuration with its two periodic readers; an abstract specification for all
but the last and the periodic task; the safety of all of them proved, the
refinements and the safety halves of their liveness included.

Left, in this order:

1. The actions `RecordFailures` and `RunEnds` of `BuildTriggers` derived from
   `BatchRun` by a theorem; that they are the same is a remark now (section 2).
2. `rebuild_from_components` on listings that go stale, joined to the table of
   triggers: when an older build is queued after a newer one.
3. The retried submission to Bodhi, once it is known what Bodhi makes of a
   second update for a side-tag.
4. The consumer, the lull timer and the batch together: starvation by steady
   triggers, and what bounds it.
