# Verification of ancs-bridge

TLA+ models of the ancs-bridge daemon, its setup and teardown (src/), checked with
TLC on small instances. Every safety property the runs check is also proved with TLAPS,
for every value of the constants; liveness is left to TLC.
`PROJECT.json` maps each definition to the lines it translates and lists the runs,
mutants, findings, hazards and theorems.

    tlc -workers 2 -config Session.cfg MCSessionEngine.tla
    tlapm SessionContentProofs.tla

## 1. The system

ancs-bridge shows an iPhone's notifications on a Linux desktop. The phone
publishes ANCS over Bluetooth: *Notification Source* carries 8-byte events,
*Control Point* takes attribute requests, *Data Source* carries the answers in
fragments. One task runs everything in the daemon; a thread owns the desktop
notifications.

| Component | Source | State it keeps | Operations |
|---|---|---|---|
| Session engine | `src/ancs/session.rs` | queue of uids (`pending_order`, `pending_kind`), `outstanding`, `canceled`, handles and their order, app names and their order | `ingest`, `process_next`, `end` |
| Decoder | `src/ancs/codec.rs` | byte buffer, queue of expectations | `expect`, `push`, `clear` |
| Sink | `src/notification.rs` | actor thread with its handles | create, replace, close |
| Supervisor | `src/bluetooth/supervisor.rs` | status snapshot, `session_active`, backoff, stall and failure counters | `reconcile_once`, `handle_one_packet`, `run`, `shutdown` |
| Transport | `src/bluetooth/transport.rs` | D-Bus session, adapter, registrations with an advertisement baseline, characteristics, streams | `reconcile`, `subscribe`, `next_packet`, `write_control`, `end_ancs_session`, `reset_bluez_session` |
| Status | `src/status.rs` | writer's record, `status.json` | `publish`, `update_device_name`, `status` |
| Setup | `src/setup/` | workflow state, agent gate, adapter snapshot, temporary registrations | prepare, candidate, confirm, verify, cleanup, commit |
| Audio rules | `src/audio.rs`, `src/atomic_file.rs` | two WirePlumber rule files | plan, apply, reload, roll back |
| Teardown, service control, configuration | `src/teardown.rs`, `src/service.rs`, `src/config.rs` | the unit, `config.toml`, the bond | stop, remove rules, forget, erase |
| Processes | `src/main.rs`, `packaging/` | pids, the unit and its runtime directory | start, exit, restart |
| Others | `machine`, `diagnostics`, `hid`, `clock` | none | formatting, checks, constants |

**Interaction.** `run` calls `transport.reconcile`, acts on its observation and
publishes a snapshot. In state *ready* it drives the engine: it works off the
queue, or waits in a `select!` for a packet or the five-second interval. The
engine borrows the transport to write a request, then reads *both* streams until
the answer or its own five-second timeout, so events are ingested in the middle
of a request. It awaits each command it sends to the sink. Setup is another process
with registrations and streams of its own on the same BlueZ; it, teardown and the
daemon meet in the configuration, the rule files and the unit. The status command
reads the configuration, the status file and the process table, one after the other.

**What is hard.** (a) Events between any two fragments, and between the two
requests of one notification. (b) Timeouts, late answers, answers that belong to
an abandoned request. (c) The `select!` *drops* a running `process_next`, at
whichever await it stands. (d) Three bounded structures, each kept twice: a map
and an order. (e) BlueZ, adapter, advertisement and phone disappear at any time,
and the transport notices before the supervisor. (f) A status file whose writes
may fail. (g) In setup and audio: cancellation at every await, rollback that
fails, crashes between a file and its reload. (h) BlueZ tells how many
advertisements there are and whether somebody is notified, not whose they are, and
releases dropped handles late. (i) Pids come back, and files outlive their writers.

**What makes each part correct.** Engine: the desktop mirrors the phone, no
notification is lost without being counted, none stays for ever, bounds hold,
requests end. Decoder: an answer is paired with its own request. Supervisor and
transport: they agree about the session, *ready* means subscribed, the daemon
becomes ready again unaided, registrations are not churned. Status: the file says
what the daemon last knew. Setup and audio: nothing is committed without
confirmation; failure or cancellation leaves what was there before.

## 2. The modules

| Module | Models | Uses |
|---|---|---|
| `Queues` | a `VecDeque` beside a `HashMap`: `Orders`, `Without` | |
| `DataSource` | the decoder over GATT notifications | |
| `SessionEngine` | the engine with phone, server and sink actor | `DataSource`, `Queues` |
| `Bridge` | `run` in *ready* driving the engine, dropped futures, signals | `SessionEngine` |
| `Supervisor` | `reconcile_once`, `run`, transport, status writer, environment | |
| `Transport` | `BluerTransport` over a BlueZ shared with a setup and other advertisers | |
| `Setup` | `SetupProtocol::run` over `BluerSetupBackend` and `AgentGate`, with caller, BlueZ and phones | |
| `Transaction` | abstract: what setup and teardown promise about configuration, rules and unit | |
| `Persistence` | the commit of a setup and the teardown, file by file; implements `Transaction` | `Transaction` (INSTANCE) |
| `Lifecycle` | daemons, the unit, the status file and the status command beside those commands | `Transaction` |
| `MC...` | constants for TLC | |
| `SessionEngineProofs`, `SessionContentProofs` | theorems: types, request, queues and bounds; what the desktop shows | `SessionEngine` |
| `BridgeProofs` | theorems: what survives a dropped future | `Bridge`, `SessionContentProofs` |
| `SupervisorProofs`, `TransportProofs`, `SetupProofs`, `PersistenceProofs`, `LifecycleProofs` | theorems | the module of that name |

Three modules see parts of others at another grain. `Bridge` sees recovery as
`SessionLost` and `Supervisor` the engine as `WorkDone`. `Supervisor` keeps the link as
the transport reports it, where `Transport` derives what is reported from counts and
handles. `Setup` ends in a `Commit` that succeeds or not; `Persistence` is what happens
in it. Only the last of these is a checked refinement, against `Transaction`.

### SessionEngine

The engine is one future: it meets its environment only where it awaits, and
`pc` names the await. One action covers the code up to the next await:

| Action | Code |
|---|---|
| `ReceiveEvent` | an event is read, by `handle_one_packet` or inside `wait_for_response`, and ingested. `SkipPreExisting`, `IngestRemoved`, `Coalesce`, `Requeue`, `DropWhenFull`, `Enqueue` are the branches of `ingest` |
| `DiscardFragment` | `handle_one_packet` reads Data Source with nothing outstanding |
| `ProcessNext` | pop, `outstanding`, expectation, write of the request or its failure |
| `NotificationFragment`, `AppFragment` | `wait_for_response` pushes a fragment: incomplete, decoded or error |
| `NotificationFails`, `AppFails` | timeout or end of stream |
| `ResolveApp` | cache hit, app request, or failing write |
| `Create`, `Replace`, `DeliveryFails` | the sink's three answers, then `retain_handle` with eviction |
| `EndSession` | `end`, then a phone with a new session |

`PhoneAdds`, `PhoneModifies`, `PhoneRemoves`, `PhoneAnswers`, `PhoneIgnores` and
`SinkDies` are the environment. A notification's text is its `version`. The
counters are abstracted to `excused`, the uids a loss was counted for.

`DataSource` works on GATT notifications, not bytes: `Parse` answers with the
*set* of outcomes for a buffer, both where the bytes decide (a splice of two
responses may look incomplete or be an error). The header is taken to lie in the
first fragment, and a splice whose lengths happen to add up is left out.

### Bridge

Adds `loop`, the place in `run`. `Process` lets `process_next` run in the
iterations that run it; `IntervalPasses` drops it in the `select!` and `Signal`
drops it anywhere, keeping the engine's fields and losing its locals.
`SinkFinishes` is the command that was sent before the drop and is executed all
the same; `leaked` remembers creates of that kind. Everything outside *ready* is
`SessionLost`.

### Supervisor

`pc` is the place in `run`; `observed` the observation in hand, so that the
environment may change between `transport.reconcile` and what is done about it,
and between *subscribing* and `subscribe`. One action per observation
(`HandleError`, `Elsewhere`, `HandleWaitingForPhone`, `HandleAvailable`,
`HandleReady`), two for the result of `subscribe`, and one per end of an
iteration. `Write` and `UpdateName` may fail silently. A status is a record of
everything `StatusSnapshot` and the file share but counters and timestamps.
`Stop` is a signal (nothing is published) or a crash, after which `Restart`
stands for systemd's `Restart=on-failure`. An advertisement is `live`, gone, or
`wedged`: counted by BlueZ and unanswered, which is what the stall thresholds of
the code are for.

### Transport

BlueZ answers two questions, how many advertisements are active (`Active`) and whether
somebody is notified (`Notifying`), and everybody's counts. `live` and `dying` are a
client's advertisement before and after its handle was dropped; `stream` is `"on"`,
`"stopping"` once dropped, and `"ended"` under a holder that has not noticed. `pc` is the
await of the daemon, `step` that of the setup.

| Action | Code |
|---|---|
| `Reconcile`, `Judge`, `ReadBaseline`, `Advertise`, `Device` | `reconcile`: `ensure_bluez` and power, `registrations_are_live`, `ensure_registrations`, device and `discover_characteristics` |
| `Leave`, `WaitForPhone`, `Subscribe`, `Session` | what the supervisor calls next on each observation |
| `SubscribeData`, `SubscribeNotification` | `subscribe`, each half failing |
| `Quiesce`, `Release` | `end_ancs_session` and `release_registrations`, with their bounded waits; `then` is where they return to |
| `Terminate` | SIGTERM drops `run` anywhere, and `shutdown` goes through the same waits |
| `SetupBegins`, `SetupAdvertises`, `SetupRegistersAgent` | a fresh window (with an agent), one for a reconnect, or none |
| `PrepareDropped` | a command or signal drops `prepare` before it stored its handles |
| `VerifyData`, `VerifyNotification`, `VerifyFails`, `VerifyDropped` | `verify_ancs`; a command, signal or deadline drops it between its halves |
| `SetupDrops`, `SetupQuiesces`, `SetupReleases`, `SetupExits` | `cleanup_temporary`, which waits for what is in `stored`, and the end of the process |
| `Stopped`, `Unregistered` | BlueZ carries out what a dropped handle asked for |
| `OtherComes`, `OtherGoes`, `BluezRestarts`, `PowerChanges`, `PhoneComes`, `PhoneLeaves` | environment |

`came`, `left`, `abandoned` and `unread` are history: what the counts cannot tell.

### Setup

`pc` is the await `run` stands at, those inside `prepare` and `cleanup_temporary`
included. `CommandAborts`, `SignalAborts` and `DeadlinePasses` are the other
branches of the selects: they drop what stands there, and `InFlight` is a D-Bus call
that takes effect all the same. A select that is biased to the command is a guard
(`Prepares`, `Undisturbed`): its other branch goes on only while no line is unread.
While the pairing settles and while the cleanup runs nothing reads, so lines wait for
the next select.

| Action | Code |
|---|---|
| `CheckEnvironment`, `ForgetRepaired`, `OpenWindow`, `RegisterAgent`, `SetPairable`, `SetDiscoverable`, `OpenReconnectWindow` | the awaits of `prepare`, each with its failure |
| `AgentCalled` | `AgentGate::request`: accepted, rejected, waiting, or canceled when nobody receives notices |
| `RefuseBonded`, `TakeCandidate` | `wait_for_candidate` |
| `Confirm`, `Reject`, `DecisionFails`, `Settle`, `SettleDeadline` | the decision and `answer_confirmation` |
| `VerifyAncs` | `verify_ancs` |
| `Quiesce`, `RestoreAdapter`, `Unregister` | `cleanup_temporary`, before a failure is reported and before the commit |
| `Commit`, `CommandStopsCommit`, `SignalStopsCommit` | the last select; all of `commit` after its one await is synchronous |

Codes of one kind are one value of `report`. The rule files are one value, `audio`:
a device's, or `"mixed"` when a rollback failed half-way. `unheard` is an end that
could not be written to stdout, wherever an event is written.

### Transaction and Persistence

`Transaction` is what an observer may rely on: a command takes `config`, `rules` and
`unit` through stages. `Commit` changes configuration and rules at once, `Refuse`
neither; `Break` is a command that was killed or says `cleanup-failed`, and may leave
any rules. Teardown gives up the rules (`GiveUp`) and then erases, or keeps the
configuration (`GiveUpHalf`). `loose` marks a command disturbed by an edit, by a start of
the unit, or by an operation that failed although it took effect.

`Persistence` is the code. One step is one file operation, one `systemctl` call, or one
bond removal; `pc` names the stage (`stop`, `plan`, `apply`, `undo`, `reload`, `save`,
`bond`, `erase`). Every operation may fail, and `Killed` may come between any two. A
replacement (`atomic_file`) is done, fails before the rename, or fails after it (`late`).
`Edit` is the user writing or removing a rule file, `WirePlumberStarts` a login,
`UnitStarts` the user enabling the unit. `removals`, `creations`, `removed` and `created`
are the planned and the applied `RuleChange`: sets of paths, since a `BTreeMap` is walked
in the order of its keys. `Firsts` and `Lasts` are the next path of a walk forwards and
backwards by `Rank`, any injective numbering of the paths.

`Promise` instantiates `Transaction`: while a command changes files, `rules` is whose
they were when it began; `stage` folds the stages above; `loose` is `raced \/ late`.

### Lifecycle

Builds on `Transaction` (by EXTENDS), so its commands are the abstract ones. A daemon is
a pid with the device it was configured for; each start has a number, `born`. The unit's
daemon is `managed`: `Ends` of it removes the runtime directory and the status file in
it. `Ask`, `ReadStatus` and `Answer` are the three reads of the status command. `StartByHand`
is `ancs-bridge daemon` in a terminal, whose status file nobody removes.

## 3. The runs

| Run | Question | Bounds |
|---|---|---|
| `session` | do queue, handles and cache stay consistent and bounded, and does the desktop show each uid's own, current text, nothing orphaned, and in the end everything? | 2 uids, 2 apps, limits 1, two texts of one uid, up to 2 fragments, 2 sessions |
| `session_ghost` | is a removed notification closed? (no) | same, 1 fragment, 1 session |
| `bridge` | does the engine survive being dropped, and does the loop come back to reconcile? | 2 uids, 2 may wait, other limits 1, 2 sessions, 2 desktop ids |
| `bridge_stuck` | does a request end under the loop? (no) | 2 uids, 1 session |
| `bridge_crossed` | is an answer paired with its request under the loop? (no) | same |
| `supervisor_recovery` | do supervisor, transport and file agree, and does the daemon recover? | 2 disturbances, thresholds 3 and 6 and limit 2 as in the code |
| `supervisor_published` | does the file ever say *ready* unsubscribed? (yes) | same |
| `transport` | how far can counting be wrong, are streams started and stopped in order, and do lost advertisements come back? | threshold 2, 1 other advertiser, 1 late release, 1 unasked event |
| `setup_transaction` | does setup end, clean up, accept and commit only what was confirmed? | 2 phones, 2 agent calls, 2 lines, adapter with both settings off |
| `persistence` | are rules and configuration changed together or not at all, can commands be retried, is `Transaction` implemented? | 2 devices, 2 faults, 1 edit, any number of commands |
| `persistence_unloaded` | does *complete* mean that WirePlumber has the rules? (no) | 2 devices, 1 fault, no edit |
| `lifecycle` | is an answer that is not stale true, and does teardown leave nothing of the unit? | 2 devices, 2 pids, 2 starts |

**Why the bounds are enough.** Limits of 1 with more uids than that make overflow,
eviction, requeue at the limit and refusal all happen; a larger limit adds states
between them, and the bounds on queue, handles and cache are proved for every limit.
`bridge` alone lets two uids wait: with one, no other uid's request follows one that was
dropped while outstanding, and what the dropped one left behind is never met. Two
texts of one uid are what a race between a Modified and an answer needs; two fragments
give every split and every splice of two responses. Two sessions show what one leaves to
the next. `MaxDisturbances` counts BlueZ stopping, the adapter switching off, the
advertisement failing, the phone retreating, a failing D-Bus call, subscription or
stream, and the daemon stopping; two allow one disturbance during the recovery from
another, and failing status writes are free. Reconciles are counted up to `Long` = 3, as
`RefreshesAreSpaced` asks no more. A uid does not come back within a session, as with
ANCS.

In `Transport` `MaxEvents` counts failures and what others do unasked, whereas late
releases, the setup's steps, the phone's coming and SIGTERM are free. One event suffices
to lose the registrations, a stream, a read or a neighbour at any place; its safety
properties are proved for every bound. In `Persistence` two faults are a failure and a
failing rollback, or a kill and a failing retry, at any two places; commands repeat
without limit, so the second device's setup after a broken one of the first is included.
In `Lifecycle` two starts on two pids, or on one pid twice, are a record of a process
that is gone under a pid that is back; its properties are proved for every bound. It
alone uses symmetry (`LifecycleSymmetry`), and it has no liveness property.

In `Setup` two calls are a retry of one phone or two competitors, before, during and
after the decision; two lines are the decision and one sent ahead or after it. The
configuration names the first of the two interchangeable phones, or none. Once a setup
has failed, lines, cancellations of calls and bonds are not followed any further, nor
are agent calls after it let go of the gate: the cleanup reads none of them.

`CHECK_DEADLOCK FALSE`, except for `Persistence` and `Lifecycle`, where some command can
always begin or continue: the phone may fall silent with nothing left to do, the daemon
may be stopped, and setup ends.

**Fairness.** `FairSpec` of `SessionEngine` and `BridgeFairSpec` assume that the
task is polled while some await is ready: `WF` of all the engine's or loop's
steps together. The timers make that so: each wait of the engine is armed with a
timeout, each select with the interval. Nothing is assumed of the phone. In
`Supervisor` the daemon is scheduled, `AdapterReturns` is weakly fair, since the
user or systemd brings it back, and `PhoneAdvances` strongly fair: every refresh
takes the advertisement away for one iteration, so the phone's chance to connect
comes and goes. `Recovers` would be vacuous without the first and false without
the second. In `Transport` the daemon's steps are fair, each wait being bounded, and so
is what BlueZ was told by it (`Carried("daemon")`). Nothing is assumed of the setup, which
may keep its own advertisement for ever. In `Setup` only `Protocol` is fair: D-Bus calls
return, stdout takes an event or is closed, deadlines pass. Signals, commands and phones
are not, so `Ends` rests on the deadlines; a frontend that keeps stdout open and never
reads it is excluded, since `write_event` has none.

**Mutants.** Each property of a passing run has a plausible bug of the code
(`Mutant of ...` above the definition it replaces) under which TLC finds it
violated.

## 4. What the checks show

Engine alone, all properties but one hold: a Modified at any point of
`process_next` is not lost, late answers are refused, eviction and requeue
respect the bounds, nothing is orphaned. Five places disagree with the documents:

1. **A removed notification is shown** (`session_ghost`). `outstanding` is cleared
   before the app name is fetched. A Removed read during that fetch cancels
   nothing, so the notification is created after it was dismissed and stays until
   the session ends. The second cancellation check cannot succeed.
2. **The loop stops reading** (`bridge_stuck`). The interval is armed before the
   packet arrives and lasts as long as the request timeout, so an unanswered
   request started from the `select!` is always dropped first. `outstanding`
   stays set, `pending_len()` stays 1 with nothing queued, and `run` goes round
   without reading a packet until the link is lost.
3. **Crossed answers** (`bridge_crossed`). The dropped request also leaves its
   expectation in the decoder. A late answer satisfies it and is taken for the
   answer to the next request; the text of one uid appears under another's handle.
   When the drop falls in the app lookup, `outstanding` is already clear and the
   loop reads on, so this happens even without 2.
4. **Ready without a subscription** (`supervisor_published`). A failed stream is
   published with the state still *ready*.
5. **Complete without loaded rules** (`persistence_unloaded`). `reconcile_with_reload`
   restarts WirePlumber only if it changed a file. A setup that ends between the files
   and the restart leaves rules that are on disk and not loaded; the next setup finds
   them as desired, restarts nothing, and reports *complete*.

`Bridge`: wherever `process_next` is dropped, the queue, the handles and the cache stay
consistent and bounded, what stays on the screen without a handle was being created at
that moment, and the loop comes back to reconcile.

`Supervisor`: the supervisor's session, the reported flag and the transport's
streams differ only between `transport.reconcile` and the next step; the file is
the last record the daemon tried to write unless that write failed; refreshes are
three reconciliations apart; the daemon becomes ready again.

`Setup`: whatever is dropped, failed or sent ahead, each adapter setting ends as it
was found or could not be set; what could not be undone is reported as `cleanup-failed`
(an advertisement whose handle is dropped counts as gone at once here, see `Transport`);
no call is accepted but the confirmed phone's, none waits for a decision nobody is asked
for; and rules and configuration change only after `confirm` as the one line sent, ANCS
subscribed on that phone, and a complete cleanup.

`Transport`: a lost registration passes for live only if another advertisement came
since the baseline was read, a live one for lost only if one that was counted has left.
The first is mended by the stall refresh, so advertisements come back. Data Source is
subscribed first whatever fails and is retried. A daemon that ends in order has stopped its
streams or waited for them. A setup that reports a clean end has seen stop the streams it
had stored and the advertisement it had stored, unless the count or a failed read hid it.
What it dropped before storing it, it does not wait for; see below.

`Persistence`: an undisturbed command changes rules and configuration together or not at
all, or says `cleanup-failed`; WirePlumber has what is on disk when a command exits,
unless it was killed, disturbed or a rollback failed; whatever was left behind, a command
with nothing in its way completes; what the user wrote over a rule file is replaced only
by a plan that was made before, and by no rollback; the configuration goes last; and all
of this implements `Transaction`.

`Lifecycle`: an answer that is not stale was published for the configured device by a
daemon that was running at the end of the command, or whose pid was another bridge
daemon's by then. A teardown that completes undisturbed leaves neither a daemon of the
unit nor its file.

**Met while modelling,** and part of the models without a run of their own:

- A request that is dropped after its Removed was read leaves its mark in `canceled` when
  the next one is sent: `CanceledIsOutstanding` does not hold under the loop. The mark
  goes when the uid is popped or the session ends, and is only ever on a uid the phone
  no longer has, so nothing is withheld for it (`SurvivesDrops`).
- `atomic_file.rs:85` syncs the directory after the rename. If that fails the caller
  hears of a failed write: the rules are rolled back and the configuration names the new
  phone. This is the exception `late` in `AllOrNothing`.
- After a failed restart, a rollback that meets an edited file is reported as
  `audio-rule-conflict` and not as `cleanup-failed`, since `commit_persistent` looks for
  the first in the text (`audio.rs:56`, `production.rs:671`).
- A setup killed after it wrote the rules of one device, followed by a setup of another,
  leaves the first device's file: only the configured and the desired device's files are
  looked for (`Replaces` in `Transaction`).
- A rule file written between its read in the plan and its turn is removed or overwritten
  (`audio.rs:126`). This is what `ForeignSurvives` excepts. The check and the removal in
  `rollback_files` are one step of the model.
- `start_fresh_window` stores its handles at `production.rs:287`, after awaiting
  `register_agent`. If that fails, or a command or signal drops `prepare` there, the
  advertisement is dropped unrecorded; likewise the first stream when `verify_ancs` is
  dropped between its two `notify` calls (`production.rs:513`). The cleanup then waits for
  nothing (`production.rs:561`) and may succeed while BlueZ still advertises or notifies.
  `SetupStopsStored` is therefore about what was stored.
- Nothing locks commands against each other. The models run one at a time.
- `quiesce_notifications` asks whether *anybody* is notified. A setup beside a ready
  daemon therefore waits in vain for `Notifying` to end and reports `cleanup-failed`.
- An advertisement released late counts in the next baseline; when it goes, the
  registration is taken for lost and made again.
- Status is published on transitions, and a failed write is not retried before the next.

## 5. What is proved

Each component has an inductive invariant, or a chain of them in which each is inductive
relative to those before; the properties of the runs follow from it. The proof that a
step keeps an invariant goes action by action, and a frame lemma settles the actions that
touch nothing it is about.
The assumptions on constants are evaluated by TLC in each run.

### Session engine

From `UidAssumption`, `AppAssumption`, `HandleAssumption`, `ContentAssumption` and
`BoundAssumption`: finite uids and apps, positive limits, and special values outside the
sets they extend.

- `TypeCorrect`: `Spec => []TypeInv`. `TypeOK` is not inductive alone: a fragment can only
  be parsed while something is expected (`Expecting`), and `app_order` takes no name
  twice because only uncached apps are fetched (`FetchesUncached`). It asks for no more,
  so that it also holds when `process_next` is dropped.
- `RequestCorrect`: the decoder expects the response awaited and no other
  (`OneExpectation`), and the uid in process is the outstanding one
  (`OutstandingPhase`). This is what a drop breaks, see findings 2 and 3.
- `CanceledCorrect`, `QueuesCorrect`, `HandlesCorrect`: only ingest, pop, answer and end
  touch the queue, and lemmas say what `Append`, `Tail` and `Without` do to an order.
- `PendingCorrect`: `PendingLen` is the cardinality of the uids waited for
  (`Waited`, queued or outstanding). A requeue adds nothing to that set, a pop
  moves a uid within it, and only `Enqueue` adds one, below the bound.
- `HandlesWithinBound`: a create adds one uid and eviction removes the head of an
  order that `HandlesAgree` makes an element of the map. `CacheCorrect` in the same way
  for the app names. `RecordsCorrect` and `BoundsCorrect` put the parts together.

What the desktop shows (`SessionContentProofs`):

- `RemovedCancelsCorrect`, from `Notices`: a uid that is gone has its Removed in transit
  as its last event, or is neither queued nor wanted (`Settled`). That an Added is the
  first event of its uid and finds the engine without knowledge of it (`AddedFirst`,
  `Unused`) keeps a late one from queueing it again, and `Truthful` keeps cancellations
  to uids that are gone.
- `OwnUidCorrect`, from `OwnAttributes` (the decoder's one expectation is that of the uid
  in process, and refuses any other response), `OwnNames` and `OwnHandles`: a create
  takes an id no handle has, and eviction and removal close the id they forget.
- `NoOrphansCorrect` needs the types only.
- `MirrorsPhoneCorrect` follows a text from the phone to the screen, for a uid without a
  recorded loss. `OneAnswer`: requests for it and fragments of answers to it exist only
  while the engine awaits them, and are those of one response. `CurrentAnswer`: unless a
  later event is announced, they carry its current text. `Followed`: it is announced,
  awaited, in hand or up to date. A response the engine gives up makes it a uid with a
  recorded loss, which is why late answers do not count.

### The loop over it

- `SurvivesDropsCorrect` and `LeaksOnlyByDropsCorrect`. Every step of the loop but
  `IntervalPasses` and `Signal` is one of `Next`, so the engine's invariants that do not
  need `RequestInv` (types, orders, bounds, `Notices`) carry over, and two lemmas look at
  the steps that drop. `Running` says where `process_next` may stand, so that no session
  ends under it.

### Supervisor, transport and processes

From `BoundAssumption` of `Supervisor` (at least one threshold, thresholds and
failure limit positive), for any number of disturbances:

- `TypeOKCorrect`, `SessionsAgreeCorrect`, `ReadyMeansSubscribedCorrect` and
  `StatusIsCurrentCorrect`, from one inductive `Inv`. `Places` ties the place in
  `run` to the session: active in *ready* only, so an observation of any other kind
  means a transition or no session. `Shape` is why comparing state and reason is
  enough for `publish`: within one state they determine the link flags and, where
  one is set, the error.
- `RefreshesAreSpacedCorrect`: when each threshold is 3 or more and the failure limit
  2 or more (`Patient`, true of the code's 3, 6 and 2), refreshes without a session
  between them are three reconciliations apart. The limit may be one less than the
  thresholds because the first reconciliation after a refresh registers.

From `BoundAssumption` of `Transport` (a positive threshold, any bounds), with
`TransportInv` inductive:

- `RegistrationsJudgedCorrect` rests on `Counts`: as long as no other advertisement came,
  those besides the daemon's are no more than the baseline, and as long as none left, no
  fewer. This holds from the moment the baseline is *read*, before there is a
  registration, and through the drop of handles, which moves ours from `live` to `dying`.
- `DataSourceFirstCorrect` and `ExitsQuietCorrect` rest on `Streams`: every way out of a
  subscription drops both handles, and the characteristics are forgotten only after the
  wait for them. So a daemon that forgot them has stopped or waited (`Accounted`).
- `SetupStopsStoredCorrect` rests on `SetupStreams` and `SetupCounts`, the same for the
  setup from what it has `stored`: streams only after both halves succeeded, an
  advertisement only against a baseline that was read in the same window.
- `TypeOKCorrect`. No fairness is used, and no bound but the threshold matters.

From `HolderAssumption` and `ProcessAssumption` of `Lifecycle`:

- `LifecycleTypeOKCorrect` and `TornDownCorrect`, from `ProcessInv`: starts are numbered
  in order, a record names a start its pid has had, and a daemon that was not started by
  hand is the unit's, as is a file such a daemon wrote (`UnitOwns`). `UnitStopped` says
  from where on an undisturbed teardown has the unit down.
- `NotStaleIsLiveCorrect` adds what the command has read so far: a record it holds keeps
  its date, so if the pid runs at the last read, it is that daemon or a later one.

### Setup

From `DeviceAssumption`, `NamedAssumption`, `FoundAssumption` and `BoundsAssumption`, for
any number of phones, agent calls and lines, from one `SetupInv`:

- `OnlyConfirmedCorrect`: `Accepted`, that what the gate approved was confirmed and is no
  bond of before. The candidate is compared with the bonds on its way to `confirm`.
- `WaitersAskedCorrect`: `Gate` ties a waiting call to the active device, and that to a
  notice unread or the candidate in hand; `Agent` says when there is a gate to ask.
- `CleanedUpCorrect`: `Settings`, that until they are restored the snapshot is what was
  found, or the settings are as they were found but for those that could not be written,
  and `Temporary`, that what was subscribed and registered goes in the cleanup or spoils
  it.
- `CommitEarnedCorrect`, an action property: `Earned`, that a path to the commit has read
  one line, which confirmed the verified candidate.

### Persistence

From `PathAssumption`, `RankAssumption` (paths are ordered, as map keys are) and
`BoundAssumption`, for any devices, faults and edits, from one `PersistenceInv`:

- `AllOrNothingCorrect` and `RetryCorrect` are parts of it. `Files` says how the files
  differ from those found by what was removed and created so far, `Planned` what is left
  to do, and `Undisturbed` that a command with nothing in its way never turns back.
- `LoadedCorrect` from `Loaded`: WirePlumber has the rules on disk, or those a change is
  about to leave or to undo.
- `ForeignSurvivesCorrect` and `GoesLastCorrect` are action properties. The first needs
  `Planned`: a file of the plan that is still `fresh` holds what the plan saw there.
- `KeepsPromiseCorrect` is the refinement: initial states map to initial states of
  `Transaction`, and each step to a step or a stutter. Where a change ends, `Files` makes
  the rules seen there somebody's; a device's rules are told from those of every other
  because the paths that hold its identity are its own.

### What stays with TLC

Liveness (`Recovers`, `Reconciles`, `EventuallyShown`, `Ends`, `Readvertises`): fairness is
out of the prover's reach. So are the five runs that expect a violation, which are about
one behaviour each.

## 6. Not modelled, and the plan

Not modelled for want of state or concurrency: diagnostics (checks read once), HID data,
formatting and parsing of the machine protocol, CLI, clock. Configuration validation and
the schema and timestamps of the status file are left out of the components they belong
to. The decoder is modelled on GATT notifications, so the byte layout of responses and
events, UTF-8 and the 64 KiB cap are not.

Next, in this order:

1. An abstract specification of what the bridge promises (`Mirror`: a set of
   notifications shown) that `SessionEngine` implements under a refinement mapping,
   with the step lemma proved.
2. `Codec`: the byte-level parser against a reference, over all short buffers.
