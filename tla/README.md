# A TLA+ verification of herdr-top

herdr-top shows what the agents of a Herdr session are doing. This directory holds TLA+
models of its concurrent core, TLC configurations that check them on small instances, and
TLAPS proofs of central properties for every instance. Source paths below are relative to
the crate (`src/store/writer.rs` is written `store/writer.rs`).

Contents: [1 The system](#1-the-system) · [2 Modules and code](#2-modules-and-code) ·
[3 Runs](#3-runs) · [4 Fairness](#4-fairness) · [5 Proofs](#5-proofs) ·
[6 Where code and documentation disagree](#6-where-code-and-documentation-disagree) ·
[7 Limits the models make visible](#7-limits-the-models-make-visible) ·
[8 What is not modelled](#8-what-is-not-modelled) · [9 Plan](#9-plan)

## 1 The system

One process owns a Herdr session. It consists of

| Component | State | Operations | Talks to |
|---|---|---|---|
| session ownership (`lockfile.rs`, `rendezvous.rs`, `main.rs`) | flock, `session-name.txt`, runtime sentinel, socket entry, owner row | launch, acquire, prepare socket, open store, end, crash, focus the owner instead | other launches, `emit`, the kernel, Herdr |
| collector task (`herdr/collector.rs`) | program point, buffer, socket identity, gap and rate state | subscribe, snapshot, replay, monitor, reconnect, stop | Herdr, reader task, everything below |
| primary event reader (`herdr/collector.rs`) | bounded channel, overflow flag | read, forward, block, stop | collector |
| reducer and identity resolution (`reducer.rs`, `identity.rs`, `model/`) | task runs, keys, executions, two graphs, native lifecycle, measured output | Controller events, pane observations, snapshots, bindings, merges, sweep, dismissal | called by the collector |
| operator projection (`operator.rs`) | private and published activity, items hidden by drains | project, relabel, publish, restore | reducer, user interface |
| Controller socket (`herdr/controller.rs`) | connections, request queue, ledger, ingest sequence | accept, read, enqueue, serve, answer, time out | `emit`, collector, writer |
| persistence facade (`herdr/collector.rs`) | health snapshot, probe timer, marker and stop flags | apply, cleanup, finalize, probe, recover | collector, writer |
| SQLite writer and store (`store/writer.rs`, `store/mod.rs`) | command channel, health watch, event-id mirror, database | apply, cleanup, barrier, probe, finalize, restore, shutdown | facade, lifecycle owner |
| provider thread (`provider/mod.rs`, `herdr/collector.rs`) | targets, watches, cursors, history manifest, pending buffer | cycle, tail, freeze, drain, flush, stop | collector, session logs |
| log lane (`provider/lane.rs`) | per scope: started, held completion, inactivity | facts to starts, ends and signs of life; undo | provider thread |
| enrichment subscription (`herdr/collector.rs`) | target set and its watch, scoped connection, lossy channel, prune in flight | defer, subscribe, swap, read, drop, prune, discard, apply | collector, Herdr |
| user interface, status, diagnostics (`tui/`, `status.rs`, `doctor.rs`, ...) | selection | draw, dismiss | reads the shared model |

What is hard about it:

* **Three sources, one model.** Controllers announce work by name before it exists, Herdr
  reports panes, providers resolve session files. Any order must give one run per task.
* **Hints, not deltas.** Herdr's events only say that the last snapshot is old, they travel
  through a bounded channel, and some are never delivered.
* **Files that change while they are read.** Session logs are appended to, truncated and
  replaced between the `stat` and the `read` of a poll, in the middle of a line.
* **History behind a barrier.** What was in the logs before the start is read up to frozen
  goalposts and stays private until one transaction attests all of it, through full
  buffers, failed writes and restarts.
* **Acknowledgement is not durability.** A writer client may return on a published failure
  while its command is still queued; the Controller answers `accepted` before the commit.
* **Two copies that compare on their own.** Reducer and store each decide which evidence is
  newer, what a merge does and what a finalization publishes, and a restart exchanges one
  for the other.
* **Exactly one owner** through crashes, slow shutdowns, reused inodes and colliding names,
  built from separate system calls.

`PROJECT.json` lists the components with what is modelled of each, and under `hazards`
the places in the code where these things bite, with the properties that watch them.

For each component, correctness means: *ownership* — one writer per database, the running
owner's socket is its own, events reach the right session, a second launch focuses the
owner; *convergence* — Live never hides a change, and a quiet Herdr is eventually shown as
it is; *reducer* — names, runs, executions and graphs stay consistent, what a Controller
reported stands, the newest evidence decides, nothing is measured twice; *Controller* —
applied once, answered truthfully, nothing accepted is lost by a normal exit; *facade* —
what it reports stays true, outages end and leave a marker; *writer* — the mirror covers
the ledger, waits end; *provider* — lines are fed once and whole, starts are followed by
ends, a finished drain is complete, history is not shown early, every drain ends;
*operator* — what is shown now is what a restart would show.

## 2 Modules and code

Every module names its source in its header, keeps the code's names where there is one, and
treats handlers as single actions unless the code really awaits or makes several system
calls. `PROJECT.json`'s `map` gives the lines of every definition. A definition whose name
extends that of the one behind it and whose comment begins with *Mutant* is a plausible
mistake in that definition; it is used only to confirm that the properties notice it.

### Writer (`store/writer.rs`)

`queue` is the mpsc channel, `thread` the writer thread between receive, execute,
post-apply cleanup, publish and acknowledge, `health` the watch value, `client` the
collector's `WriterClient` with its waiter, `life` the `WriterLifecycle`, `answer` the
oneshots, `mirror` the `EventLedgerCache`, `ledger` the table. The client may submit any
command, use a permit (`reserve_enqueue`, `finish_pending`), stop or be aborted anywhere;
the thread may fail a command with every durability the code distinguishes, or panic, upon
which the drop guards publish and close. `Restart` reopens the store: it runs retention
first and seeds the mirror from what is left, in the code's order.
Abstracted: payloads (only ledger entries matter), error codes, SQL.

### RuntimePersistence (`RuntimePersistence` and `persist_*` in `herdr/collector.rs`)

EXTENDS Writer and drives its client. `facade` is the health snapshot with the recovery
fields, `call` the one facade call in progress. A call copies the health, is skipped (after
a probe, when the cooldown is over) while degraded, otherwise sends, waits, and classifies
the result. `claim`, `committed` and `unmarked` are history: what was reported, what is in
the database, which outage has no marker yet. Which callers write the marker follows the
code: submissions, rate checkpoints and the sweep on any outcome, providers only when
committed, Controller requests and the owner tracker never.

### Convergence (`run_collector`, `converge`, `replay_generation`, `monitor_*`, the reader)

`herdr` is the server's topology version and socket identity, `stream` the subscription
with what is still on the wire, `reader`, `channel` and `overflowed` the reader task,
`coll` the collector's program point and the locals of `converge`, `buffered` its FIFO,
`call` the request in flight. `facade` is what the collector's writes see of
RuntimePersistence: the status shown and the marker owed. The write of a snapshot's record
(`Install`, `InstallNotPersisted`) goes through `persist_reconciliation_submission`, which
returns `Ok` also when the row was refused, is of unknown outcome or was skipped, so the
collector goes on without it; `PersistElse` is every other write of the collector, which may
degrade the facade, recover it and write the marker. `lost`, `gap` (the subscription's record
is in the database, one was lost, how many `Startup` ones there are) and `blind` are history.
Timers may fire at any time while armed. Handlers that leave all of this alone are stuttering steps; Controller
requests are steps only where serving one restarts a timer or a pending subscribe.

### Enrichment (`EnrichmentConverge`, `run_enrichment_reader`, `apply_enrichment_payload`)

The second subscription, for the status of the agents. `targets` and `phase` are the
collector's half, `watch` what it publishes and whether the reader has seen it, `tail` the
reader between deferring, subscribing, streaming and waiting for a prune, `conn` its scoped
connection with the events it has not read, `payloads` the bounded channel, `prune` the one
prune in flight with its acknowledgement. An episode of `converge` is reduced to its
snapshot, its discards, its hints and the moment it goes Live; Convergence has the rest, and
hints are never lost here. A pane is a public address, which may be taken again by another
pane with a status of its own. Every status change is also hinted at on the primary
subscription (`pane.updated`), which the design relies on as the fallback. `late` and
`retaken` are history. Left out: the target deltas of primary events, which have no effect,
because all events they are taken from are hints and end in a snapshot instead.

### Controller (`herdr/controller.rs`, its call sites, `run_emit`)

`client` is each run of `emit`, `conn` the server's side, `queue` the requests the
collector has not received. Serving is one action per answer: the ledger, validation, the
health gate, the ingest sequence, application to the model, hand-over to the writer.
`CollectorAborted`, `AcceptorStops`, `Exited`, `Crash` and `Restart` are the process.
The writer is reduced to what the pipeline sees (`batch`, `durable`, `healthy`). Frames are
valid or not by choice. `effect`, `seen` and `storeFailed` are history.

### TaskRuns (`reducer.rs`, `identity.rs`, `model/`)

The domain model is one record, as in the code: an event works on a scratch copy which
replaces the model only if every step succeeds. `byKey` holds primary and superseded keys in
their priority (Controller, native session, session path, provisional). Actions: all ten
Controller event kinds, from Controllers and from the log lane; panes with and without agent,
moved and gone; whole snapshots; resolved session files; heuristic bindings; closed log
scopes; the stale sweep; dismissal. A behaviour is one life of a collector. It begins with any
model that the rows of a store may give (`Init`, from `restore_task_runs` and its siblings):
runs with their keys, aliases, executions and edges, without provisional keys, and with the
reports of which retention has kept an event row. What earlier lives did is not related to it,
because rows may lack what a life knew (section 7). `reported` is history: the names whose
Controllers said, to this collector or in an event whose row is kept, that their work goes on;
no action reads it. A loop of the code over runs or panes whose turns do not meet is stated at once
for the set of them: the runs to close or activate, and the panes of a snapshot, whose new
runs are numbered in any order. Abstracted: times (a deadline has passed or not), labels,
telemetry, agent nodes and native lifecycle evidence, none of which feeds back into identity,
task state or edges. Left out: the names `hook:codex:` that resolve to a session
(`reducer.rs:1354`), and of rows the pair of live executions described in section 7.

### Ownership (`lockfile.rs`, `rendezvous.rs`, `main.rs`)

A step is one system call on what launches share: read, create and write the name file;
flock; stat, publish and compare the sentinel; probe, unlink, bind and listen; open the
store; replace the owner row; and the orderly end in reverse. A startup step may fail and
unwinds what was acquired. A crash stops the threads at once and leaves the descriptors,
which the kernel closes in any order (`Reap`). Inode numbers are reused. All names in the
model have the same hash digits: equal names, or colliding ones with the same or another
state root. The runtime directory may hold leftovers at the start.

### HeldLaunch (`main.rs`, `OwnerTracker`, the owner row)

A launch that finds the lock held reads the owner row with bounded retries, looks up the
terminal in Herdr and focuses its pane. Meanwhile panes move, close and take over ids,
owners end and start, and the owner's tracker corrects its location from snapshots.

### HistoryDrain (`herdr/collector.rs` 4403-5796 and 8527-8736, `reducer.rs`, `store/mod.rs`)

The path of history from a log to the screen, in records: `manifest` is the frozen drain of
each provider (a drain *is* its manifest, because its id is a digest of it), `pc` and
`cursor` the worker's cycle, `deferred` the records a full buffer refused, `barrier` and
`held` the barrier before and after it is queued, `channel` the ingress, `holding` and
`retained` what the collector keeps for a retry, `store` the rows with their readiness,
before-images and drains. Logs grow and are replaced, records may not parse, writes fail or
are of unknown durability, the subscription overflows, the process restarts. Tail, lane,
buffer and thread appear only as counters and capacities here; each has a module:

* **LogTail** (`provider/tail.rs`) — `TailFile` to the byte: `stat` and `read` are separate
  steps on a path whose file changes in between; chunks, goalposts, the half line carried
  over, lines that are too long, restarts after replacement or truncation. It is shown to
  implement **LogFeed**, which says what was fed is a function of the bytes read, each line
  once, and that a feed starts over only for another file. One exception is part of it: a file
  that is cut between the two reads of a poll is started over twice (section 7); `doubted` is
  true from that poll until the next, and allows it then.
* **Lane** (`provider/lane.rs` and its calls in `collector.rs`) — per scope the synthesis
  of starts, outcomes, holds and inactivity from the facts of Claude and Codex logs; a
  record whose events do not all fit is undone and deferred; an abandoned drain and the
  graceful stop. `told` is the last thing the collector heard.
* **Pending** (`PendingEvents` in `provider/mod.rs`) — slots per entity that coalesce, the
  lane queue, malformed samples, the barrier behind everything, a flush that stops at a full
  channel.
* **ProviderThread** (`provider/mod.rs`, `CollectorHandle::stop`) — cycles, watcher hints
  through a channel that drops, target sets, the rescan, skipped cycles; cycles that look at
  nothing while the barrier of a drain is not acknowledged, or at a part because the buffer is
  full or a manifest ends; and the stop: flag, wake-up, the thread's last blocking sends, the collector's drain, timeouts, abort.

### Lifecycle and LatestEvidence (`reducer.rs`, `store/mod.rs`, `model/entities.rs`)

Whether a provider session has ended, in memory (`mem`) and in the rows (`db`), each with
its watermark, under log records, Controller events, snapshots, ended executions, merges,
outages, finalization pages and restarts. Lifecycle implements LatestEvidence: what is
shown is the newest evidence heard, what is durable the newest kept, nothing kept is lost.

### Retention, RateLedger, Activity

* **Retention** (`cleanup_retention`) — rows of runs, aliases and edges that age out
  against a memory that is not told, with the foreign keys that refuse a batch.
* **RateLedger** (`reducer.rs` 700-880, `persist_rate_checkpoint`) — telemetry, cursors,
  epochs, identities and totals of measured output, through gaps, merges, checkpoints of
  every outcome, and restarts that read the logs again.
* **Activity** (`operator.rs`, `load_restored_operator_state`, `apply_v6_batch`,
  `merge_task_runs`, `finalize_history_drain`) — `activity` is the private list and `listed`
  the published one, `hides` what each unpublished drain hides, `writing` the live
  submission whose write is awaited, `retained` the history batch to be repeated, `ledger`
  the rows with drains, associations, readiness and before-images. Every submission is
  projected before its write and relabelled by its outcome; `ColdStart` rebuilds both lists
  from the rows at any point. Two runs suffice: one that may be merged into the other.

### Composition

RuntimePersistence composes facade and writer over the same variables. HistoryDrain
composes worker, collector, reducer and store. The others carry the abstraction of the
neighbour they need: Controller, Lifecycle, RateLedger and Activity see of the writer what
RuntimePersistence shows to hold (a reported outcome is true; unknown means either);
Ownership sees of shutdown that the store is closed before the listener and the lock.
MCParts and MCRuns put several independent modules into one run: `subject` says which one a
behaviour is about, the others keep their initial state.

## 3 Runs

`tlc -config X.cfg MCModule` in this directory. State counts are distinct states.

| Run | Config, module | Bounds | States |
|---|---|---|---|
| writer | `Writer.cfg`, MCWriter | 2 client commands and the shutdown, 1 event id, queue of 1, 3 clock values, 2 faults | 296 k |
| runtime_persistence | `RuntimePersistence.cfg`, MCRuntimePersistence | 3 commands, queue of 2, 3 faults | 52 k |
| convergence | `Convergence.cfg`, MCConvergence | topology: channel and buffer of 1, 1 immediate refresh, 2 changes, 1 noise event, 1 fault; records: the same with Herdr at rest and a store that fails and recovers at any write; status: 2 addresses, channel of 1, 3 changes of panes or statuses, 1 failure | 710 k |
| controller_safety | `Controller_safety.cfg`, MCController | an emit, its retry and another, 2 connections, 2 slots, 2 faults | 1.53 M |
| controller_liveness | `Controller_liveness.cfg`, MCController | 2 emits, 1 connection, 1 slot, 2 faults | 33 k |
| taskruns_identity | `TaskRuns_identity.cfg`, MCTaskRuns | 1 name, 2 sessions, 1 file, 2 terminals, 3 runs, of which 1 may be restored | 68 k |
| taskruns_graphs | `TaskRuns_graphs.cfg`, MCTaskRuns | 3 names, 1 session on 1 terminal, relationships, from an empty store | 69 k |
| runs | `Runs.cfg`, MCRuns | states: 2 names, 1 session, all event kinds, 1 run may be restored; rows: 3 runs, 4 batches, 4 days; totals: 2 logs, 2 runs, 2 tokens, 2 disturbances; activity: 2 events, 2 runs, 2 drains, 1 lost write, 1 retry | 316 k |
| ownership | `Ownership.cfg`, MCOwnership | 2 launches of one session, 1 of a colliding one, 1 emit, 2 inodes, 2 faults | 918 k |
| history_drain | `HistoryDrain.cfg`, MCHistoryDrain | 2 logs of up to 3 records, one of which may not parse, buffer and channel of 1, chunks of 1, one append, replacement, fault, restart, overflow and Controller event, of which one disturbs a behaviour | 114 k |
| history_drain_overflow | `HistoryDrain_overflow.cfg`, MCHistoryDrain | as above, chunks of 2; a violation, see section 6 | |
| parts | `Parts.cfg`, MCParts | tail: 4 bytes, 2 files, chunks of 2, lines of 1; lanes: a root with a subagent (2 records) or a rollout (3), grace 1, inactivity 2; pending: 2 entities, 2 logs, room for 1; thread: channels of 1, one change, target set, drain, full buffer and trouble; lifecycle: 2 runs, 2 pieces of evidence, 1 outage; held: 3 launches, 3 pane ids, 2 moves | 383 k |

What they show:

* **writer** — `MirrorCoversAdmitted`: duplicate suppression never misses an id that is
  durable or on its way. `FirstFailureKept`: only a successful probe or a restart ends or
  relabels an outage. `CallsReturn`: waits and shutdown end, also after a panic.
* **runtime_persistence** — `ReportsTruthful`: a write called durable is in the database,
  one called not committed never gets there, although waits may end early; Controller input
  is what it is said to be; a published drain is in the database. `DegradedRecovers`.
  `OutageLeavesTrace`: the marker of an outage is owed until it is written, and is written.
* **convergence** — `LiveCoversWorld`: while Live is shown, the topology is Herdr's or
  something is on its way that makes the collector ask again. `DiscardsLeaveTraces`: what
  was discarded or missed has ended the rate epoch before Live, and the interval before the
  subscription is on record, or a degraded facade or an owed marker answers for its record; a
  record that was lost is answered for until a later marker is written.
  `TopologyConverges`: cancelled, the collector ends; else, when Herdr stops changing and
  failing, it ends up Live with its topology, also when a hint was never delivered (the
  watchdog finds it, unless two live executions share a pane and the probe is inconclusive).
  `StatusCovered`: no status from before a snapshot outlasts it, whatever was dropped,
  discarded or swapped away, but for events unread when Live began (section 7).
  `StatusFollows`: the enrichment reader ends up subscribed to the panes there are.
* **controller_safety** — `AppliedOnceInOrder`: an event is applied once however often it is
  sent, and ingest numbers keep their order across crashes. `AnswersTruthful`.
  `GracefulExitKeepsAccepted`. **controller_liveness** — `RequestSettles`: a frame that was
  sent is answered or closed.
* **taskruns_identity** — `IdentitiesSound`; `NeverSplit`: names that this life found to mean
  one task, or was given as one, never come apart in it; `InferredEndSound`: no inference
  closes a run with a live execution, or the run of a name in `reported`. **taskruns_graphs** — `GraphsSound`: one parent, no
  cycles, no dangling edges.
* **runs** — `OutcomeStands`: a reported outcome is final while the collector lives (this run
  has no files and no terminals; the theorem has them). `RetentionSparesTheLiving`: only
  what nobody needs is deleted. `MeasuredOnce`: no run's total exceeds what was read live of it.
  `LiveMatchesColdRestore`: no history is shown before its drain is finalized, a start can
  read every row that waits, and unless a write was lost it shows what is on the list now.
* **ownership** — `OneWriter`, `BoundStaysReachable`, `EmitReachesItsSession`,
  `RefusalsJustified`.
* **history_drain** — `FinalizedCoversManifest`: every record below a goalpost of a
  finalized drain is in the ledger. `NoEarlyPublication`. `BarrierAccounted`: nothing but an
  overflow loses a barrier. `DrainSettles`: every drain ends, and its private rows come out.
* **parts** — `TailImplementsFeed`: every line is fed once and whole, however the file is cut; `LaneSettles` (what is told started is told ended) and
  `ToldAgrees`; `CoalescedTruthfully`; `ThreadKeepsUp` (changes are seen though hints are
  dropped, cycles skipped or cut short, and drains limit what is read; a stop ends the thread;
  claimed unless an overflow took the barrier the worker waits for, which
  history_drain_overflow shows to last, or a finalization waits to be written) and `StopIsClean`;
  `LifecycleKeepsNewest` and `RestartShowsTheSame`; `FocusReachesOwner`.

Why the bounds are enough: each is the smallest at which the interesting case happens. A
queue or channel of one is full after one message, so blocking, overflow and closing while
blocked are all reached. Two faults allow a failure during the handling of another. Three
attempts allow a retry while its original is queued and a stranger in between. Two changes
allow one before and one after a snapshot is answered. Three launches allow a crashed
predecessor, its successor and a colliding session at once; two inodes force reuse. Three
names are the shortest cycle that no single edge closes. Chunks of two bytes with lines of
one cut a line at every place; three bytes hold a too long line and what follows it, and a
fourth lets a file be cut between two reads and still be longer than the first read saw. One
restored run may have any key, alias, execution, state and report, and a second and third join
it; sequences of lives are not needed, since whatever one may leave the next may begin with.
Two drains are a drain and the one that covers or overtakes it. Larger instances were
checked when the modules were written and hold as well: the Claude lane with three records,
Retention with five batches and five days,
RateLedger with both runs unrestricted (612 k), Activity with three drains and two retries
(699 k) and with three events (1.65 M).

Symmetry is used only in runs without liveness, for names, session identifiers and terminals
in TaskRuns, which the code compares for equality only.

Deadlock is checked in every run but history_drain and parts: there behaviours end by
design, when the logs are read, the launch has focused the owner, or the thread has stopped.
In the others, where the system may stop for good, the module has an explicit idle step.

## 4 Fairness

Only what the schedulers guarantee. The OS runs the writer thread and the provider thread;
tokio polls ready tasks; awaited sends and oneshots complete when they can; an armed timer
fires. So the steps of a task that is not waiting for an external party are weakly fair.
Strong fairness is used once: the sweep's tick (`BeginCall("Cleanup")`) is one branch of an
unbiased `select!` among branches that may be ready as often, and is enabled only between
calls.

* Convergence: Herdr answers a request it has not failed; it owes no hints, and no fault is
  ever required. `TopologyConverges` assumes that Controller requests and commands, each of which
  restarts a pending subscribe, pause.
* Enrichment: both tasks' steps, and Herdr's answer to a snapshot request and to a
  subscription; the `select!` of `monitor_live` does not starve its enrichment branches.
* Controller: neither clients nor the timeout of a waiting connection owe anything;
  `RequestSettles` does not rest on somebody giving up.
* HistoryDrain: the worker's cycle and the collector's handling of its channel are fair; logs
  and faults are not, and the bounded disturbances end.
* Lane: the clock advances and cycles take place. ProviderThread: the thread's step, the
  rescan timer, the collector's step, and `stop`, once begun, goes on.

Nobody is forced to submit, stop, change or fail. TaskRuns, Ownership, LogTail, Pending,
Lifecycle, HeldLaunch, Retention, RateLedger and Activity have safety properties only.

## 5 Proofs

`tlapm M.tla`. Every theorem holds for every value of the constants that the named
assumptions of its modules allow: any number of commands, events, clients, logs, runs,
processes, faults and restarts, and any positive capacity. Each development has the same
shape: an inductive invariant, one lemma per action (or per group of actions that touch the
same state), a lemma for the whole step, and the theorem. The invariants were checked by TLC
on the runs before they were proved. `PROJECT.json` lists the theorems with the properties
they state.

The assumptions are `WriterAssumption` (positive capacity, finite command names, a shutdown
name), `ConvergenceAssumption` and `EnrichmentAssumption` (positive capacities; at least one
immediate attempt, `collector.rs:81`), `ControllerAssumption`, `OwnershipAssumption` (every
process resolves a name, names have roots, the special values are none of them),
`MaxRunsAssumption` (there may be a run, and no more are restored than there may be),
`StoredAssumption` (what is restored has a task state), `DrainConstants` and `NoneIsNothing` (each log
belongs to a provider and is in the worker's list; no record, drain or row equals the value
for none), `PendingAssumption` (each log's times ascend; the value for an empty slot is no
event), `LaneAssumption` (no scope is of two kinds), `RateLedgerConstants` (a log is no kind
of key), `ActivityConstants` (the value for no event is none; there is a manifest),
`RetentionConstants`, `LifecycleConstants`, `HeldLaunchConstants` and
`ProviderThreadConstants`. TLC evaluates all of them in the runs.

**PersistenceProofs** (Writer, RuntimePersistence). `TypeCorrect`, `PersistenceTypes`.

* `MirrorCorrect`. The property alone is not inductive: it speaks of what is in flight, and a
  cleanup delta that is still on its way to the client could delete an id that was reserved
  again meanwhile. `MirrorInv` adds `ClientCommandLast` (the client's command is the last one
  in the channel, so when it is answered nothing is queued and the thread is idle),
  `DeletedRowsGone` (rows whose deletion the client has still to apply are absent from the
  ledger) and `AnswersAwaited` (no answer waits for a client that has not asked).
* `FirstFailureIsKept`, an action property, follows step by step from the types.
* `ReportsAreTruthful`. `CallInv` says where the command of the call in progress is — queued,
  running, reported, answered or dropped — and for each place what its failure value says of
  the database. The hard case is the waiter that returns on a published failure while its
  command is still queued: `HealthKept` shows that a healthy writer's command is only passed
  over when the writer degrades, and then the thread answers without touching the store.
* `OutagesStayOwed`: the safety half of `OutageLeavesTrace`. A marker committed while its
  call still waits has paid for the outage; every other end of the call takes the debt back.

**ConvergenceProofs** (Convergence, Enrichment). `ConvergenceTypes`, `EnrichmentTypes`.

* `NoChangeIsLost`. `Coverage` states, phase by phase, what is left of the property before
  Live: an answer that is already old has its hint in the buffer, replayed (`dirty`), or
  noticed (on the wire, in the channel, at the blocked reader, flagged by an overflow, or
  about to end the subscription). Each step moves a hint along and none drops it unflagged.
* `DiscardsAccounted`. `Traces`: in which points of the episode the rate epoch may still miss
  events, and that then the overflow that caused it is flagged; and that a record which is not
  in the database has, from its lost write on, a degraded facade or an owed marker. The lemmas
  `WriteAnswers`, `MarkerAnswers` and `SubmissionAnswers` say it of each kind of write: one
  that leaves no row leaves the facade degraded, and only a recovery, which owes the marker,
  ends that.
* `StatusIsCovered`. `StatusCover`: without a pending hint nothing changed since the snapshot,
  so it agrees with Herdr, and while Live whatever is unread was unread when Live began
  (`late`), in the wire and in the lossy channel alike.

**ControllerProofs**. `ControllerTypes`. `Records` (what was applied, and what is durable with
the batch behind it, is in the order of the ingest numbers, without repetition, below the
next number and in the ledger), `Requests` (an attempt is queued at most once and only while
nothing was done for it; a response says what was done; the client's outcome is the response)
and `Exits`
(while the store works and nothing crashed, what was applied is what is durable and the
batch, and an exit leaves no batch). They give
`EventsAppliedOnceInOrder`, `EmitAnswersTruthful` and `ExitKeepsAccepted`.

**HistoryDrainProofs**. `DrainInv` has thirteen parts. `Somewhere` follows a record below a
goalpost from the log through the deferred records, lane and channel to the retained batch
or the ledger; `BehindKept` says the logs the cycle has behind it were read to their
goalposts; `LogsAge` that an inode never returns, so a manifest is of this log or an older
one; `OriginsKept` that such a record travels as part of its drain; `AdmittedKept` that what
the mirror knows is in the ledger or retained; `BarrierKept` that the barrier is behind all
of it and its drain is the one the worker waits for. When the collector takes the barrier
nothing is left in front of it, so what is below the goalposts is in the ledger:
`FinalizedDrainsAreComplete`, and `BarriersAreAccounted`. The proof found what the bounds of
the run hide: a barrier also completes the older drains it covers (`store/mod.rs:1117`), so
they lose a record that was passed over (section 6) with it. That takes three logs; the
exemption of the property (`PassedOver`) follows it.

On top of it `NothingIsPublishedEarly`, from `PublicationInv`. `ShownSound` says of every
sequence of evidence that is shown, or may be shown after the next finalization or restart
(the reducer's ready rows and images, the store's, and the reducer's row of a run whose
stored row is ready), that what belongs to an unfinalized drain was followed by live
evidence; `HistoryTraced` that the database has the association of every entry, but for the
retained batch, which makes a run that no drain blocks safe to release; `RetainedTraced` that
this holds of that batch when it is retried. The step that needs all three is a finalization
with another drain open on the same run. A live event that was recorded although its write
was reported unknown is not in the row; the history variable `forgotten` notes where it came.

**PartsProofs** (HeldLaunch, ProviderThread, Pending, Lane, Lifecycle).

* `HeldLaunchReachesOwner`: `AimKept` says, step by step, that a launch with sure sources
  goes for the owner's terminal, its pane, and has focused it; `OwnerKept` that a tracker
  which knows its terminal writes no other. That an unsure launch which focuses a pane takes
  the focus from another one was found by the proof: it needs three launches, which the run
  now has.
* `StopsAreClean`: `CallKeepsPace`, `WaitKept` and `ReceiverKept` relate the call of `stop`
  to the thread, its messages and the receiving end.
* `CoalescingIsTruthful`: `SlotsKept` — the slot's event stands for all that was merged, which
  merging preserves because events of one log come in the order of their positions and
  times — and `AheadKept`, that what was pending when the barrier came is sent or still there.
* `LaneTellsTheTruth` (`ToldAgrees`): `Sound` is a property of the intermediate states of the
  synthesis, so each fact and each flush keeps it alone, and a record refused half way can be
  undone as a whole. It includes that a Codex session has no end written in another log: its
  description starts it at the time of the sign of life before it, which must not be dropped.
* `LifecycleInvariant`: each row, in memory and in the store, is `Grounded` in the evidence
  heard or kept of its run — its register is the member with the highest mark — and so is
  each batch that waits. From it `LifecycleImplementsLatestEvidence`: every step of Lifecycle
  is, under the refinement mapping of rows to registers, a step of LatestEvidence or a
  stutter; one lemma per action names the abstract step. `RestartFindsTheSame` adds `InStep`:
  without an outage at most one batch waits, it has the reducer's row, and every other row is
  the reducer's.

**RunsProofs** (Retention, RateLedger, Activity).

* `RetentionTakesTheDead`: `RetentionInv` has the foreign keys (`EdgesRooted`,
  `DrainsRooted`), that rows follow memory except for runs long over and aliases, and that
  edges missing from the rows are `parted`.
* `OutputIsMeasuredOnce` (`MeasuredOnce`): `CursorsCurrent` — a live cursor is in the current
  epoch and at its run's telemetry, so growth since then is what the run was just told;
  `CountedOnce` — the database has no more than memory may have, which a restart needs;
  `TotalsStored`, also of runs not known yet.
* `LiveIsWhatARestartShows` (`LiveMatchesColdRestore`). What the database does is stated
  first as relations of the rows before and after: `Grown` for a batch that is committed,
  `Finished` for a barrier, both keeping `LedgerSound` (a row's drain has its run; a run that
  is not ready has an unfinished drain; an image whose drain is finalized is owed to a drain
  that was overtaken). `ActivityInv` adds what the lists have to do with the rows.
  `OpenIsHidden` — an item of an unfinished drain is hidden by that drain *or an older one*,
  because a start hides a row for the least of the drains it waits for — and `HidesWell`,
  `BlockedWell` say that nothing stays hidden without an unfinished drain, so a page
  publishes what it should. `ListedAgree` is the half about runs, and holds only where no
  image stands and no drain is overtaken or held: `Late` names these two exceptions of the
  property row by row, and each step shows that what was late stays late. A retained batch
  may be in the database or not when it is tried again; `RetainedWell` is what makes both
  retries end in the same rows. The part about agreement is claimed in `Calm` only: no live
  write was lost, and at most one batch is under way.

**TaskRunsProofs**. The invariant `Sound`, a predicate of a model record, so that the scratch
copies inside an event can be spoken of as well as the state. Beside the types
(`TaskRunTypes`) it has six parts:

1. `Numbered` — identifiers are given out in order, so a new run meets no key, report or
   edge of a run that is gone;
2. `KeysFound` — a run is found under its key; only a provisional key may be missing;
3. `KeysOwned` — the part that is needed and not in the property: a Controller's name is
   never an alias, a native session is an alias only of a run that a Controller named, and no
   run has two. Without it a run could be bound to a session that another run has as its key;
4. `ExecutionsHeld` — a terminal has one live execution, of a run that exists;
5. `GraphsHold` — both graphs are acyclic over runs that exist, with one parent each;
6. `ReportsHeld` — a run of which a Controller reported a state carries the mark
   (`has_controller_task_state_event`), on which the inferred ends rely.

`SoundInit` shows that every model `Init` allows is sound, so the theorems hold in every life,
whatever the lives before it left in the rows.

Each operator of the reducer has a lemma: that it keeps the model sound, and one of three
relations of the models before and after, which compose. `Follows`: names that mean one task
keep doing so, a Controller's name keeps its run and its outcome, work that has begun is never
queued again, no report is forgotten, and no identifier is given out again. `Bound`, for bindings: the runs left keep their states. `Continues`, for whatever
infers no end. A merge is taken in two steps, `RunAbsorbed` and the restated survivor; that it
leaves no cycle is what `preflight_merge` checks, and that it leaves one key of each kind
follows from `key_priority` and `KeysOwned`. A plan that was made is checked against the
model it is applied to (`PlansChecked`, `TerminalPlanChecked`). The hard case of the inferred
ends is a pane that changes its agent: the former run closes, and the new agent's session may
turn out to be a key of that same run, in which case it would be ended and live;
`BeginElsewhere` shows that it is then the run the pane keeps. The other half of
`InferredEndsAreSound` is about history: the sweeps ask `non_lane_task_state_runs`, a set of
run identifiers, and the property what Controllers said of a name. `ReportsStand` ties the two
— the name of every report has a run, which is in the set and not queued — and `ReportsKept`
shows that no binding, re-keying, merge or rollback takes that away. `EveryStep` puts the actions
together, and gives `ModelStaysSound`, `IdentitiesStaySound`, `GraphsStaySound`, and as action
properties `NamesNeverSplit`, `OutcomesStand` and `InferredEndsAreSound`. `MaxRuns` is any
number, so the bound that TLC needs plays no part in them.

**OwnershipProofs**. The invariant `IInv` has five parts beside the types:

1. `LockHeld` — whatever an owner does to shared entries, it does under its root's lock;
2. `NamesRead` — a name file has one creator, and whoever is past it has read or written
   its own name, so two owners of one root are of one session;
3. `StoreOwned` — the database is open only in the points between open and close;
4. `SentinelRead` — a sentinel with a name never changes, so whoever touches the socket,
   still has a listener or has resolved it (emit) agrees with it;
5. `SocketOwned` — the entry of a serving owner is its own, open listeners have different
   inodes, and there is no entry when an owner is about to bind.

The argument: two processes that touch the entry agree with the sentinel, hence have one
name, one root, one lock, and are the same process. That is why the two-step unlink in
`unlink_owned` cannot hit a successor's socket although inodes are reused, and why a bind
never finds an entry in its way. It gives `OnlyOneWriter`, `SocketStaysReachable`,
`EmitStaysInItsSession`, `OwnershipTypes` and, as an action property,
`RefusalsAreJustified`.

Only model-checked:

* all liveness: it rests on fairness, which is out of the prover's reach;
* `TailImplementsFeed` (what a chunk adds to the records is a fold over its lines, and the
  lines are a sorted sequence, about which nothing can be proved for every length).

Every other property of a passing run is the property of a theorem.

## 6 Where code and documentation disagree

One run is expected to be violated. **history_drain_overflow** (`NoBarrierLost`):
`monitor_live` has received a provider event when it finds the overflow flag set, and
returns (`collector.rs:3472`); the event is gone. When it is the barrier of a history drain,
the worker waits for its acknowledgement until a restart. The design says of the channels
that "no class is dropped silently" (`docs/design/herdr-top-mvp.md:449`).

The following were met while modelling. They are modelled as the code has them, and the
properties say where they make an exception.

* `lockfile.rs:262` creates `session-name.txt` under its final name and writes it
  afterwards. A crash in between leaves an empty file, and every later launch is refused
  with `NameMismatch`, which `lockfile.rs:74` and `247` explain as a different session name.
  The runtime sentinel is linked into place to avoid exactly this.
* A Controller request that `monitor_live` or `monitor_reconciling` has received is dropped
  when the overflow flag is set (`collector.rs:3429`, `3663`); its client is told
  `persistence_unavailable`, although every admitted event is to pass the pipeline
  (design, line 311). A retry succeeds.
* The inactivity sweep and a silent log scope close runs that only relationships announced
  (`reducer.rs:3914`, `1653-1682`), which "never close automatically" (design, line 319;
  `model/graph.rs:15-19` asserts it in debug builds).
* After the refusal of a record of a log that is read in several chunks, the next cycle
  begins at the log behind it and enqueues the barrier with records below the goalpost
  unread (`collector.rs:5660`; design, lines 541-542). They are read later, as history of a
  drain that is already finalized. `FinalizedCoversManifest` exempts such a log.
* An overflow after the refresh budget is spent restarts a generation without a probe
  (`collector.rs:3652`; design, section 9.2). Runtime evidence enters and leaves
  `EndedUnknown` (`reducer.rs:3457-3510`; section 8.2 reads more narrowly).
* A finalization page replaces the lifecycle in memory unconditionally
  (`reducer.rs:908`), so evidence newer than the page that was never written is forgotten,
  while the design (line 540) lets the newest win. Evidence of a Controller or an ended
  execution never makes a private run ready (line 538).
* "Full queues force the next rescan" (`provider/mod.rs:1747`): `force_rescan` is set and
  cleared and never read. The two-second rescan covers it, which `ThreadKeepsUp` shows; but a
  cycle that is skipped also resets that timer.
* A crashed owner whose listener the kernel has not closed yet lets its successor run
  without Controller input for its lifetime (`rendezvous.rs:504`); `RefusalsJustified` names
  it as the only way to that state, which the design calls reachable only through a bug.
* A merge relabels every item of the absorbed run with the merge's outcome
  (`operator.rs:280`), so an item that was `CurrentOnly` becomes `Durable`, against the
  intent of the test at `operator.rs:740`.

## 7 Limits the models make visible

*Durability.* `accepted` does not mean durable: a crash may forget an event, and an event
accepted and then not committed stays in the mirror, so its retry is a `duplicate`. A live
write of unknown durability is undone in the reducer although the ledger may have it; when
it was a merge, a later history batch that names the absorbed run is refused by the store
for ever (`store/mod.rs:3544`), and provider ingress stays closed until a restart. So it
does when a historical merge names a row that retention deleted. A retry is recognised only
within the ledger's retention. The owner row's freshness does not return after a recovery.

The record of a gap may be lost: with the store failing or the write skipped the collector
goes Live without its row (`collector.rs:1400-1418`), shows a degraded facade, and the
`PersistenceOutage` marker of the recovery is then the only trace, and a crash before the marker
is written leaves none.

*A new life.* `NeverSplit`, `OutcomeStands` and `InferredEndSound` speak of one life of the
collector, because the next begins with the rows. A merge, binding, outcome or end of an
execution whose write failed or was skipped is not repeated (`collector.rs:1420`): the names
are two again, the outcome is open again. Retention at open deletes ended runs with their
aliases (`store/mod.rs:423`, `1344`), so a name that meant such a run means a new one. Who
reported a state is read from event rows (`store/mod.rs:507`), and when retention has pruned
them (`1350-1367`) a sweep may close a run whose Controller had said that it was running; with
the rows kept it may not, which is what the property says. Rows of an outage
may hold two live executions of one terminal: the end of the first was lost and the begin of
the second written. The first snapshot ends both and states what it sees, in one observation,
and until then `plan_controller_terminal` answers that the terminal is ambiguous; `Init` leaves
such rows out.

*Retention.* A Controller edge to a run whose row was pruned is refused by the foreign keys;
an edge or alias pruned with an ended run does not come back when the run resumes.

*Output.* A merge whose write failed is never repeated: the sum is checkpointed while the
absorbed row keeps its total, and a merge after a restart adds it again
(`collector.rs:1420`). Telemetry that waited for an unknown run counts as measured when its
key is bound to a run with a live cursor (`reducer.rs:1606`).

*History.* A historical batch makes every run with an open drain private in the rows, also
one that live evidence had published (`store/mod.rs:1002`). A grace-held outcome that is
emitted after its barrier makes the row private again. A live record that does not parse
puts its provider into `history_failed` for good, and the graceful stop then skips its
flush. A replaced log that is noticed while opening is not compared with the manifest.
A restart while a newer drain enriches a run hides that run's published items until the
drain is finalized; while a merge under an open drain is unpublished, a restart shows items
under the former run and the running process under the survivor; a drain that was overtaken
without being covered keeps items hidden that a restart shows. The graceful stop sends held
outcomes and drops what is pending or deferred.

*Logs.* A file that was truncated and has regrown before the next look is not noticed. A file
that is cut between the two reads of one poll is started over, and the size remembered is still
that of the first read (`tail.rs:266-279`), so the next poll starts over once more and returns
the same lines a second time. An
appearance of a subagent older than its known end is recorded as told without an event; a
failed subagent that resumes without a new appearance is not told started. In a coalesced
slot an end dominates a resumption that came after it, which the code documents.

*Liveness.* A stream of Controller requests or operator commands without a pause keeps a
subscribe from completing, since each one restarts it (`collector.rs:2336`).

*Status.* A status event that the reader had not read when the collector went Live is applied
although the snapshot may be newer, and if the one that followed it is then dropped or lost
with a swapped connection, the pane shows the older status until its next event or the next
snapshot; the design accepts the race but not explicitly this end of it. A prune that is
applied after a snapshot in which the address is taken again (`collector.rs:3915`) leaves
that pane without status events until the next snapshot.

*Focus.* A tracker without `HERDR_TERMINAL_ID` adopts the pane that is focused in its first
snapshot (`collector.rs:8424`), and a held launch may read a predecessor's row
(`main.rs:602`).

## 8 What is not modelled

* **User interface** — drawing, layout and selection on one thread over immutable
  publications. **Status** — a pure function for display with tables of cases in the tests.
* **Performance monitor** — samples counters; nothing depends on it.
* **Hook adapter** and the parsing of provider records — pure translations of text, whose
  mistakes a unit test reaches.
* **Doctor and diagnostics** — read-only reports. **Schema migration and backups** —
  one-shot, before any concurrency.
* **Target discovery** — which logs belong to which session is a choice of the next log in
  HistoryDrain and a version number in ProviderThread.
* The derivation of the session key is reduced to which names share a hash and a root.
* The limits of the activity list, terminal times, working time and the saturation of
  counters.

More than half of the lines of the larger source files are their own unit tests. What is
left out of the rest is mostly text: SQL of rows that no property tells apart, formatting,
drawing and parsing.

## 9 Plan

What was planned first and is done: writer and facade, convergence, Controller, reducer,
ownership, provider ingress and history drain, native lifecycle with its abstract
specification, retention, log lane and tail with its abstract specification, measured
output, the operator's activity, the enrichment subscription; then the proofs of section 5.
Left, in order:

1. **Abstract specifications** — "an event takes effect at most once" implemented by
   Controller, "a register of durable outcomes" by RuntimePersistence over Writer.
2. **User interface** — selection that follows merges.
