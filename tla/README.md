# Verification of the network mesh exporter

`meshd` is a daemon that every node of a network runs. It discovers hosts,
groups them into zones, pairs the zones, assigns hosts of the two zones to the
*slots* of each pairing, and measures the pairs of hosts that involve its own
node. All nodes compute the same assignment from the same inventory, so what
must not happen is churn: an assignment that changes without a reason ends one
time series and starts another. `meshping` is its helper with ICMP permission.

This directory holds TLA+ models of the parts that decide, persist and
schedule, the TLC configurations that check them, and TLAPS proofs. Line
numbers refer to the sources of this repository.

## 1. Inventory

| Component (source) | State | Operations | Modelled in |
|---|---|---|---|
| health (`internal/health`) | one `Status` per host: state, streaks, timers, flap marks | `Observe`, `RecordProbe`, `RecordResolve`, `MarkAssigned`, `Tick`, `SetConfig`, `NextDeadline` | `Health` |
| state (`internal/state`) | the table in memory, `dirty`, `firstDirty`, the kick channel, the file | `Update`, `Flush`, `Run`, `Save`, `Load` | `StateStore`, `DurableState` |
| reconcile (`internal/reconcile/reconcile.go`) | none: a function from inventory, health, configuration and table to a table and a delta | stages: rebuild, diff, resize, validate, super hosts, fill | `Reconcile` |
| slot, pairing, zone | none: layout, candidates, scanner, wanted pairings, index | `ComputeLayout`, `Pick`, `PickAnchor`, `PickSuper`, `Build` | `Reconcile` |
| reconcile loop (`loop.go`) | `ready`, triggers, timers | `Run`, `RunNow`, `runOnce` | `ReconcileLoop`; triggers and ticker in `Daemon` |
| runner (`internal/runner`), series of `internal/metrics` | the task map, task goroutines, registered series | `Run`, `Apply`, `startTask`, `stopTask`, `loop`, `runCycle`; `Observe`, `Forget` | `Runner` (`desired` in `ReconcileLoop`) |
| provider manager, inventory | active providers, delivered sets, cached snapshot | `Apply`, `start`, `stop`, `Stop`; `Replace`, `Remove`, `Snapshot` | `Sources` |
| ICMP client, `pingproto`, jobs of `meshping` | availability, encoder, waiters, child process, pipes, jobs | `Run`, `session`, `readLoop`, `Probe`, `abandon`; hello, start, cancel, result | `Icmp` |
| packets of `meshping` | jobs in flight, pending samples by sequence number | `start`, `run`, `recvLoop`, `cancel`, `shutdown` | `Pinger` |
| HTTP provider | validators, cached document, sidecar | `Run`, `fetch`, `loadCache`, `reportStale`, `writeCache` | `HttpSource` |
| file and Kubernetes providers | none that outlives a poll; the informer's cache | `poll`, emission | a poll in `Sources`; Kubernetes not modelled |
| UDP and TCP probers, responder, probe window | sent times, replies; samples and counters of the window | `Probe`, `send`, `receive`; `serveUDP`, `handleConn`; `Add`, `expire`, `Stats` | `Probe` |
| config watcher | the current configuration, its mtime, subscribers | `reload`, `publish`, `Subscribe` | `Daemon`; half a reload in `ReconcileLoop` |
| meshd | topology values, the goroutines | `run`, `onConfig`, `onDelta`, `watchInventory`, `shutdown` | `Daemon`; shutdown in `StateStore` and `Sources` |
| API | views | | not modelled: reads, and one call of `RunNow` |

How they interact: the watcher publishes a configuration; `meshd` rebuilds the
zone rule, the filter and the scanner, hands the providers their part and
triggers a reconcile. Providers replace host sets in the inventory; a change of
its generation triggers a reconcile. The loop reads inventory, health and table,
computes a new table, installs it in the state store and hands it to the
runner, which starts and stops task goroutines. Each task probes, through the
ICMP client for ICMP; the results go to health and metrics. Health triggers a
reconcile when a host stops or starts being eligible. The state store writes
its table in the background.

What is hard, per component:

- *health*: five kinds of timer, reloads that change them while they run, clock
  readings that are applied late, flap counting over long sequences.
- *state*: updates during a save, failed saves, a debounce that each update
  restarts, crashes, two flushes at shutdown.
- *reconcile*: stages that clear and refill sides one after another and must
  not undo each other; reuse, rank, anchors, super hosts; reads of four values
  that a reload replaces separately; two concurrent runs.
- *runner*: `Apply` in separately locked phases, called by two goroutines and
  overtaken by shutdown; cycles in flight when their task is stopped.
- *sources*: results in flight when a provider is stopped, stops that time out,
  restarts that fail, map iteration order.
- *ICMP*: a child that dies at any moment, a reader of an older child that is
  still running, results that cross cancellations.
- *meshping*: one pending map and one 16-bit counter for all jobs; replies that
  come late, twice or after their number was taken again; on a raw socket,
  replies to other programs.
- *HTTP provider*: a document and its validators in two files, a crash between
  them, stale reports that reload one of them, servers and URLs that change.
- *probers and window*: loss, reordering and duplicates told apart by sequence
  numbers; a round trip that ends when the reply is read; expiry at the edge.
- *meshd and watcher*: goroutines that start in any order, channels that keep
  only the last value, a reload that fails half way, a runner that is not yet
  there when the first run publishes, a configuration whose pairings exceed its
  limit so that every run fails.

`PROJECT.json` lists the hazards by line, with the properties that cover them.

## 2. Modules

| Module | Models | Checked by |
|---|---|---|
| `Health` | every operation of the tracker | `MCHealth` |
| `DurableState` | what the store promises: one value in memory, one durable | |
| `StateStore` | the store, its writer, shutdown's flush, crashes | itself |
| `Reconcile` | the pure functions of reconcile, slot, pairing, zone | through the loop |
| `ReconcileLoop` | `runOnce` and everything that changes what it reads | `MCReconcileLoop` |
| `Runner` | task map, goroutines, series | `MCRunner` |
| `Sources` | provider manager, provider goroutines, inventory store | `MCSources` |
| `Icmp` | supervisor, reader, probes, pipes, helper | `MCIcmp` |
| `PingerState` | the state of the helper and its invariants | through `Pinger` |
| `Pinger` | jobs, packets and replies in the helper | `MCPinger` |
| `HttpSource` | the HTTP provider, its cache, servers, crashes | `MCHttpSource` |
| `Probe` | a task's cycles: probers, network, responder, window | `MCProbe` |
| `DaemonState` | the state of the daemon and its invariants | through `Daemon` |
| `Daemon` | watcher, subscriber, triggers, loop and runner together | `MCDaemon` |
| `Health_proofs`, `Runner_proofs`, `Sources_proofs`, `HttpSource_proofs`, `Probe_proofs`, `ReconcileLoop_proofs` | the proofs about the module of that name | |
| `Icmp_proofs` | the proofs about `Icmp` and, as an instance, `Pinger` | |
| `Meshd_proofs` | the proofs about `StateStore` and, as an instance, `Daemon` | |

An action is a critical section or a step between two blocking points: what the
code does under one lock is one action, what it does under two locks is two
actions with other goroutines in between. A definition whose comment begins
with "Defect" is not the code: it is a plausible mistake that the
corresponding property must detect, kept next to the definition it replaces.

### Health

`hosts` is `Tracker.hosts`, `cfg` the health section of the configuration,
`now` the wall clock (zero `time.Time` is 0). Every operation of the code reads
the clock before it takes the lock, so an action takes a reading `t` that may be
`ClockLag` old, after actions with newer ones. Streaks saturate at `MaxCount`,
past every threshold. The eligibility changes that flap detection remembers are
a bag of times.

### StateStore

A table is a number; newer tables have greater ones. `Update` installs under
the lock and sends its token afterwards (two actions). `Flush` takes the
snapshot and clears `dirty` under the lock, saves outside it, and marks the
store dirty again if the save failed. `Run` is the select loop with its timer;
`Signal`, `OnCancel`, `CloserFlush` and `Exit` are the graceful stop; `Crash`
restarts from the file at any moment. `Save` is one step, because the code
writes a temporary file and renames it; that it does not sync the directory is
not modelled.

### Reconcile and ReconcileLoop

`Reconcile` is written as the code's stages in the code's order, each a
function from table to table: `Rebuilt` (a new layout or rule), `DiffPairings`
(create, schedule removal, delete), `Resize`, `ValidateSides`, `UpdateSupers`,
`FillSides`. Zones and hosts are numbers; the hash that spreads the scan is the
constant `Hash`; map iterations that the code sorts are taken in that order.
A pairing's removal deadline is the time that is left.

`ReconcileLoop` splits `runOnce` at its blocking points: `Begin` reads and
computes, `Install` updates the store, `Finish` hands the task set over. The
environment changes the inventory, one host's health, the configuration
(`Reload` publishes it, `OnConfig` rebuilds rule, filter and scanner later) and
restarts the process. A run may start at any time, which covers every trigger,
ticker and coalescing. `Begin` reads everything at once where `runOnce` reads
configuration, snapshot, rule, filter, scanner, health and table one after the
other: a new configuration with an old topology and, by a reload there and back,
the reverse are states of the model; rule, filter and scanner of different
configurations in one run are not.

### Runner

A `Task` object is told apart from the `TaskKey` it is registered under.
`Apply` compares under the lock, then stops tasks one by one (unregister and
cancel, wait, forget the series) and starts tasks one by one; the calls of the
loop, of API requests and Run's own shutdown interleave at each of these steps.
A task cycles, publishes its sample at the end of a cycle even when it was
cancelled meanwhile, and exits. Probes are taken to return within the thirty
seconds that `stopTask` waits. `renamed` is a history variable: the series that
a running task had before `Apply` changed its class or rank in place. Class and
rank are one label here; the code reads them one after the other without a lock,
so a cycle that overlaps a refresh may also record a series with one old and one
new of them, which is outside `renamed` and stays in the same way.

### Sources

An instance is one run of a provider: `Fetch` is a poll that found a document,
`Deliver` hands it to the store, possibly after the instance was cancelled.
`Apply` handles the sources one after another in any order: it stops
(`Unregister`, then `Joined` or, after ten seconds, `GiveUp`), removes or
starts. Shutdown stops sources beside it. `Snapshot` merges the sets in any
order, because the code ranges over a map. `failed` and `abandoned` are history
variables that only the properties read.

### Icmp

`run` is where `Run` and `session` are; `child[s]`, `stdin[s]`, `stdout[s]` and
`reader[s]` are a helper process, its pipes and the goroutine that reads its
output. Two slots let a killed child's reader overlap the next child. `probe[p]`
is a call of `Probe` with its request ID and the encoder it captured before it
sends; a slot used again leaves captured encoders broken. A late hello, a
missing permission, a request that cannot start, a crash at any moment and a
cancelled context are all possible. Packets, and so the content of a result, are
left to `Pinger`.

### Pinger

Packets are numbered in the order in which they take a sequence number, so that
`Wire(p)`, the number modulo `SeqSpace`, can be told apart from the packet itself:
`pending` is the shared map, `credit[p]` what was taken for `p`'s reply: the
number of the packet whose reply it was, or the kind of a stray reply. A job
registers, writes, pauses, cleans up and emits; `Take` is the critical section of
`recvLoop`. Replies come any number of times, at any time after the write.

`Raw` is the kind of socket that `openSockets` got. To a datagram socket the
kernel delivers the replies to its own packets only. A raw one receives every
echo reply to the host, and `recvLoop` compares neither the sender nor the
identifier, so `StrayReply` may come at any time under any sequence number:
`Short`, with fewer than eight bytes of data, for which the magic is not looked
at (main.go:376); `Kin`, with the magic, a reply to another `meshping` of the host
or to the helper before this one, which counted from 1 as well; or `Alien`, with
room for the magic but without it, which `Passes` drops. `inTime` and `clash` are
history variables for the properties. Times are left out: pauses and time limits
end at any time.

### HttpSource

A document is the URL it came from and its version there; ETag and
Last-Modified are one validator, the version, which the server compares for
equality (a server that only has Last-Modified may answer 304 to any later date,
which is not modelled). `at` is where the provider's
goroutine is: a fetch is a request, a response in hand, the document file, the
metadata file and the replacement of the set, with publications, crashes,
failed writes and reconfigurations between any two of them. Each file is
replaced atomically (`writeAtomic`). A `Crash` may come with another URL; a
`Reconfigure` is the manager's replacement of the provider, which waits for the
goroutine. Two servers may use equal validators for different documents.

### Probe

One task's goroutine, the network and the responder at the other end. `Send`,
`Receive` and `Dial` are iterations of the probers' loops; `flying` and `buffer`
are packets under way and in the socket; `Arrive` is the responder's echo and
its way back. The node is fast against the clock: `Tick` waits while a
goroutine can take a step (`Ready`). A TCP payload may reach the responder in
pieces, the first of them with the whole header (`handleConn` rejects a shorter
one, too). A cancelled task ends its TCP attempt at once, while `echoOnce` obeys
only the deadline after the dial; no property tells the two apart. `window` has the two lists of `Window`; `log` keeps every cycle, so that
`WindowExact` can compare the window with a reference definition. A sample also
carries the time its reply took on the wire, for `RttFromRead` alone. `Collected`
puts the samples in send order, which is that of the sequence numbers.

### Daemon

A configuration is what `Settings` tells apart: the rule of the zones, the slot
layout, the probe parameters and `max_pairings`. What a run computes is abstract:
a table is the rule, the layout and the hosts that it was computed from, so
inventories that differ give different tables. `Pairs` says how many pairings a
rule wants of an inventory. A run reads the configuration, the snapshot and the
rule in three steps (`cfg`, `snapshot`, `used`), which a reload may separate.

- More pairings than the limit of the configuration it read: the run ends with
  `ErrTooManyPairings` and changes neither table nor `ready` nor tasks (`Abort`).
- No pairing wanted, as with an empty inventory: the delta is empty, because a
  rebuilt table holds none and the removal hold keeps those of the same rule and
  layout. A first run publishes all the same, namely no tasks (section 5).
- Otherwise the table is installed and published if it differs, and in the first
  run that does not fail (`Finish`). Tasks are a table with the probe parameters
  of their time; an edit of those alone is no difference, so the tasks keep the
  old ones, as in the code.

In exchange every channel, trigger and start is there: the watcher reads mtime
and file in two steps and publishes in a third; the subscriber takes one value
and goes through `onConfig`; the loop has its trigger channel, its ticker and its
first run; the runner starts at any time. `blind`, `missed`, `skipped` and `deaf`
are history variables for the gaps that the code leaves at startup and in a
failing `onConfig`.

## 3. Runs

| Run | Instance and bounds | Why it is enough |
|---|---|---|
| `health` | one host, two configurations, times to 4, lag 1 | hosts do not interact in the tracker; every timer is 1 or 2 except the cooldown of 3, so each can start, be re-timed by a reload and expire, and a cooldown can follow two marks |
| `state_store` | two updaters, debounce 2, maximum delay 3, three tables, one failed save, one crash | an update can fall in each phase of a save, twice; the maximum delay cuts a debounce short |
| `reconcile` | four hosts in two zones, two of them failing, four layouts, one of them within a zone, four inventories, one restart | two hosts a zone is the least that lets a side be refilled with another host and run out of hosts; anchors and diverse slots both exist |
| `reconcile_life` | one failing host, three layouts with reloads, one of which exceeds the pairing limit | liveness needs a host that fails and a reload between any two steps of a run |
| `runner` | two callers, two keys, three task objects, two series | two calls can stop and start the same key while its old goroutine is in a cycle; the third object is the restart; a change of class alone relabels in place, one of the path restarts |
| `sources` | two sources, three configurations, three instances, one stop that times out | the third instance lets an abandoned goroutine overlap a restarted one and another source |
| `icmp` | one prober, two request IDs, two children | an ID can be in a helper, a pipe or a reader while the prober already uses the other one; probers share nothing but the map, which is keyed by ID |
| `http_source` | two URLs, three versions, two publications, two faults, two restarts | a write can be cut short before and after the server or the configuration goes back, and a restart can fall between the cut and its effect |
| `probe` | three packets, two cycles, a window of three ticks, one failed call, one duplicate | a duplicate can lie between two replies that are out of order, and the first cycle leaves the window while the second is in it |
| `pinger` | two requests of two packets, three sequence numbers, raw sockets, request IDs symmetric | the fourth packet takes the number of the first, before or after the first is answered or its job ends; a stray reply of each kind may come under each number at any time, and every behaviour of a datagram socket is one without them; the proofs hold for every modulus and both kinds |
| `daemon` | two good configurations that differ in every section, the second above its limit, one rejected, one that does not compile; a state file with a table or none; two edits, one change of inventory, one failing provider | the last edit can overtake the one before at each stage: in the file, in the channel, in `onConfig`, in a run; runs can fail before, after and between edits, and a reload between two reads of a run mixes a layout, a limit and a rule of two configurations |

The passing runs check these properties. Each statement is in the module,
above its definition; in short:

- *health*: `PendingTimed`, `FlapBounded`, `DeadlinesExact`, `CooldownEnds`,
  `ReleaseJustified`: a host loses its slots only for a reason that has run its
  course, and no timer is lost, stale or missed.
- *state*: `CleanIsDurable` (no change is forgotten), `ImplementsDurableState`
  (refinement), `ChurnCannotStarve`, `EventuallyDurable` (progress).
- *reconcile*: `KeepsValidSides` and `SuperSticky` (continuity), `Assigns`
  (complete assignment), `SecondRunEmpty` (idempotence), `AnchorsTogether`,
  `DiverseIndependent`, `IntraApart` (the two sides of an intra-zone slot hold
  different hosts), `NoStaleTask`; `UnhealthyReplaced` and `ReloadApplied`
  (progress).
- *runner*: `NoLeakedTask`, `NoStaleSeries`, `ApplyExact`.
- *sources*: `SnapshotFaithful`, `SingleWriter`, `HostsOwned`, `AppliedExact`.
- *ICMP*: `WaitersMatch`, `JobsOwned`, `Answered`.
- *HTTP*: `NotModifiedTruthful` (a 304 never stands for a document that is not
  delivered), `OperationalFirst`, `Converges` (progress). `Excused` names the
  histories after which the code really is wrong (section 5).
- *probe*: `CycleExact` (loss and reordering from the order of arrival),
  `WindowExact` (the window against the cycles), `RttFromRead`.
- *meshping*: `PendingOwned`, `CountedExactly` (a reply in time is counted, and
  nothing else but, on a raw socket, a stray reply that is short or carries the
  magic; its comment names the two exceptions for numbers taken again).
- *daemon*: `LatestDelivered`, `TriggersServed`, `EditApplied` (progress: the last
  edit ends in the configuration, the rule, the table and the tasks' table, except
  for what startup does not see or publish, and for a table when no pairing is
  wanted or more than the limit allows; after a run that failed for the limit, the
  next configuration within it gets there).

Type invariants are proved (section 4) and not run again.

`state_store`, `icmp`, `pinger` and `probe` do not check for deadlock, because
there the process ends (`Exit`, `Run` returning) or the bound on the clock or on
the cycles is reached.

One more run shows where the code does something else than a document says. It
checks one statement and finds it violated:

| Run | Statement | What happens |
|---|---|---|
| `reconcile_restart` | "the runner starts exactly the tasks that were running before" (docs/tech_spec.md:920) | the first run sees no hosts, publishes no task and sets `ready`; later deltas are empty |

### Fairness

- `StateStore`: weak fairness of time, of the writer's kick and timer cases, of
  the end of a save, and of the token that `Update` sends. They are a goroutine
  that is ready to run, or a clock. Nothing is assumed of updates, signals and
  crashes; saves fail at most `MaxFailures` times.
- `ReconcileLoop`: a run that can start does (the loop's ticker), and a run that
  started ends; the watcher's subscriber gets to a published configuration. The
  condition under which a run must start is `KeepsRunning`.
- `Icmp`: the supervisor, the readers, a probe's registration, send and receive,
  and the helper's reading loop are goroutines that are ready to run; a job ends
  because its packets and its timeouts are counted; the helper writes its hello
  first of all and exits when it has no permission or its context is cancelled.
  The time limit in `Probe` is not used: `Answered` holds without it.
- `HttpSource`: the provider's goroutine goes on; its timer always fires and the
  client has a timeout. That a request succeeds is not assumed but follows from
  the bound on faults.
- `Daemon`: goroutines start and go on and tickers fire. A SIGHUP may never
  come, and no fairness is assumed of the trigger case, because the `select` may
  always prefer the ticker: `EditApplied` holds by the ticker alone.

## 4. Proofs

All proofs hold for every value of the constants that satisfies the named
assumptions. Most are what configuration validation or the models' bounds ensure
(`ConfigAssumption`, `BoundAssumption`, `DelayAssumption`, `GiveUpAssumption`);
`WantedAssumption` gives the shape of a task set or of a source configuration;
`SourceAssumption` says that there are finitely many sources; `HashAssumption`
that a hash is a natural number; `HostAssumption` that an inventory names hosts;
`PingerAssumption` that packets and sequence numbers are counted from one and the
sockets are raw or not; `InventoryAssumption` that an empty inventory wants no
pairings; `NoneAssumption`, `TableAssumption` and `OffAssumption` keep an absent
value apart from the present ones, and the second says that the state file holds a
table or nothing. Every configuration of TLC satisfies them: TLC
evaluates them in the run of the module.

**Reconcile and ReconcileLoop** (`ReconcileLoop_proofs`). The proof goes through
the stages as the code does, with a lemma for each that says what it does to one
pairing's slots: `ResizeFacts`, `DiffFacts`, `ValidateFacts`, `UpdateFacts`,
`PickFacts`, `FillAnchorsFacts`, `FillDiverseFacts`, `FillSidesFacts`.
`ReconcileFacts` puts them together. None of the properties is inductive alone,
and the reason is the same for all: a property of the base slots means nothing
while a stage that selects slots by their class could mix them with super slots.
So the inductive invariant says of every table, the installed one and those that
runs have computed and not yet installed (`RunInv`), that

- its base slots come first, of the classes that the configuration it was made
  under gives them, and its super slots follow (`LayoutOK`), each with a source
  and in the strict order of source rank and target that a run sorts them into
  (`InLine`);
- all anchors of a side hold the same host (`AnchorsOK`);
- it has super hosts only under a configuration that asks for them (`SupersOK`);
- without reloads, and without reuse, diverse slots differ (`DiverseOK`).

That the anchors stay together is subtle in the middle of a run: a changed class
or a check can clear a side of some anchors, so between the stages only
`HalfAgree` holds (those that hold a host hold the same), and `FillAnchors`
makes it `Agree` again. `Settled` is what the scanner leaves behind; it survives
the later iterations of the fill because hosts are only added (`StaysSettled`),
which is what `Assigns` rests on. Idempotence is proved by following a second
run through all stages: a table that is `Full` (settled, anchors agreed, no super
slots) is changed by none of them (`StagesIdle`), so each stage's part of the
delta is empty. Sorting by counting predecessors needs that in a finite ordered
set every rank is taken (`Ranked`). The fill is a recursive function; induction
over it is done with a set of natural numbers in the place of a predicate
(`Induction`, from the well-foundedness of the naturals), because the library's
induction theorems cannot be instantiated here. Consequences: `TypeCorrect`,
`AnchorsAlwaysTogether`, `DiverseAlwaysIndependent`, `ValidSidesKept`,
`AlwaysAssigns`, `SuperAlwaysSticky`, `SecondRunAlwaysEmpty`, for every set of
hosts, configurations, inventories and requesters, every hash, and every order
of failures, reloads and restarts.

`NoTaskStale` needs the converse of a delta. A run that reports no change leaves
the installed table in place and yet, the first time, hands over the tasks of the
table it throws away, so what must be shown is that the latter holds nothing that
the former does not hold in the same slots (`IdleRetains`). An empty delta says
that both hold the same sides. Base slots are compared by position, super slots
by source and target; two strictly ordered lists with the same members agree at
every position (`SameLine`), hence `SamePlaces`. `TaskInv` carries that through
the moments between the steps of a run, including the aging of both tables. The
theorem is stated for one requester, the loop itself, because with two it does
not hold (section 5).

**Health** (`Health_proofs`). The invariant `IInv` says of each host that it is
a `Status`, that it is `Timed` when pending, and `Calm` when eligible. Type
correctness alone is not inductive for the other two, because a transition
depends on the marks and the timer it finds. `TransitionFacts` describes what
`Transition` may return; one lemma per operation shows that it keeps a host good
and that the step is `Justified`; `StepOK` puts them together, one step per
action. `DeadlinesExact` follows from the type alone, case by case over the
timers (`TickedDeadlines`). `CooldownEnds` needs a second invariant (`CInv`): no
mark is of the future, and a cooldown outlasts every mark that was recent when
it began (`Outlasts`), late clock readings included; then the mark that the
return itself leaves is the only one in the window (`ReturnLasts`).
Consequences: `TypeCorrect`, `PendingAlwaysTimed`, `FlapAlwaysBounded`,
`ReleaseAlwaysJustified`, `DeadlinesAlwaysExact`, `CooldownAlwaysEnds`.

**StateStore** (`Meshd_proofs`). `CleanIsDurable` is not inductive: during
a save the store is clean and the file is old. `IInv` adds what holds in each
phase of the writer: the snapshot lies between the file and the table, a clean
store that is saving saves its table, and shutdown's flush is idle before the
signal. From it follow `TypeCorrect`, `CleanAlwaysDurable`, `DiskMovesForward`,
and `Implementation`: each step of the store is an install, a catching up, a
close, a resume, or a stutter of `DurableState`. No bound on failed saves,
crashes or updaters is used.

**Daemon** (`Meshd_proofs`, as the instance `D`). `LatestDelivered` is inductive
with the types; `TriggersServed` needs that `watchInventory` is never ahead of
the inventory (`NotAhead`). The state, its assumptions and the two invariants are
in a module of their own, `DaemonState`, so that `Meshd_proofs` can extend it
beside `StateStore`, whose actions have the same names as the daemon's; for the
same reason `Watcher.cur` is called `active` there. Both hold of every number of
pairings and every limit, so also while every run fails. Consequences:
`DaemonTypeCorrect`, `LatestAlwaysDelivered`, `TriggersAlwaysServed`.

**Runner** (`Runner_proofs`). That no goroutine is lost depends on what a
registration means: `IInv` says that a registered task carries its key and has
not been told to stop, that whoever waits for a task has told it to stop, and
that nobody else waits for it, so dropping it at the end of the wait takes
nothing from another caller. One lemma per step of `Apply` and of the
goroutines. `NoStaleSeries` adds that a task that can still record its series is
registered or waited for (`Held`), and that what was observed is known
(`Known`). `ApplyExact` adds, for a call that is alone, that every other caller
is between calls (`Quiet`) and that its job and the task map together make the
set it was given (`Nearing`). Consequences: `TypeCorrect`, `NoTaskLeaks`,
`NoSeriesLeft`, `LoneApplyExact`, for every number of callers, keys, task
objects and task sets.

**Sources** (`Sources_proofs`). `SingleWriter` and `HostsOwned` say nothing of
the moments between unregistering and joining. `IInv` does: an instance is
registered exactly when it has not been told to stop; the one that was told to
stop is waited for by one caller alone, has exited, or belongs to a source whose
stop gave up; and from the unregistration until the new start the source that
`Apply` works on is not registered. `PlanOK`, `GoesOn` and `Dropped` are the
three shapes of a step (only `Apply` or `Stop` advances, a goroutine goes on,
instances disappear). `AppliedExact` adds that the sources `Apply` has dealt with
are as wanted, unless it reports an error (`EInv`). `SnapshotFaithful` adds that
priorities are numbers and that the cached snapshot is one of the sets as they
are (`FInv`); that merging in any order yields the records of the highest
priority is an induction over the order (`MergeFaithful`), with a set of natural
numbers as above. Consequences: `TypeCorrect`, `OneWriterAlways`,
`HostsAlwaysOwned`, `AppliedAlwaysExact`, `SnapshotAlwaysFaithful`.

**Icmp** (`Icmp_proofs`). `WaitersMatch` needs that request IDs are never shared:
`IInv` says that each probe underway has an ID of its own, that it is in the
map or has been answered but never both, and that an abandoned one is not in the
map. `Typed` adds the types of the pipes and the processes. `JobsOwned` needs
more, because a job is a request that was in a pipe before: `JobsInv` says that
one child lives at a time and the encoder writes to it (`Single`), that a
request is in one place and not answered meanwhile (`Once`), that it is nowhere
before it is sent (`Unsent`), and that a request in a pipe, or a job, is wanted
by the probe that sent it there or has its cancel behind it in the same pipe
(`Owned`). So the encoder that `abandon` takes at that moment is the one the
request went to, if that child still lives. `Followed` states the order in the
pipe; `AppendHolds`, `TailHolds` and their kin say what writing and reading do
to a pipe, so that no step reasons about positions. Consequences:
`WaitersAlwaysMatch`, `TypeCorrect`, `JobsAlwaysOwned`, for every number of
probers, request IDs and helper processes.

**HttpSource** (`HttpSource_proofs`). `IInv` adds to the types that versions are
ones the server has had (`Known`), that a response in hand carries its own
validator (`InHand`), that set, document and sidecar agree while no write was
cut short (`Intact`), and that afterwards a validator is never newer than the
document it stands for, as long as nothing has gone back (`Steady`). The last
is the reason why writing the document first is right. Consequences:
`TypeCorrect`, `NotModifiedAlwaysTruthful`, and, from `Operational`,
`OperationalAlwaysFirst`, for every number of versions, faults and restarts.

**Pinger** (`Icmp_proofs`, as the instance `P`). A packet is counted exactly
because two packets share a number without a clash only if the earlier one's job
had ended (`Overlap`), and because an unanswered packet in flight without a clash
is pending under its own number (`Awaited`). What `Take` does is the same for a reply
to a packet and a stray one (`TakeCounts`); a stray one may take a sample away
from the packet's own reply, which leaves it counted all the same, and so the
theorem also says what else is counted: with `Raw`, only what is short or carries
the magic; without it, nothing (`StrayCounts`). `RoundApart` says that packets with
one number are a whole round apart. The variables, assumptions and invariants are
in `PingerState`, so that `Icmp_proofs` can extend it beside `Icmp`, whose actions
have the same names as those of the helper. Consequences: `PingerTypeCorrect`,
`PendingAlwaysOwned`, `AlwaysCountedExactly`, for every modulus, 2^16 included.

**Probe** (`Probe_proofs`). `Sums` and the types say what is counted when.
`CycleExact` compares two orders, that of arrival and that of reading, and holds
because they agree: `Line` says that the first copies not yet read are the last
ones of `arrivals` and lie in the buffer in that order, each before its
duplicates; that an arrival before the deadline is recorded (`Recorded`) and
stays until it is read (`Kept`), so that the deadline passes only with an empty
buffer; and that `highest` is the highest number read (`Top`). `Tally` counts the
packets overtaken. `RttFromRead` rests on `Timed`: whatever lies in the buffer
while the task is receiving arrived just now or before the sending ended.
`WindowExact` says that two lists, from which `expire` drops single entries, are
always those of whole cycles. `Follow` says that cycles begin in the order of the
log, `Shown` that the lists are the samples and the counters of the cycles after
the k-th and that all earlier ones are stale, `Sorted` that the samples of a
cycle are in send order, because `Nth` enumerates a finite set of numbers
(`NthRank`). All samples of a cycle carry its beginning, so `expire` drops them
together (`ExpireShows`). That joining sequences is associative is an induction
over the recursion of `FlattenSeq` (`Joins`), with a set of natural
numbers as above. Consequences: `TypeCorrect`, `CycleAlwaysExact`,
`RttAlwaysFromRead`, `WindowAlwaysExact`, for every number of packets, interval,
timeout and window, and every behaviour of the network.

Only model-checked, and why:

- Every liveness property (`UnhealthyReplaced`, `ReloadApplied`,
  `ChurnCannotStarve`, `EventuallyDurable`, `Answered`, `Converges`,
  `EditApplied`): progress under fairness is beyond this prover.
- `IntraApart`: its inductive form would have to speak of the sides of different
  anchors in the middle of a fill, and is not proved yet.

## 5. Not modelled, and seen on the way

Not modelled: the file format of the state, the text of keys and labels, glob
filters and regular expressions of zone rules, configuration parsing and
validation, sockets and privileges, the aggregates of `Window.Stats`, and the
views of the API. The Kubernetes provider keeps its nodes in the informer of an
external library; its own code converts one node at a time and emits on three
timers, any of which delivers the whole cache, so `Sources` takes its emission
for a poll. `RunNow`, which the API calls, is a `Requester` that the
configurations of `ReconcileLoop` leave out, and is absent from `Daemon`.

Differences between code and text that no run states:

- `RunNow` takes no lock: a run for the API beside the loop's reads the same
  table, and the second one to finish installs a successor of the older
  (loop.go:184; the comment at loop.go:61 says "Loop serialises reconcile runs").
- A vanished pairing is not deleted when nothing else happens: its removal
  deadline is not part of the delta, so the table that carries it is thrown away
  (reconcile.go:198; docs/tech_spec.md:428).
- The series of the labels that a running task had before a refresh in place
  stay (runner.go:162; docs/tech_spec.md:497); `NoStaleSeries` leaves out those
  in `renamed`.
- A source whose restart failed is not registered, and disabling it then removes
  nothing (provider.go:153; the comment at provider.go:132); `HostsOwned` leaves
  out those in `failed`.
- `Load` accepts configurations that `buildTopology` refuses. Then the watcher
  has the new configuration while rule, filter and scanner are old (main.go:338;
  the comment at main.go:205 says "the three values always match the active
  configuration").
- The first run may publish its tasks before the runner has a context, and
  `Apply` returns without a word; a configuration published before
  `Subscribe` reaches nobody, and an edit between `Load` and `NewWatcher` is
  taken for seen (runner.go:139, main.go:266, watcher.go:29): `deaf`, `missed`
  and `blind` in `Daemon`.
- UDP replies are read only after the last packet was sent, so the round trip of
  all packets but the last may include the rest of the sending (udp.go:76;
  udp.go:1 says that it measures the echo round trip time). `RttFromRead` says by how much.
- `handleConn` takes every read for a payload of its own: one that TCP cuts into
  pieces is rejected at the second (responder.go:176; docs/tech_spec.md:590).
- After a crash or failure between document and sidecar, a server or a URL that
  goes back, or a stale report, can leave a validator that stands for another
  document (http.go:241): `Excused` in `HttpSource`.
- The hop limit of one request stays set on the socket all requests share
  (meshping/main.go:331).
- `initial_grace` is stored by `MarkAssigned` and never read (health.go:254;
  docs/tech_spec.md:423).
- A host released for failing probes becomes eligible again through one more
  failed probe, by way of `suspect` (health.go:212; docs/user_manual.md:1436);
  a provider's rejection and return cut a cooldown short (health.go:146;
  docs/user_manual.md:1450); a cooldown shorter than the flap window renews
  itself.
- A table installed after both last flushes is not written (main.go:361;
  docs/tech_spec.md:451).
- A change of only an address or of the `probes` section does not reach the
  running tasks, because neither is part of a delta (loop.go:234 and :241;
  docs/tech_spec.md:850; docs/user_manual.md:1527 says of `probes.*` "Restarts
  tasks with new parameters"). `EditApplied` therefore speaks of the table the
  tasks were made from.
- A configuration that Load and `buildTopology` accept but whose pairings exceed
  `max_pairings` becomes the active one and makes every run fail; table and tasks
  stay those of the last run that did not (loop.go:218, pairing.go:135).
  `EditApplied` promises a table only within the limit.
- On a raw socket an echo reply with fewer than eight bytes of data is counted
  whoever it belongs to, and so is one with the magic that answers another helper
  or the one before this one, whose numbers began at 1 as well (main.go:342 to :384
  of meshping; its comment at main.go:29 says that the magic is there "so that an
  unrelated echo reply is not counted as a sample", and docs/tech_spec.md:559 that
  it "provides the second check"). `CountedExactly` allows exactly these.
- The reset of a removal deadline is not part of the delta (reconcile.go:189).
- `fillAnchors` records one pick's rank on all anchors; `PickAnchor` ignores
  `allow_reuse` (reconcile.go:569, slot.go:251).
- With super hosts, each run clears and refills the reverse direction's super
  slots, so no run is empty (reconcile.go:308); `SecondRunEmpty` excludes them.
- A removal hold of zero, which no validation refuses, lets the second of two runs
  delete the pairings that the first one only marks (reconcile.go:196);
  `SecondRunEmpty` excludes it.
- When a reload turns `allow_reuse` off, a run between the watcher's swap and
  `onConfig` discards the table for its new layout and fills the new one with
  the old scanner. The hosts that then share diverse slots are valid, so nothing
  takes them apart later (reconcile.go:121, main.go:338; docs/user_manual.md:1367
  says "only rank 1 is accepted"); `DiverseIndependent` excludes reloads.
- In the same way a table can get the super hosts of the old count; the next run
  of the new scanner drops the surplus, still valid (reconcile.go:326);
  `SuperSticky` excludes a zone with more than the scanner wants.
- An unavailable ICMP helper is recorded as a failed probe (client.go:248,
  runner.go:385).
- A helper that answers with a line that cannot be decoded, or with another
  protocol version, stays alive while `session` waits for its exit.
- The reader of a killed child may set `avail` after `Run` cleared it; the next
  child's hello timeout is then not enforced (client.go:141).
- `collect` in `meshping` goes through the samples in the order they were sent,
  so it never counts a reordered reply (main.go:446).

## 6. Plan

The most important behaviour came first. Done: `Health`, `StateStore` with
`DurableState`, `Reconcile`, `ReconcileLoop`, `Runner`, `Sources`, `Icmp`, then
`HttpSource`, `Probe`, `Pinger`, and `Daemon`, which composes watcher,
subscriber, triggers, loop and runner.

What is left:

1. Models. Health and reconcile together (a host without a task is not probed
   again); the Kubernetes provider's debounce over an informer.
2. Abstract specifications. The runner as "a set of measurements with one owner
   each"; the waiters as a one-shot mailbox; the inventory as a map from source
   to its latest delivered set.
3. Proofs. Every safety and action property that a run checks is a theorem, except
   `IntraApart`, which is next, and so is the one refinement; the abstract
   specifications of item 2 come with theirs.
