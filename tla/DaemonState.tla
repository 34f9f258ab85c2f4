----------------------------- MODULE DaemonState -----------------------------
(***************************************************************************)
(* The state of the daemon, in the goroutines of cmd/meshd and in the      *)
(* channels between them, and what is promised of it at every moment.      *)
(* Daemon has the steps.                                                   *)
(***************************************************************************)
EXTENDS Integers

CONSTANTS
    Zone,          \* zone rules
    Slots,         \* slot layouts
    Probes,        \* probe parameters
    Config,        \* contents of the configuration file
    Rejected,      \* those that Load refuses
    Uncompilable,  \* those that Load accepts and buildTopology refuses
    Inventory,     \* contents of the inventory
    Empty,         \* the inventory without hosts
    Pairs,         \* Pairs[z, i]: the pairings that rule z wants of inventory i
    None,          \* no configuration, no table
    Found,         \* what the state file may hold at the start: tables, or None
    MaxEdits,      \* bound: edits of the file
    MaxChanges,    \* bound: changes of the inventory
    MaxFaults      \* bound: providers that do not start

\* The sections of a configuration file, as far as they are told apart.
Settings == [zone : Zone, slots : Slots, probes : Probes,
             max_pairings : Nat \ {0}]

\* A table is what it was computed from: the rule, the layout and the hosts.
\* Inventories that differ put different hosts into the slots.
Table == [zone : Zone, slots : Slots, hosts : Inventory]

\* Tasks are made from a table, with the probe parameters of their time.
Tasks == [table : Table, probes : Probes]

ASSUME ConfigAssumption ==
    /\ Config \subseteq Settings
    /\ Rejected \subseteq Config /\ Uncompilable \subseteq Config \ Rejected
    /\ None \notin Config

ASSUME InventoryAssumption ==
    /\ Empty \in Inventory
    /\ Pairs \in [Zone \X Inventory -> Nat]
    /\ \A z \in Zone : Pairs[z, Empty] = 0

ASSUME TableAssumption ==
    /\ None \notin Table \cup Tasks
    /\ Found \subseteq Table \cup {None}

ASSUME BoundsAssumption == MaxEdits \in Nat /\ MaxChanges \in Nat /\ MaxFaults \in Nat

VARIABLES
    file,        \* the configuration file: its content and its mtime
    main,        \* how far main has come
    active,      \* Watcher.cur
    seen,        \* Watcher.mtime
    watcher,     \* where the watcher's goroutine is
    stat,        \* the mtime that the current reload has read, or 0
    ch,          \* the subscriber's channel
    subscriber,  \* where the subscriber is
    taken,       \* the configuration that it took last
    rule,        \* the configuration of app.rule, filter and scanner
    inv,         \* the inventory: content and generation
    watched,     \* the generation that watchInventory saw last
    trigger,     \* Loop.ch
    loop,        \* where the loop is
    cfg,         \* the configuration that the current run has read, or None
    snapshot,    \* the snapshot of the current or last run
    used,        \* the configuration whose rule the current or last run has
    table,       \* the slot table
    ready,       \* Loop.ready
    running,     \* the runner has its context
    tasks,       \* the runner's tasks
    faults,      \* providers that did not start so far (bound)
    blind,       \* the file changed between Load and NewWatcher (history)
    missed,      \* the last publication had no subscriber (history)
    skipped,     \* onConfig ended without a trigger (history)
    deaf         \* the last publication of tasks was lost, or empty (history)

-----------------------------------------------------------------------------
(* Properties.                                                             *)

\* "Drops intermediate values", and only those: a subscriber that is slow, or
\* starts late, has the active configuration in its channel or in hand, unless
\* that was published before it subscribed.
LatestDelivered ==
    watcher # "publishing" /\ ~missed => active \in {ch, taken} /\ (ch # None => ch = active)

\* "Triggers that arrive during a run cause exactly one further run
\* afterwards": whenever watchInventory or onConfig has reported a change, the
\* loop has used it, is about to read it, or has a trigger pending; except for a
\* topology whose onConfig ended early.
TriggersServed ==
    /\ watched > snapshot.gen => trigger \/ loop \in {"start", "begun", "configured"}
    /\ rule # used => \/ trigger \/ skipped
                      \/ loop \in {"start", "begun", "configured", "snapped"}
                      \/ subscriber \in {"providers", "trigger"}
=============================================================================
