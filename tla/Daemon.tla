------------------------------- MODULE Daemon -------------------------------
(***************************************************************************)
(* The daemon (cmd/meshd) around its parts: how an edit of the             *)
(* configuration file or a change of the inventory reaches the slot table  *)
(* and the tasks.  It composes the configuration watcher (internal/        *)
(* config), the subscriber and the inventory watch of main.go, the         *)
(* triggers and the ticker of the reconcile loop, and the start of the     *)
(* runner.  Each is a goroutine, and they start in any order.              *)
(*                                                                         *)
(* What a run computes is abstract: a table is the zone rule, the slot     *)
(* layout and the inventory that it was computed from.  ReconcileLoop has  *)
(* the computation.                                                        *)
(***************************************************************************)
EXTENDS DaemonState

configVars == <<file, active, seen, watcher, stat, blind>>
subscriberVars == <<ch, subscriber, taken, rule, missed>>
inventoryVars == <<inv, watched>>
loopVars == <<loop, cfg, snapshot, used, table, ready, tasks, deaf>>
vars == <<file, active, seen, watcher, stat, blind, ch, subscriber, taken, rule, missed,
          inv, watched, loop, cfg, snapshot, used, table, ready, tasks, deaf,
          main, trigger, running, faults, skipped>>

Loads(c) == c \notin Rejected
Compiles(c) == c \notin Rejected \cup Uncompilable

\* main up to NewWatcher: the configuration is loaded and compiled, and the
\* state file holds a table of any earlier time.
Init ==
    /\ active \in {c \in Config : Compiles(c)}
    /\ file = [config |-> active, mtime |-> 0]
    /\ main = "building" /\ seen = 0 /\ stat = 0 /\ watcher = "idle"
    /\ ch = None /\ subscriber = "idle" /\ taken = active /\ rule = active
    /\ inv = [content |-> Empty, gen |-> 0] /\ watched = 0
    /\ trigger = FALSE
    /\ loop = "start" /\ cfg = None /\ snapshot = inv /\ used = rule
    /\ table \in Found
    /\ ready = FALSE /\ running = FALSE /\ tasks = None
    /\ faults = 0
    /\ blind = FALSE /\ missed = FALSE /\ skipped = FALSE /\ deaf = FALSE

-----------------------------------------------------------------------------
(* The world.                                                              *)

\* The file is replaced; its mtime is new.
Edit(c) ==
    /\ file.mtime < MaxEdits /\ c # file.config
    /\ file' = [config |-> c, mtime |-> file.mtime + 1]
    /\ blind' = (blind \/ main = "building")
    /\ UNCHANGED <<active, seen, watcher, stat, subscriberVars, inventoryVars, loopVars,
                   main, trigger, running, faults, skipped>>

\* A provider delivers.
Deliver(i) ==
    /\ main # "building" /\ inv.gen < MaxChanges
    /\ inv' = [content |-> i, gen |-> inv.gen + 1]
    /\ UNCHANGED <<watched, configVars, subscriberVars, loopVars,
                   main, trigger, running, faults, skipped>>

-----------------------------------------------------------------------------
(* main.                                                                   *)

\* NewWatcher reads the file's mtime, and run starts every goroutine.
StartAll ==
    /\ main = "building" /\ main' = "started"
    /\ seen' = file.mtime
    /\ UNCHANGED <<file, active, watcher, stat, blind, subscriberVars, inventoryVars, loopVars,
                   trigger, running, faults, skipped>>

Subscribe ==
    /\ main = "started" /\ main' = "subscribed"
    /\ UNCHANGED <<configVars, subscriberVars, inventoryVars, loopVars,
                   trigger, running, faults, skipped>>

Started == main # "building"

\* runner.Run.
RunnerStarts ==
    /\ Started /\ ~running /\ running' = TRUE
    /\ UNCHANGED <<configVars, subscriberVars, inventoryVars, loopVars,
                   main, trigger, faults, skipped>>

-----------------------------------------------------------------------------
(* The watcher.                                                            *)

Stat ==
    /\ Started /\ watcher = "idle" /\ watcher' = "loading"
    /\ stat' = file.mtime
    /\ UNCHANGED <<file, active, seen, blind, subscriberVars, inventoryVars, loopVars,
                   main, trigger, running, faults, skipped>>

\* reload(false), on the ticker: only when the mtime differs.
StatChanged == file.mtime # seen /\ Stat

\* The rest of reload: a configuration that Load refuses leaves all as it was,
\* the mtime too; one that is equal is not published.
Load ==
    /\ watcher = "loading" /\ stat' = 0
    /\ IF ~Loads(file.config)
       THEN watcher' = "idle" /\ UNCHANGED <<active, seen, blind>>
       ELSE /\ active' = file.config /\ blind' = FALSE
            /\ seen' = stat
            /\ watcher' = IF active = file.config THEN "idle" ELSE "publishing"
    /\ UNCHANGED <<file, subscriberVars, inventoryVars, loopVars,
                   main, trigger, running, faults, skipped>>

\* Defect: a full channel keeps the old value.
PublishIfEmpty ==
    /\ watcher = "publishing" /\ watcher' = "idle"
    /\ ch' = IF main = "subscribed" /\ ch = None THEN active ELSE ch
    /\ missed' = (main # "subscribed")
    /\ UNCHANGED <<file, active, seen, stat, blind, subscriber, taken, rule, inventoryVars, loopVars,
                   main, trigger, running, faults, skipped>>

\* publish: a value that was not taken is replaced.
Publish ==
    /\ watcher = "publishing" /\ watcher' = "idle"
    /\ ch' = IF main = "subscribed" THEN active ELSE ch
    /\ missed' = (main # "subscribed")
    /\ UNCHANGED <<file, active, seen, stat, blind, subscriber, taken, rule, inventoryVars, loopVars,
                   main, trigger, running, faults, skipped>>

-----------------------------------------------------------------------------
(* The subscriber: onConfig.                                               *)

Receive ==
    /\ main = "subscribed" /\ subscriber = "idle" /\ ch # None
    /\ taken' = ch /\ ch' = None /\ subscriber' = "topology"
    /\ UNCHANGED <<rule, missed, configVars, inventoryVars, loopVars,
                   main, trigger, running, faults, skipped>>

\* buildTopology: all three values, or an error and none.
BuildTopology ==
    /\ subscriber = "topology"
    /\ IF Compiles(taken)
       THEN rule' = taken /\ subscriber' = "providers"
       ELSE subscriber' = "idle" /\ UNCHANGED rule
    /\ UNCHANGED <<ch, taken, missed, configVars, inventoryVars, loopVars,
                   main, trigger, running, faults, skipped>>

\* Manager.Apply; one provider that does not start ends onConfig.
ApplyProviders ==
    /\ subscriber = "providers"
    /\ \/ subscriber' = "trigger" /\ UNCHANGED <<faults, skipped>>
       \/ /\ faults < MaxFaults /\ faults' = faults + 1
          /\ subscriber' = "idle" /\ skipped' = TRUE
    /\ UNCHANGED <<ch, taken, rule, missed, configVars, inventoryVars, loopVars,
                   main, trigger, running>>

\* Loop.Trigger: a pending trigger absorbs this one.
TriggerConfig ==
    /\ subscriber = "trigger" /\ subscriber' = "idle"
    /\ trigger' = TRUE
    /\ UNCHANGED <<ch, taken, rule, missed, configVars, inventoryVars, loopVars,
                   main, running, faults, skipped>>

\* watchInventory, on its ticker.
WatchInventory ==
    /\ Started /\ inv.gen # watched
    /\ watched' = inv.gen /\ trigger' = TRUE
    /\ UNCHANGED <<inv, configVars, subscriberVars, loopVars, main, running, faults, skipped>>

-----------------------------------------------------------------------------
(* The loop.                                                               *)

\* The first run.
Start ==
    /\ Started /\ loop = "start" /\ loop' = "begun"
    /\ UNCHANGED <<cfg, snapshot, used, table, ready, tasks, deaf, configVars, subscriberVars,
                   inventoryVars, main, trigger, running, faults, skipped>>

Triggered ==
    /\ loop = "idle" /\ trigger
    /\ loop' = "begun" /\ trigger' = FALSE
    /\ UNCHANGED <<cfg, snapshot, used, table, ready, tasks, deaf, configVars, subscriberVars,
                   inventoryVars, main, running, faults, skipped>>

\* Defect: the ticker runs only when the inventory has changed.
TickedIfChanged ==
    /\ loop = "idle" /\ snapshot.gen # inv.gen
    /\ loop' = "begun"
    /\ UNCHANGED <<cfg, snapshot, used, table, ready, tasks, deaf, configVars, subscriberVars,
                   inventoryVars, main, trigger, running, faults, skipped>>

\* The ticker, and a health timer that expires, run in any case.
Ticked ==
    /\ loop = "idle" /\ loop' = "begun"
    /\ UNCHANGED <<cfg, snapshot, used, table, ready, tasks, deaf, configVars, subscriberVars,
                   inventoryVars, main, trigger, running, faults, skipped>>

TakeConfig ==
    /\ loop = "begun" /\ loop' = "configured"
    /\ cfg' = active
    /\ UNCHANGED <<snapshot, used, table, ready, tasks, deaf, configVars, subscriberVars,
                   inventoryVars, main, trigger, running, faults, skipped>>

TakeSnapshot ==
    /\ loop = "configured" /\ loop' = "snapped"
    /\ snapshot' = inv
    /\ UNCHANGED <<cfg, used, table, ready, tasks, deaf, configVars, subscriberVars,
                   inventoryVars, main, trigger, running, faults, skipped>>

TakeTopology ==
    /\ loop = "snapped" /\ loop' = "finishing"
    /\ used' = rule /\ skipped' = FALSE
    /\ UNCHANGED <<cfg, snapshot, table, ready, tasks, deaf, configVars, subscriberVars,
                   inventoryVars, main, trigger, running, faults>>

\* The pairings that the run wants, and the limit on them.
Wanted == Pairs[used.zone, snapshot.content]

TooMany == Wanted > cfg.max_pairings

\* What a run computes.  Without a wanted pairing its delta is empty: a rebuilt
\* table has none, and the removal hold keeps those of the same rule and layout.
Result ==
    IF Wanted = 0 THEN table
    ELSE [zone |-> used.zone, slots |-> cfg.slots, hosts |-> snapshot.content]

\* Runner.Apply: nothing before the runner has started, no tasks of pairings
\* that are not wanted; the probe parameters are those of this moment.
Apply ==
    /\ tasks' = IF ~running THEN tasks
                ELSE IF Wanted = 0 THEN None
                ELSE [table |-> Result, probes |-> active.probes]
    /\ deaf' = (~running \/ Wanted = 0)

\* The run ends with an error and changes nothing.
Abort ==
    /\ loop = "finishing" /\ TooMany
    /\ loop' = "idle" /\ cfg' = None
    /\ UNCHANGED <<snapshot, used, table, ready, tasks, deaf, configVars, subscriberVars,
                   inventoryVars, main, trigger, running, faults, skipped>>

\* Defect: the triggers that came during the run are taken for served.
FinishDraining ==
    /\ loop = "finishing" /\ ~TooMany
    /\ loop' = "idle" /\ cfg' = None
    /\ table' = Result /\ ready' = TRUE /\ trigger' = FALSE
    /\ IF Result # table \/ ~ready THEN Apply ELSE UNCHANGED <<tasks, deaf>>
    /\ UNCHANGED <<snapshot, used, configVars, subscriberVars, inventoryVars,
                   main, running, faults, skipped>>

\* The end of a run: a table that differs is installed and published; the first
\* run that does not fail publishes in any case.  A change of the probe
\* parameters alone is no difference.
Finish ==
    /\ loop = "finishing" /\ ~TooMany
    /\ loop' = "idle" /\ cfg' = None
    /\ table' = Result /\ ready' = TRUE
    /\ IF Result # table \/ ~ready THEN Apply ELSE UNCHANGED <<tasks, deaf>>
    /\ UNCHANGED <<snapshot, used, configVars, subscriberVars, inventoryVars,
                   main, trigger, running, faults, skipped>>

-----------------------------------------------------------------------------
Run == Start \/ TakeConfig \/ TakeSnapshot \/ TakeTopology \/ Abort \/ Finish

OnConfig == BuildTopology \/ ApplyProviders \/ TriggerConfig

Next ==
    \/ \E c \in Config : Edit(c)
    \/ \E i \in Inventory : Deliver(i)
    \/ StartAll \/ Subscribe \/ RunnerStarts
    \/ Stat \/ StatChanged \/ Load \/ Publish
    \/ Receive \/ OnConfig \/ WatchInventory
    \/ Triggered \/ Ticked \/ Run

\* Goroutines go on and tickers fire; a SIGHUP (Stat) may never come, and a
\* trigger may always lose against the ticker in the loop's select.
Spec ==
    /\ Init /\ [][Next]_vars
    /\ WF_vars(StartAll) /\ WF_vars(Subscribe) /\ WF_vars(RunnerStarts)
    /\ WF_vars(StatChanged) /\ WF_vars(Load \/ Publish)
    /\ WF_vars(Receive \/ OnConfig)
    /\ WF_vars(Ticked) /\ WF_vars(Run)

-----------------------------------------------------------------------------
\* The types of the values and of the flags, and both.
DataOK ==
    /\ file \in [config : Config, mtime : Nat]
    /\ main \in {"building", "started", "subscribed"}
    /\ active \in Config /\ seen \in Nat /\ stat \in Nat
    /\ watcher \in {"idle", "loading", "publishing"}
    /\ ch \in Config \cup {None} /\ taken \in Config /\ rule \in Config
    /\ subscriber \in {"idle", "topology", "providers", "trigger"}
    /\ inv \in [content : Inventory, gen : Nat] /\ snapshot \in [content : Inventory, gen : Nat]
    /\ watched \in Nat
    /\ loop \in {"start", "idle", "begun", "configured", "snapped", "finishing"}
    /\ loop \in {"configured", "snapped", "finishing"} => cfg # None
    /\ cfg \in Config \cup {None} /\ used \in Config
    /\ table \in Table \cup {None} /\ tasks \in Tasks \cup {None}
    /\ faults \in Nat

FlagsOK ==
    /\ trigger \in BOOLEAN /\ ready \in BOOLEAN /\ running \in BOOLEAN
    /\ blind \in BOOLEAN /\ missed \in BOOLEAN /\ skipped \in BOOLEAN /\ deaf \in BOOLEAN

TypeOK == DataOK /\ FlagsOK

\* The last edit of the file ends in the configuration, the rule, the table and
\* the tasks' table, whatever provider fails and whatever overtakes it on the way.
\* Except for: an edit that startup does not see; a table while no pairing is
\* wanted, or more than the limit allows, which is then the old one; and tasks
\* that startup does not publish.
EditApplied ==
    <>[](Compiles(file.config) =>
            /\ active = file.config \/ blind
            /\ rule = active \/ missed
            /\ Pairs[rule.zone, inv.content] \in 1 .. active.max_pairings =>
                   /\ table = [zone |-> rule.zone, slots |-> active.slots,
                               hosts |-> inv.content]
                   /\ deaf \/ (tasks # None /\ tasks.table = table))
=============================================================================
