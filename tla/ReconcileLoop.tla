---------------------------- MODULE ReconcileLoop ----------------------------
(***************************************************************************)
(* The reconcile loop of internal/reconcile/loop.go around the pure        *)
(* function: its runs, and the API's (RunNow), read the components, call   *)
(* Reconcile, install the table in the state store and hand the task set   *)
(* to the runner, while providers publish inventories, hosts change        *)
(* health, the configuration is reloaded, time passes and the process      *)
(* restarts.                                                               *)
(*                                                                         *)
(* The trigger channel only decides when a run starts, and the periodic    *)
(* tick starts one at any time, so a run may always start.                 *)
(***************************************************************************)
EXTENDS Reconcile

CONSTANTS
    Requester,    \* who runs reconciles: the loop, API requests
    Hosts,        \* the hosts an inventory may hold
    Frail,        \* bound: the hosts whose health changes
    Node,         \* node_id, the host this process probes from
    Configs,      \* the configurations the watcher may accept
    Inventories,  \* the merged snapshots the providers may publish
    Reloads,      \* whether the configuration may be reloaded
    MaxRestarts   \* bound: restarts of the process

ASSUME HostAssumption ==
    /\ Hosts \subseteq Nat \ {None} /\ IsFiniteSet(Hosts)
    /\ Frail \subseteq Hosts /\ Node \in Hosts
    /\ \A i \in Inventories : DOMAIN i \subseteq Hosts

ASSUME ConfigAssumption ==
    /\ IsFiniteSet(Configs) /\ Configs # {}
    /\ \A c \in Configs :
           /\ c.count \in Nat \ {0} /\ c.percent \in 0..100
           /\ c.rounding \in {"up", "down"}
           /\ c.superHosts \in Nat /\ c.superMax \in Nat \ {0}
           /\ c.reuse \in BOOLEAN /\ c.intra \in BOOLEAN
           /\ c.maxPairings \in Nat \ {0} /\ c.hold \in Nat
           /\ c.filter \subseteq DOMAIN Hash

ASSUME BoundAssumption == MaxRestarts \in Nat /\ Reloads \in BOOLEAN

VARIABLES
    inv,       \* the inventory store's snapshot
    healthy,   \* the hosts the health tracker calls eligible
    cfg,       \* config.Watcher's current configuration
    topo,      \* the configuration rule, filter and scanner come from
    cur,       \* state.Store's table
    tasks,     \* the runner's task set
    ready,     \* Loop.ready
    pc,        \* pc[r]: where requester r's runOnce is
    run,       \* run[r]: what it has read and computed
    restarts

vars == <<inv, healthy, cfg, topo, cur, tasks, ready, pc, run, restarts>>

NoRun == <<>>

Keys == DOMAIN Hash

\* What Reconcile reads, as runOnce collects it.
Input == [inv |-> inv, eligible |-> healthy, cfg |-> cfg, topo |-> topo]

\* Runner.desired: the tasks whose source is this node.
Desired(state, snap) ==
    LET Active == {k \in DOMAIN state.pairings : IsActive(state.pairings[k])}
        Ends   == UNION {{k} \X (DOMAIN state.pairings[k].slots) \X Side : k \in Active}
        Host(e)   == state.pairings[e[1]].slots[e[2]].host[e[3]]
        Target(e) == state.pairings[e[1]].slots[e[2]].host[3 - e[3]]
    IN  {<<e[1], e[2], Target(e), snap[Target(e)].addr>> :
            e \in {f \in Ends : Host(f) = Node /\ Target(f) \in DOMAIN snap}}

Init ==
    /\ inv = <<>>
    /\ healthy = Hosts
    /\ cfg \in Configs /\ topo = cfg
    /\ cur = [rule |-> <<>>, slots |-> <<>>, pairings |-> <<>>, supers |-> <<>>]
    /\ tasks = {} /\ ready = FALSE
    /\ pc = [r \in Requester |-> "idle"]
    /\ run = [r \in Requester |-> NoRun]
    /\ restarts = 0

-----------------------------------------------------------------------------
(* runOnce.                                                                *)

\* Everything up to Reconcile: the reads are short and the state is read
\* last.  They are one step here, so the configuration may be newer than the
\* topology, but rule, filter and scanner are of one configuration.  An error
\* ends the run with the table it found.
Begin(r) ==
    /\ pc[r] = "idle"
    /\ IF TooMany(Input)
       THEN UNCHANGED <<pc, run>>
       ELSE /\ pc' = [pc EXCEPT ![r] = "computed"]
            /\ run' = [run EXCEPT ![r] =
                          LET out == Reconcile(Input, cur)
                          IN  [snap |-> inv, state |-> out.state,
                               delta |-> out.delta]]
    /\ UNCHANGED <<inv, healthy, cfg, topo, cur, tasks, ready, restarts>>

\* State.Update, only for a run that changed something.
Install(r) ==
    /\ pc[r] = "computed" /\ ~IsEmpty(run[r].delta)
    /\ cur' = run[r].state
    /\ pc' = [pc EXCEPT ![r] = "installed"]
    /\ UNCHANGED <<inv, healthy, cfg, topo, tasks, ready, run, restarts>>

\* Defect: only the first run hands its task set over.
FinishFirst(r) ==
    /\ pc[r] = "installed" \/ (pc[r] = "computed" /\ IsEmpty(run[r].delta))
    /\ tasks' = IF ready THEN tasks ELSE Desired(run[r].state, run[r].snap)
    /\ ready' = TRUE
    /\ pc' = [pc EXCEPT ![r] = "idle"]
    /\ run' = [run EXCEPT ![r] = NoRun]
    /\ UNCHANGED <<inv, healthy, cfg, topo, cur, restarts>>

\* OnDelta, after a change or on the first run, and the end of the run.
Finish(r) ==
    /\ pc[r] = "installed" \/ (pc[r] = "computed" /\ IsEmpty(run[r].delta))
    /\ tasks' = IF pc[r] = "installed" \/ ~ready
                THEN Desired(run[r].state, run[r].snap) ELSE tasks
    /\ ready' = TRUE
    /\ pc' = [pc EXCEPT ![r] = "idle"]
    /\ run' = [run EXCEPT ![r] = NoRun]
    /\ UNCHANGED <<inv, healthy, cfg, topo, cur, restarts>>

-----------------------------------------------------------------------------
(* The components around the loop.                                         *)

\* A provider publishes, and the merged snapshot changes.
Discover ==
    /\ inv' \in Inventories \ {inv}
    /\ UNCHANGED <<healthy, cfg, topo, cur, tasks, ready, pc, run, restarts>>

\* Probes, timers or a provider change one host's eligibility.
HealthChange(h) ==
    /\ healthy' = IF h \in healthy THEN healthy \ {h} ELSE healthy \cup {h}
    /\ UNCHANGED <<inv, cfg, topo, cur, tasks, ready, pc, run, restarts>>

\* The watcher accepts a new file; its subscriber applies it later.
Reload ==
    /\ Reloads
    /\ cfg' \in Configs \ {cfg}
    /\ UNCHANGED <<inv, healthy, topo, cur, tasks, ready, pc, run, restarts>>

OnConfig ==
    /\ topo # cfg
    /\ topo' = cfg
    /\ UNCHANGED <<inv, healthy, cfg, cur, tasks, ready, pc, run, restarts>>

\* One unit of time: the removal holds run down.
Older(st) ==
    [st EXCEPT !.pairings =
        [k \in DOMAIN st.pairings |->
            [st.pairings[k] EXCEPT !.left = IF @ > 0 THEN @ - 1 ELSE @]]]

Elapse ==
    /\ cur' = Older(cur)
    /\ run' = [r \in Requester |->
                  IF run[r] = NoRun THEN NoRun
                  ELSE [run[r] EXCEPT !.state = Older(@)]]
    /\ UNCHANGED <<inv, healthy, cfg, topo, tasks, ready, pc, restarts>>

\* The process stops and starts again with the table it had written; every
\* host is unknown, hence eligible, and no provider has published yet.
Restart ==
    /\ restarts < MaxRestarts /\ \A r \in Requester : pc[r] = "idle"
    /\ restarts' = restarts + 1
    /\ inv' = <<>> /\ healthy' = Hosts /\ topo' = cfg
    /\ tasks' = {} /\ ready' = FALSE
    /\ UNCHANGED <<cfg, cur, pc, run>>

Next ==
    \/ \E r \in Requester : Begin(r) \/ Install(r) \/ Finish(r)
    \/ Discover \/ (\E h \in Frail : HealthChange(h))
    \/ Reload \/ OnConfig \/ Elapse \/ Restart

Spec == Init /\ [][Next]_vars

\* The loop's ticker starts runs for ever, a run always completes, time
\* passes and a reload is applied.  Nothing is assumed of the other
\* components.  KeepsRunning is WF_vars(Begin(r)) with ENABLED written out.
KeepsRunning(r) ==
    []<>(pc[r] # "idle" \/ TooMany(Input)) \/ []<><<Begin(r)>>_vars

Fairness == /\ \A r \in Requester : /\ KeepsRunning(r)
                                    /\ WF_vars(Install(r))
                                    /\ WF_vars(Finish(r))
            /\ WF_vars(Elapse) /\ WF_vars(OnConfig)

FairSpec == Spec /\ Fairness

-----------------------------------------------------------------------------
(* Properties.                                                             *)

SlotType == [class : {"anchor", "diverse", "super"},
             host : [Side -> Hosts \cup {None}], rank : [Side -> Unfilled..AnyUse],
             target : Hosts \cup {None}]

PairingType == [slots : Seq(SlotType), left : Nat \cup {Never}]

TableOK(st) ==
    /\ st = [rule |-> st.rule, slots |-> st.slots,
             pairings |-> st.pairings, supers |-> st.supers]
    /\ DOMAIN st.pairings \subseteq Keys
    /\ \A k \in DOMAIN st.pairings : st.pairings[k] \in PairingType
    /\ \A z \in DOMAIN st.supers : st.supers[z] \subseteq Hosts

RunOK(r) ==
    IF pc[r] = "idle" THEN run[r] = NoRun
    ELSE /\ run[r] = [snap |-> run[r].snap, state |-> run[r].state,
                      delta |-> run[r].delta]
         /\ run[r].snap \in Inventories \cup {<<>>}
         /\ TableOK(run[r].state)

\* The type of the loop, of what it reads and of what it has computed.
TypeOK ==
    /\ inv \in Inventories \cup {<<>>} /\ healthy \subseteq Hosts
    /\ cfg \in Configs /\ topo \in Configs
    /\ TableOK(cur)
    /\ \A t \in tasks : t[1] \in Keys /\ t[2] \in Nat /\ t[3] \in Hosts
    /\ ready \in BOOLEAN /\ restarts \in 0..MaxRestarts
    /\ pc \in [Requester -> {"idle", "computed", "installed"}]
    /\ DOMAIN run = Requester
    /\ \A r \in Requester : RunOK(r)

Slots(st, k)  == st.pairings[k].slots
BaseOf(st, k) == {i \in DOMAIN Slots(st, k) : IsBase(Slots(st, k)[i])}
OfClass(st, k, c) == {i \in DOMAIN Slots(st, k) : Slots(st, k)[i].class = c}

\* The anchor set of a pairing changes together or not at all, through any
\* sequence of failures, refills, removals and reloads.
AnchorsTogether ==
    \A k \in DOMAIN cur.pairings : \A s \in Side :
        \A i, j \in OfClass(cur, k, "anchor") :
            Slots(cur, k)[i].host[s] = Slots(cur, k)[j].host[s]

\* In a table made for allow_reuse: false (user_manual.md:1367, "only rank
\* 1 is accepted") the diverse slots of a pairing hold different hosts on
\* each side, whichever slots were refilled when.  A reload is excepted: a
\* run between the watcher and onConfig fills the new table with the old
\* scanner, and nothing takes the shared hosts out of it afterwards.
DiverseIndependent ==
    ~Reloads /\ ~cfg.reuse /\ cur.slots = SlotsFingerprint(cfg) =>
    \A k \in DOMAIN cur.pairings : \A s \in Side :
        \A i, j \in OfClass(cur, k, "diverse") :
            (i # j /\ Slots(cur, k)[i].host[s] # None)
                => Slots(cur, k)[i].host[s] # Slots(cur, k)[j].host[s]

\* "In an intra-zone pairing the two sides must differ" (reconcile.go:554):
\* a slot never measures a host against itself, though its sides are filled
\* one after the other from the same candidates, and are cleared and filled
\* again in different runs.
IntraApart ==
    \A k \in DOMAIN cur.pairings : k[1] = k[2] =>
        \A i \in BaseOf(cur, k) :
            Slots(cur, k)[i].host[1] # None
                => Slots(cur, k)[i].host[1] # Slots(cur, k)[i].host[2]

\* Continuity (tech_spec 2.4): a run never moves a host that is still valid
\* in its side: not for a failure on the other side, in another slot or in
\* another pairing, nor for a better candidate, nor across a removal hold
\* or a restart.
KeepsValidSides ==
    [][\A r \in Requester : (Begin(r) /\ pc'[r] # "idle") =>
        LET new == run'[r].state IN
        cur = Rebuilt(Input, cur) =>
            \A k \in DOMAIN cur.pairings \cap DOMAIN new.pairings :
                \A i \in BaseOf(cur, k) : \A s \in Side :
                    LET h == Slots(cur, k)[i].host[s]
                    IN  Valid(Input, k[s], h) => Slots(new, k)[i].host[s] = h]_vars

\* After a run every host of a wanted pairing is present, eligible and in
\* the zone it stands for, and a side is empty only for lack of hosts:
\* every candidate is its intra-zone partner, or is used and may not be.
Assigns ==
    [][\A r \in Requester : (Begin(r) /\ pc'[r] # "idle") =>
        LET new == run'[r].state IN
        \A k \in Wanted(Input) : \A i \in BaseOf(new, k) : \A s \in Side :
            LET slot == Slots(new, k)[i]
                C    == Candidates(Input, k, s)
            IN  IF slot.host[s] # None THEN slot.host[s] \in C
                ELSE \/ C \subseteq {slot.host[3 - s]}
                     \/ /\ ~topo.reuse /\ slot.class = "diverse"
                        /\ \A h \in C : h # slot.host[3 - s] =>
                               UseCount(Slots(new, k), s, h) > 0]_vars

\* A run leaves nothing for the next to do: on the same inputs a second run
\* reports no change, so the task set is not published again.  There are two
\* exceptions: validateSides clears the super slots of the reverse direction
\* in every run, and updateSuper creates them again; and with a removal hold
\* of zero the second run deletes the pairings the first found vanished.
SecondRunEmpty ==
    [][\A r \in Requester :
        (Begin(r) /\ pc'[r] # "idle" /\ cfg.superHosts = 0 /\ cfg.hold > 0) =>
            IsEmpty(Reconcile(Input, run'[r].state).delta)]_vars

\* Super hosts are sticky (user_manual.md:1023): a run drops one only when
\* it is gone, ineligible or in another zone, or when the zone has more of
\* them than the scanner wants, as half a reload may leave behind.
SuperSticky ==
    [][\A r \in Requester : (Begin(r) /\ pc'[r] # "idle") =>
        (cur = Rebuilt(Input, cur) =>
            \A z \in DOMAIN cur.supers : \A h \in cur.supers[z] :
                Valid(Input, z, h) /\ Cardinality(cur.supers[z]) <= topo.superHosts =>
                    h \in SupersOf(run'[r].state.supers, z))]_vars

\* The runner never measures a pair of hosts that the table does not hold
\* in that slot, outside a run.
NoStaleTask ==
    (\A r \in Requester : pc[r] = "idle") =>
    \A t \in tasks :
        /\ t[1] \in DOMAIN cur.pairings /\ t[2] \in DOMAIN Slots(cur, t[1])
        /\ LET h == Slots(cur, t[1])[t[2]].host
           IN  Node \in {h[1], h[2]} /\ t[3] \in {h[1], h[2]}

\* A host that fails leaves the wanted pairings that hold it, however runs,
\* inventories and health interleave.
Holds(k, h) == /\ k \in DOMAIN cur.pairings /\ k \in Wanted(Input)
               /\ ~TooMany(Input)
               /\ \E i \in BaseOf(cur, k) : \E s \in Side :
                      Slots(cur, k)[i].host[s] = h

UnhealthyReplaced ==
    \A k \in Keys : \A h \in Hosts :
        (Holds(k, h) /\ h \notin healthy) ~> (~Holds(k, h) \/ h \in healthy)

\* A reload that changes the slot layout reaches the table, whatever runs
\* with the old scanner or the old zone rule come first.
ReloadApplied ==
    \A c \in Configs :
        cfg = c ~> \/ cfg # c \/ cur.slots = SlotsFingerprint(c)
                   \/ TooMany(Input) \/ Wanted(Input) = {}

(***************************************************************************)
(* Statements of the documentation and comments.                           *)
(***************************************************************************)

\* tech_spec.md:920: after a restart "the runner starts exactly the tasks
\* that were running before": when a run has ended the task set is the one
\* the table and the inventory call for.
TasksFollow ==
    [][\A r \in Requester : Finish(r) => tasks' = Desired(cur, run[r].snap)]_vars
=============================================================================
