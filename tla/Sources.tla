------------------------------ MODULE Sources ------------------------------
(***************************************************************************)
(* Discovery: the provider manager of internal/provider and the inventory  *)
(* store of internal/inventory.  Apply runs in the goroutine that receives *)
(* reloads (and once before, at start); shutdown calls Stop beside it; the *)
(* providers' goroutines replace their host sets at any time; readers take *)
(* merged snapshots.                                                       *)
(*                                                                         *)
(* What a provider's poll yields (internal/provider/file, http, k8s) is    *)
(* any complete document; a poll that fails delivers nothing.              *)
(***************************************************************************)
EXTENDS Naturals, FiniteSets, Sequences, SequencesExt

CONSTANTS
    Source,      \* the registered source names
    Documents,   \* the host sets that a fetch may yield
    Wanted,      \* configurations: functions from sources to Off or to
                 \* [prio, tag, ok]: the priority, the rest of the source's
                 \* configuration, and whether its factory accepts it
    Off, None,   \* a disabled source; no cached snapshot
    Instance,    \* bound: provider instances that exist at a time
    MaxGiveUps   \* bound: stops that time out

ASSUME GiveUpAssumption == MaxGiveUps \in Nat

ASSUME OffAssumption == Off \notin Source

ASSUME SourceAssumption == IsFiniteSet(Source)

ASSUME WantedAssumption ==
    \A w \in Wanted : DOMAIN w = Source /\
        \A s \in Source : w[s] # Off =>
            DOMAIN w[s] = {"prio", "tag", "ok"} /\ w[s].prio \in Nat

VARIABLES
    cancelled,  \* the process's context
    active,     \* Manager.active: from running sources to instances
    inst,       \* the instances and their goroutines
    sets,       \* Store.sets: from sources to the sets they delivered
    snap,       \* Store.snap: None, or the record of every known host
    job,        \* job[a]: where Apply and Stop are
    giveUps,    \* stops that have timed out
    failed,     \* sources whose last start failed (history)
    abandoned   \* sources with a stop that timed out (history)

vars == <<cancelled, active, inst, sets, snap, job, giveUps, failed, abandoned>>

Actor == {"config", "shutdown"}

NoJob == [at |-> "idle", todo |-> {}, src |-> Off, wait |-> {},
          want |-> <<>>, err |-> FALSE]

Init ==
    /\ cancelled = FALSE
    /\ active = <<>> /\ inst = <<>>
    /\ sets = <<>> /\ snap = None
    /\ job = [a \in Actor |-> NoJob]
    /\ giveUps = 0 /\ failed = {} /\ abandoned = {}

Without(f, x)  == [y \in DOMAIN f \ {x} |-> f[y]]
With(f, x, v)  == [y \in DOMAIN f \cup {x} |-> IF y = x THEN v ELSE f[y]]

-----------------------------------------------------------------------------
(* The inventory store.                                                    *)

\* Defect: the record of the source that is merged last wins.
InsertLast(byID, s) ==
    [h \in DOMAIN byID \cup sets[s].hosts |->
        IF h \in sets[s].hosts THEN [src |-> s, prio |-> sets[s].prio] ELSE byID[h]]

\* merge, one source after another: a record yields to a higher priority.
Insert(byID, s) ==
    LET kept == {h \in DOMAIN byID : h \in sets[s].hosts => byID[h].prio >= sets[s].prio}
    IN  [h \in DOMAIN byID \cup sets[s].hosts |->
            IF h \in kept THEN byID[h] ELSE [src |-> s, prio |-> sets[s].prio]]

Merge(order) ==
    LET merged[n \in 0..Len(order)] ==
            IF n = 0 THEN <<>> ELSE Insert(merged[n - 1], order[n])
    IN  merged[Len(order)]

\* Snapshot: built when it is not cached, in the order the map yields.
Snapshot ==
    /\ snap = None
    /\ \E order \in SetToSeqs(DOMAIN sets) : snap' = Merge(order)
    /\ UNCHANGED <<cancelled, active, inst, sets, job, giveUps, failed, abandoned>>

\* Replace and Remove, within the steps of their callers.
StoreReplace(s, set) == sets' = With(sets, s, set) /\ snap' = None

\* Defect: the early return is taken when there is a set.
StoreRemoveInverted(s) ==
    /\ sets' = IF s \in DOMAIN sets THEN sets ELSE Without(sets, s)
    /\ snap' = IF s \in DOMAIN sets THEN snap ELSE None

StoreRemove(s) ==
    /\ sets' = Without(sets, s)
    /\ snap' = IF s \in DOMAIN sets THEN None ELSE snap

-----------------------------------------------------------------------------
(* Provider goroutines.                                                    *)

\* A poll of the source, as in internal/provider/file; the select may prefer
\* it to the cancelled context.
Fetch(i, hosts) ==
    /\ inst[i].at = "idle"
    /\ inst' = [inst EXCEPT ![i].at = "fetched", ![i].hosts = hosts]
    /\ UNCHANGED <<cancelled, active, sets, snap, job, giveUps, failed, abandoned>>

Deliver(i) ==
    /\ inst[i].at = "fetched"
    /\ inst' = [inst EXCEPT ![i].at = "idle", ![i].hosts = {}]
    /\ StoreReplace(inst[i].src, [hosts |-> inst[i].hosts, prio |-> inst[i].conf.prio])
    /\ UNCHANGED <<cancelled, active, job, giveUps, failed, abandoned>>

\* Run returns; stop may be waiting for it.
Exit(i) ==
    /\ inst[i].at = "idle"
    /\ inst[i].cancelled \/ cancelled
    /\ inst' = IF i \in job["config"].wait \cup job["shutdown"].wait \/ ~inst[i].cancelled
               THEN [inst EXCEPT ![i].at = "exited"]
               ELSE Without(inst, i)
    /\ UNCHANGED <<cancelled, active, sets, snap, job, giveUps, failed, abandoned>>

-----------------------------------------------------------------------------
(* stop, for both callers: unregister and cancel, then wait or give up.    *)

Unregister(a) ==
    /\ job[a].at = "stop"
    /\ LET s == job[a].src IN
       IF s \in DOMAIN active
       THEN /\ active' = Without(active, s)
            /\ inst' = [inst EXCEPT ![active[s]].cancelled = TRUE]
            /\ job' = [job EXCEPT ![a].at = "wait", ![a].wait = {active[s]}]
       ELSE /\ job' = [job EXCEPT ![a].at = "stopped"]
            /\ UNCHANGED <<active, inst>>
    /\ UNCHANGED <<cancelled, sets, snap, giveUps, failed, abandoned>>

\* Defect: stop does not wait for the goroutine.
JoinedAtOnce(a) ==
    /\ job[a].at = "wait"
    /\ job' = [job EXCEPT ![a].at = "stopped", ![a].wait = {}]
    /\ UNCHANGED <<cancelled, active, inst, sets, snap, giveUps, failed, abandoned>>

Joined(a) ==
    /\ job[a].at = "wait"
    /\ \A i \in job[a].wait : inst[i].at = "exited"
    /\ inst' = [i \in DOMAIN inst \ job[a].wait |-> inst[i]]
    /\ job' = [job EXCEPT ![a].at = "stopped", ![a].wait = {}]
    /\ UNCHANGED <<cancelled, active, sets, snap, giveUps, failed, abandoned>>

GiveUp(a) ==
    /\ job[a].at = "wait" /\ giveUps < MaxGiveUps
    /\ giveUps' = giveUps + 1
    /\ abandoned' = abandoned \cup {job[a].src}
    /\ job' = [job EXCEPT ![a].at = "stopped", ![a].wait = {}]
    /\ UNCHANGED <<cancelled, active, inst, sets, snap, failed>>

-----------------------------------------------------------------------------
(* Apply: the sources one after another, in the order the map yields.      *)

Apply(want) ==
    /\ job["config"].at = "idle"
    /\ job' = [job EXCEPT !["config"] = [NoJob EXCEPT !.at = "loop",
                                            !.todo = Source, !.want = want]]
    /\ UNCHANGED <<cancelled, active, inst, sets, snap, giveUps, failed, abandoned>>

\* What is decided for source s, under the lock.
Wants(s)   == job["config"].want[s]
Decided(s) == job["config"].at = "loop" /\ s \in job["config"].todo
Todo(s)    == [job["config"] EXCEPT !.at = "loop", !.todo = @ \ {s}, !.src = Off]

Skip(s) ==
    /\ Decided(s)
    /\ \/ Wants(s) = Off /\ s \notin DOMAIN active
       \/ Wants(s) # Off /\ s \in DOMAIN active /\ inst[active[s]].conf = Wants(s)
    /\ job' = [job EXCEPT !["config"] = Todo(s)]
    /\ UNCHANGED <<cancelled, active, inst, sets, snap, giveUps, failed, abandoned>>

\* Defect: a source whose configuration changed is left running.
ChangeDisabled(s) ==
    /\ Decided(s) /\ s \in DOMAIN active /\ inst[active[s]].conf # Wants(s)
    /\ job' = IF Wants(s) = Off
              THEN [job EXCEPT !["config"].at = "stop", !["config"].src = s]
              ELSE [job EXCEPT !["config"] = Todo(s)]
    /\ UNCHANGED <<cancelled, active, inst, sets, snap, giveUps, failed, abandoned>>

\* A running source is disabled or has another configuration: stop it.
Change(s) ==
    /\ Decided(s) /\ s \in DOMAIN active /\ inst[active[s]].conf # Wants(s)
    /\ job' = [job EXCEPT !["config"].at = "stop", !["config"].src = s]
    /\ UNCHANGED <<cancelled, active, inst, sets, snap, giveUps, failed, abandoned>>

Disabled(s) ==
    /\ job["config"].at = "stopped" /\ job["config"].src = s /\ Wants(s) = Off
    /\ StoreRemove(s)
    /\ job' = [job EXCEPT !["config"] = Todo(s)]
    /\ UNCHANGED <<cancelled, active, inst, giveUps, failed, abandoned>>

\* start, of a source that was not running or has been stopped.
Start(s) ==
    /\ \/ Decided(s) /\ s \notin DOMAIN active
       \/ job["config"].at = "stopped" /\ job["config"].src = s
    /\ Wants(s) # Off
    /\ \/ /\ Wants(s).ok
          /\ \E i \in Instance \ DOMAIN inst :
                 /\ active' = With(active, s, i)
                 /\ inst' = With(inst, i, [src |-> s, conf |-> Wants(s),
                                cancelled |-> FALSE, at |-> "idle", hosts |-> {}])
          /\ job' = [job EXCEPT !["config"] = Todo(s)]
          /\ failed' = failed \ {s}
       \/ /\ ~Wants(s).ok
          /\ job' = [job EXCEPT !["config"] = [Todo(s) EXCEPT !.err = TRUE]]
          /\ failed' = failed \cup {s}
          /\ UNCHANGED <<active, inst>>
    /\ UNCHANGED <<cancelled, sets, snap, giveUps, abandoned>>

Applied ==
    /\ job["config"].at = "loop" /\ job["config"].todo = {}
    /\ job' = [job EXCEPT !["config"] = NoJob]
    /\ UNCHANGED <<cancelled, active, inst, sets, snap, giveUps, failed, abandoned>>

-----------------------------------------------------------------------------
(* Shutdown.                                                               *)

Cancel ==
    /\ ~cancelled /\ cancelled' = TRUE
    /\ UNCHANGED <<active, inst, sets, snap, job, giveUps, failed, abandoned>>

Stop ==
    /\ cancelled /\ job["shutdown"].at = "idle"
    /\ job' = [job EXCEPT !["shutdown"].at = "loop",
                          !["shutdown"].todo = DOMAIN active]
    /\ UNCHANGED <<cancelled, active, inst, sets, snap, giveUps, failed, abandoned>>

StopNext(s) ==
    /\ job["shutdown"].at \in {"loop", "stopped"} /\ s \in job["shutdown"].todo
    /\ job' = [job EXCEPT !["shutdown"].at = "stop", !["shutdown"].src = s,
                          !["shutdown"].todo = @ \ {s}]
    /\ UNCHANGED <<cancelled, active, inst, sets, snap, giveUps, failed, abandoned>>

Next ==
    \/ \E w \in Wanted : Apply(w)
    \/ \E s \in Source : Skip(s) \/ Change(s) \/ Disabled(s) \/ Start(s) \/ StopNext(s)
    \/ \E a \in Actor : Unregister(a) \/ Joined(a) \/ GiveUp(a)
    \/ \E i \in DOMAIN inst : \/ Deliver(i) \/ Exit(i)
                              \/ \E hosts \in Documents : Fetch(i, hosts)
    \/ Snapshot \/ Applied \/ Cancel \/ Stop

Spec == Init /\ [][Next]_vars

-----------------------------------------------------------------------------
(* Properties.                                                             *)

\* The type of the manager, its providers and the inventory.
TypeOK ==
    /\ DOMAIN active \subseteq Source /\ DOMAIN inst \subseteq Instance
    /\ \A s \in DOMAIN active : active[s] \in DOMAIN inst /\ inst[active[s]].src = s
    /\ \A i \in DOMAIN inst :
           /\ inst[i].src \in Source /\ inst[i].conf \in {w[inst[i].src] : w \in Wanted}
           /\ inst[i].cancelled \in BOOLEAN
           /\ inst[i].at \in {"idle", "fetched", "exited"}
           /\ inst[i].hosts \in Documents \cup {{}}
    /\ \A s \in DOMAIN sets : s \in Source /\ sets[s].hosts \in Documents
    /\ \A a \in Actor : /\ job[a].at \in {"idle", "loop", "stop", "wait", "stopped"}
                        /\ job[a].todo \subseteq Source
                        /\ job[a].wait \subseteq DOMAIN inst
    /\ cancelled \in BOOLEAN /\ giveUps \in 0..MaxGiveUps
    /\ failed \subseteq Source /\ abandoned \subseteq Source

\* The inventory is the union of the delivered sets, and whatever the order
\* in which the map yields them, a host's record is that of a source with
\* the highest priority among those that know it now, also in a snapshot
\* that was cached before.
SnapshotFaithful ==
    snap # None =>
        /\ DOMAIN snap = UNION {sets[s].hosts : s \in DOMAIN sets}
        /\ \A h \in DOMAIN snap :
               /\ snap[h].src \in DOMAIN sets
               /\ h \in sets[snap[h].src].hosts
               /\ \A s \in DOMAIN sets : h \in sets[s].hosts =>
                      sets[s].prio <= sets[snap[h].src].prio

\* A restarted source never has two goroutines that deliver, unless the old
\* one outlived the ten seconds stop waits: an older set cannot replace a
\* newer one.
SingleWriter ==
    ~cancelled => \A i, j \in DOMAIN inst :
        \/ i = j \/ inst[i].src # inst[j].src
        \/ inst[i].at = "exited" \/ inst[j].at = "exited"
        \/ inst[i].src \in abandoned

\* Apply without an error leaves exactly the enabled sources running, each
\* with its new configuration, whatever failed in earlier calls.
AppliedExact ==
    [][(Applied /\ ~cancelled /\ ~job["config"].err) =>
          \A s \in Source :
              IF Wants(s) = Off THEN s \notin DOMAIN active
              ELSE s \in DOMAIN active /\ inst[active[s]].conf = Wants(s)]_vars

\* Hosts outlive their provider only when its restart failed or when it did
\* not stop in time.
HostsOwned ==
    ~cancelled => \A s \in DOMAIN sets :
        \/ s \in DOMAIN active \/ s = job["config"].src
        \/ s \in failed \/ s \in abandoned
=============================================================================
