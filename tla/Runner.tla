------------------------------- MODULE Runner -------------------------------
(***************************************************************************)
(* The task runner of internal/runner, with the series that               *)
(* internal/metrics keeps for its tasks.  Apply is called by the reconcile *)
(* loop and by API requests, and works in separately locked steps: compare *)
(* the running tasks with the wanted ones, stop tasks one by one, waiting  *)
(* for each goroutine, then start tasks one by one.  Run starts and stops  *)
(* the whole.                                                              *)
(*                                                                         *)
(* A Task object is told apart from the TaskKey it is registered under: a  *)
(* stopped task may still be finishing its cycle when its key is started   *)
(* again.  A probe is taken to return within stopTask's thirty seconds.    *)
(***************************************************************************)
EXTENDS Naturals, FiniteSets

CONSTANTS
    Caller,     \* who calls Apply: the loop, API requests
    Key,        \* TaskKeys of this node
    Wanted,     \* what desired may return: functions from keys to
                \* [dst, params, label]: the destination host, the address
                \* and parameters it is measured with, class and rank
    Task,       \* bound: Task objects that exist at a time
    MaxSeries   \* metrics.max_series

ASSUME SeriesAssumption == MaxSeries \in Nat \ {0}

ASSUME WantedAssumption ==
    \A w \in Wanted : DOMAIN w \subseteq Key /\
        w = [k \in DOMAIN w |-> [dst |-> w[k].dst, params |-> w[k].params,
                                label |-> w[k].label]]

VARIABLES
    ctx,        \* Runner.ctx: none before Run, then open, then cancelled
    tasks,      \* Runner.tasks: from keys to tasks
    obj,        \* the Task objects and their goroutines
    pc,         \* pc[c]: where a call of Apply, or Run's shutdown, is
    job,        \* job[c]: what it works on
    series,     \* metrics: the series that are registered
    renamed     \* series of labels that a running task had before (history)

vars == <<ctx, tasks, obj, pc, job, series, renamed>>

\* Run stops every task itself when its context is cancelled.
Stopper == Caller \cup {"run"}

NoJob == [want |-> <<>>, stop |-> {}, start |-> {}, wait |-> {}, alone |-> TRUE]

Init ==
    /\ ctx = "none"
    /\ tasks = <<>> /\ obj = <<>>
    /\ pc = [c \in Stopper |-> "idle"]
    /\ job = [c \in Stopper |-> NoJob]
    /\ series = {} /\ renamed = {}

-----------------------------------------------------------------------------
(* Apply.                                                                  *)

\* Defect: a new address or new parameters do not restart a task.
MeasuresHost(spec) == spec.dst

\* ident and Params: what makes a running task another task.
Measures(spec) == <<spec.dst, spec.params>>

\* The labels of a task's series.
SeriesOf(t) == <<obj[t].key, obj[t].spec.dst, obj[t].spec.label>>

\* The comparison, under the lock; unchanged tasks get the new class and
\* rank.  A call before Run has started does nothing.
Apply(c, want) ==
    LET kept    == {k \in DOMAIN tasks \cap DOMAIN want :
                        Measures(obj[tasks[k]].spec) = Measures(want[k])}
        others  == {d \in Caller \ {c} : pc[d] # "idle"}
        Relabelled(t) == IF obj[t].key \in kept /\ tasks[obj[t].key] = t
                         THEN [obj[t] EXCEPT !.spec.label = want[obj[t].key].label]
                         ELSE obj[t]
    IN  /\ pc[c] = "idle" /\ ctx # "none"
        /\ pc' = [pc EXCEPT ![c] = "stop"]
        /\ job' = [d \in Stopper |->
                      IF d = c
                      THEN [want |-> want, stop |-> DOMAIN tasks \ kept,
                            start |-> DOMAIN want \ kept, wait |-> {},
                            alone |-> others = {}]
                      ELSE [job[d] EXCEPT !.alone = @ /\ d \notin others]]
        /\ obj' = [t \in DOMAIN obj |-> Relabelled(t)]
        /\ renamed' = renamed \cup {SeriesOf(t) : t \in {u \in DOMAIN obj : Relabelled(u) # obj[u]}}
        /\ UNCHANGED <<ctx, tasks, series>>

\* stopTask, up to the wait: the task is unregistered and cancelled.
StopTask(c, k) ==
    /\ pc[c] = "stop" /\ k \in job[c].stop
    /\ IF k \in DOMAIN tasks
       THEN /\ tasks' = [j \in DOMAIN tasks \ {k} |-> tasks[j]]
            /\ obj' = [obj EXCEPT ![tasks[k]].cancelled = TRUE]
            /\ job' = [job EXCEPT ![c].stop = @ \ {k}, ![c].wait = {tasks[k]}]
            /\ pc' = [pc EXCEPT ![c] = "wait"]
       ELSE /\ job' = [job EXCEPT ![c].stop = @ \ {k}]
            /\ UNCHANGED <<tasks, obj, pc>>
    /\ UNCHANGED <<ctx, series, renamed>>

\* Metrics.Forget, of stopped tasks; Metrics.Observe, within max_series.
Forgotten(stopped) == series \ {SeriesOf(t) : t \in stopped}
Admitted(s) == IF Cardinality(series) < MaxSeries THEN series \cup {s} ELSE series

\* Defect: Forget runs before the goroutine has finished its cycle.
TaskStoppedEarly(c) ==
    /\ pc[c] = "wait"
    /\ series' = Forgotten(job[c].wait)
    /\ job' = [job EXCEPT ![c].wait = {}]
    /\ pc' = [pc EXCEPT ![c] = "stop"]
    /\ UNCHANGED <<ctx, tasks, obj, renamed>>

\* stopTask, after the wait: Metrics.Forget.
TaskStopped(c) ==
    /\ pc[c] = "wait"
    /\ \A t \in job[c].wait : obj[t].at = "exited"
    /\ series' = Forgotten(job[c].wait)
    /\ obj' = [t \in DOMAIN obj \ job[c].wait |-> obj[t]]
    /\ job' = [job EXCEPT ![c].wait = {}]
    /\ pc' = [pc EXCEPT ![c] = "stop"]
    /\ UNCHANGED <<ctx, tasks, renamed>>

\* Defect: startTask does not look whether the key is registered.
StartTaskOver(c, k) ==
    /\ pc[c] = "stop" /\ job[c].stop = {} /\ k \in job[c].start
    /\ job' = [job EXCEPT ![c].start = @ \ {k}]
    /\ \E t \in Task \ DOMAIN obj :
           /\ tasks' = [j \in DOMAIN tasks \cup {k} |-> IF j = k THEN t ELSE tasks[j]]
           /\ obj' = [u \in DOMAIN obj \cup {t} |->
                         IF u = t THEN [key |-> k, spec |-> job[c].want[k],
                                        cancelled |-> FALSE, at |-> "idle"]
                         ELSE obj[u]]
    /\ UNCHANGED <<ctx, pc, series, renamed>>

\* startTask: a key that is registered by now is left alone.
StartTask(c, k) ==
    /\ pc[c] = "stop" /\ job[c].stop = {} /\ k \in job[c].start
    /\ job' = [job EXCEPT ![c].start = @ \ {k}]
    /\ \/ k \in DOMAIN tasks /\ UNCHANGED <<tasks, obj>>
       \/ /\ k \notin DOMAIN tasks
          /\ \E t \in Task \ DOMAIN obj :
                 /\ tasks' = [j \in DOMAIN tasks \cup {k} |->
                                 IF j = k THEN t ELSE tasks[j]]
                 /\ obj' = [u \in DOMAIN obj \cup {t} |->
                               IF u = t THEN [key |-> k, spec |-> job[c].want[k],
                                              cancelled |-> FALSE, at |-> "idle"]
                               ELSE obj[u]]
    /\ UNCHANGED <<ctx, pc, series, renamed>>

Applied(c) ==
    /\ c \in Caller /\ pc[c] = "stop"
    /\ job[c].stop = {} /\ job[c].start = {}
    /\ pc' = [pc EXCEPT ![c] = "idle"]
    /\ job' = [job EXCEPT ![c] = NoJob]
    /\ UNCHANGED <<ctx, tasks, obj, series, renamed>>

-----------------------------------------------------------------------------
(* Task goroutines: loop and runCycle.                                     *)

Cancelled(t) == obj[t].cancelled \/ ctx = "cancelled"

\* The ticker fires; when the context is cancelled too, either may win.
Cycle(t) ==
    /\ obj[t].at = "idle"
    /\ obj' = [obj EXCEPT ![t].at = "probing"]
    /\ UNCHANGED <<ctx, tasks, pc, job, series, renamed>>

\* The cycle ends, cancelled or not, and is recorded.  Class and rank, which
\* are read without the lock, are one label: a series with the class of before
\* a refresh and the rank of after it is taken for one of the two.
Observe(t) ==
    /\ obj[t].at = "probing"
    /\ obj' = [obj EXCEPT ![t].at = "idle"]
    /\ series' = Admitted(SeriesOf(t))
    /\ UNCHANGED <<ctx, tasks, pc, job, renamed>>

Exit(t) ==
    /\ obj[t].at = "idle" /\ Cancelled(t)
    /\ obj' = [obj EXCEPT ![t].at = "exited"]
    /\ UNCHANGED <<ctx, tasks, pc, job, series, renamed>>

-----------------------------------------------------------------------------
(* Run.                                                                    *)

Start ==
    /\ ctx = "none" /\ ctx' = "open"
    /\ UNCHANGED <<tasks, obj, pc, job, series, renamed>>

Cancel ==
    /\ ctx = "open" /\ ctx' = "cancelled"
    /\ UNCHANGED <<tasks, obj, pc, job, series, renamed>>

Collect ==
    /\ ctx = "cancelled" /\ pc["run"] = "idle"
    /\ pc' = [pc EXCEPT !["run"] = "stop"]
    /\ job' = [job EXCEPT !["run"].stop = DOMAIN tasks]
    /\ UNCHANGED <<ctx, tasks, obj, series, renamed>>

\* wg.Wait: Run returns when no goroutine is left.
Return ==
    /\ pc["run"] = "stop" /\ job["run"].stop = {}
    /\ \A t \in DOMAIN obj : obj[t].at = "exited"
    /\ pc' = [pc EXCEPT !["run"] = "returned"]
    /\ UNCHANGED <<ctx, tasks, obj, job, series, renamed>>

Next ==
    \/ \E c \in Caller : Applied(c) \/ \E w \in Wanted : Apply(c, w)
    \/ \E c \in Stopper :
           TaskStopped(c) \/ \E k \in Key : StopTask(c, k) \/ StartTask(c, k)
    \/ \E t \in DOMAIN obj : Cycle(t) \/ Observe(t) \/ Exit(t)
    \/ Start \/ Cancel \/ Collect \/ Return

Spec == Init /\ [][Next]_vars

-----------------------------------------------------------------------------
(* Properties.                                                             *)

SpecType == UNION {{w[k] : k \in DOMAIN w} : w \in Wanted}

TaskType == [key : Key, spec : SpecType, cancelled : BOOLEAN,
             at : {"idle", "probing", "exited"}]

\* The type of the runner and of the calls that work on it.
TypeOK ==
    /\ ctx \in {"none", "open", "cancelled"}
    /\ DOMAIN obj \subseteq Task
    /\ \A t \in DOMAIN obj : obj[t] \in TaskType
    /\ DOMAIN tasks \subseteq Key
    /\ \A k \in DOMAIN tasks : tasks[k] \in DOMAIN obj
    /\ pc \in [Stopper -> {"idle", "stop", "wait", "returned"}]
    /\ \A c \in Stopper : /\ job[c].stop \subseteq Key
                           /\ job[c].start \subseteq DOMAIN job[c].want
                           /\ job[c].wait \subseteq DOMAIN obj

\* However calls of Apply and the shutdown interleave, a goroutine that was
\* not told to stop is the one registered for its key: no measurement runs
\* twice, and none is lost to the runner so that nobody can stop it.
Registered(t) == obj[t].key \in DOMAIN tasks /\ tasks[obj[t].key] = t

NoLeakedTask == \A t \in DOMAIN obj : Registered(t) \/ obj[t].cancelled

\* A call that met no other leaves exactly the tasks it was given, each
\* with its destination, parameters, class and rank, whatever mixture
\* earlier calls that did meet had left.
ApplyExact ==
    [][\A c \in Caller : (Applied(c) /\ job[c].alone /\ ctx = "open") =>
          [k \in DOMAIN tasks |-> obj[tasks[k]].spec] = job[c].want]_vars

\* docs/tech_spec.md:497: "When a task stops, its metric series are deleted
\* from the registry.  A replaced host leaves nothing stale behind": every
\* series is that of a task that is registered or still being stopped, but for
\* those of labels that were refreshed in place while their task ran.
NoStaleSeries ==
    \A s \in series \ renamed : \E t \in DOMAIN obj :
        /\ SeriesOf(t) = s
        /\ Registered(t) \/ \E c \in Stopper : t \in job[c].wait
=============================================================================
