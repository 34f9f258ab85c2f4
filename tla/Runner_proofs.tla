---------------------------- MODULE Runner_proofs ----------------------------
(* Proofs about the task runner, for every set of callers of Apply, every   *)
(* set of task keys and every sequence of task sets they are given.         *)
EXTENDS Runner, TLAPS

(***************************************************************************)
(* The inductive invariant.  A registered task carries its key and has not *)
(* been told to stop; whoever waits for a task has told it to, and nobody  *)
(* else waits for it, so that it can be dropped when the wait is over.     *)
(***************************************************************************)
JobType == [want : Wanted \cup {<<>>}, stop : SUBSET Key, start : SUBSET Key,
            wait : SUBSET Task, alone : BOOLEAN]

Owned ==
    \A k \in DOMAIN tasks : obj[tasks[k]].key = k /\ ~obj[tasks[k]].cancelled

Waited ==
    \A c \in Stopper : \A t \in job[c].wait :
        /\ obj[t].cancelled
        /\ \A d \in Stopper \ {c} : t \notin job[d].wait

IInv == /\ job \in [Stopper -> JobType]
        /\ TypeOK
        /\ Owned
        /\ Waited
        /\ NoLeakedTask

LEMMA InitIInv ==
    Init => IInv
<1> SUFFICES ASSUME Init
             PROVE  IInv
  OBVIOUS
<1>1. DOMAIN <<>> = {}
  OBVIOUS
<1>2. NoJob \in JobType
  BY DEF NoJob, JobType
<1>3. job \in [Stopper -> JobType]
  BY <1>2 DEF Init
<1>4. TypeOK
  BY <1>1 DEF Init, TypeOK, NoJob
<1> QED
  BY <1>1, <1>3, <1>4 DEF Init, IInv, Owned, Waited, NoLeakedTask, NoJob

-----------------------------------------------------------------------------
(* The task set a call is given, and the labels it refreshes.               *)

LEMMA WantedSpec ==
    ASSUME NEW w \in Wanted, NEW k \in DOMAIN w
    PROVE  /\ k \in Key
           /\ w[k] \in SpecType
           /\ w[k] = [dst |-> w[k].dst, params |-> w[k].params, label |-> w[k].label]
BY WantedAssumption DEF SpecType

LEMMA RefreshedSpec ==
    ASSUME NEW s \in SpecType, NEW w \in Wanted, NEW k \in DOMAIN w,
           Measures(s) = Measures(w[k])
    PROVE  [s EXCEPT !.label = w[k].label] = w[k]
<1>1. PICK v \in Wanted : \E j \in DOMAIN v : s = v[j]
  BY DEF SpecType
<1>2. s = [dst |-> s.dst, params |-> s.params, label |-> s.label]
  BY <1>1, WantedSpec
<1>3. [s EXCEPT !.label = w[k].label]
          = [dst |-> s.dst, params |-> s.params, label |-> w[k].label]
  BY <1>2
<1> QED
  BY <1>3, WantedSpec DEF Measures

LEMMA ApplyOK ==
    ASSUME IInv, NEW c \in Caller, NEW want \in Wanted, Apply(c, want)
    PROVE  IInv'
<1> DEFINE kept == {k \in DOMAIN tasks \cap DOMAIN want :
                        Measures(obj[tasks[k]].spec) = Measures(want[k])}
           New(t) == IF obj[t].key \in kept /\ tasks[obj[t].key] = t
                     THEN [obj[t] EXCEPT !.spec.label = want[obj[t].key].label]
                     ELSE obj[t]
<1>1. /\ tasks' = tasks /\ ctx' = ctx
      /\ obj' = [t \in DOMAIN obj |-> New(t)]
      /\ pc' = [pc EXCEPT ![c] = "stop"]
  BY DEF Apply
<1>2. ASSUME NEW t \in DOMAIN obj
      PROVE  /\ New(t) \in TaskType
             /\ New(t).key = obj[t].key
             /\ New(t).cancelled = obj[t].cancelled
  <2>1. obj[t] \in TaskType
    BY DEF IInv, TypeOK
  <2>2. CASE obj[t].key \in kept /\ tasks[obj[t].key] = t
    <3> DEFINE k == obj[t].key
    <3>1. [obj[t].spec EXCEPT !.label = want[k].label] = want[k]
      <4>1. obj[t].spec \in SpecType /\ k \in DOMAIN want
            /\ Measures(obj[t].spec) = Measures(want[k])
        BY <2>1, <2>2 DEF TaskType
      <4> HIDE DEF k
      <4> QED BY <4>1, RefreshedSpec
    <3>2. want[k] \in SpecType
      BY <2>2, WantedSpec
    <3>3. New(t) = [obj[t] EXCEPT !.spec = want[k]]
      BY <2>1, <2>2, <3>1 DEF TaskType
    <3> HIDE DEF New, k
    <3> QED BY <2>1, <3>2, <3>3 DEF TaskType
  <2> QED BY <2>1, <2>2
<1>3. /\ DOMAIN obj' = DOMAIN obj
      /\ \A t \in DOMAIN obj : /\ obj'[t] \in TaskType
                               /\ obj'[t].key = obj[t].key
                               /\ obj'[t].cancelled = obj[t].cancelled
  <2> HIDE DEF New
  <2> QED BY <1>1, <1>2
<1>4. /\ job' \in [Stopper -> JobType]
      /\ \A d \in Stopper : job'[d].wait \subseteq job[d].wait
      /\ \A d \in Stopper : job'[d].start \subseteq DOMAIN job'[d].want
  <2> DEFINE others == {d \in Caller \ {c} : pc[d] # "idle"}
             new == [want |-> want, stop |-> DOMAIN tasks \ kept,
                     start |-> DOMAIN want \ kept, wait |-> {},
                     alone |-> others = {}]
             Met(d) == [job[d] EXCEPT !.alone = @ /\ d \notin others]
  <2>1. job' = [d \in Stopper |-> IF d = c THEN new ELSE Met(d)]
    BY DEF Apply
  <2>2. DOMAIN want \subseteq Key
    BY WantedAssumption
  <2>3. new \in JobType
    BY <2>2 DEF JobType, IInv, TypeOK
  <2>4. ASSUME NEW d \in Stopper
        PROVE  /\ Met(d) \in JobType /\ Met(d).wait = job[d].wait
               /\ Met(d).start = job[d].start /\ Met(d).want = job[d].want
    <3>1. job[d] \in JobType
      BY DEF IInv
    <3>2. (job[d].alone /\ d \notin others) \in BOOLEAN
      OBVIOUS
    <3> HIDE DEF others
    <3> QED BY <3>1, <3>2 DEF JobType
  <2>5. \A d \in Stopper : job[d].start \subseteq DOMAIN job[d].want
    BY DEF IInv, TypeOK
  <2>6. new.wait = {} /\ new.want = want /\ new.start \subseteq DOMAIN want
    OBVIOUS
  <2> HIDE DEF new, Met
  <2> QED BY <2>1, <2>3, <2>4, <2>5, <2>6
<1>5. TypeOK'
  BY <1>1, <1>3, <1>4 DEF IInv, TypeOK, JobType, Stopper
<1>6. Owned' /\ Waited' /\ NoLeakedTask'
  <2>1. Owned'
    BY <1>1, <1>3 DEF IInv, TypeOK, Owned
  <2>2. Waited'
    BY <1>1, <1>3, <1>4 DEF IInv, TypeOK, Waited
  <2>3. NoLeakedTask'
    BY <1>1, <1>3 DEF IInv, TypeOK, NoLeakedTask, Registered
  <2> QED BY <2>1, <2>2, <2>3
<1> QED
  BY <1>4, <1>5, <1>6 DEF IInv

-----------------------------------------------------------------------------
(* The steps that stop and start tasks.                                     *)

LEMMA StopTaskOK ==
    ASSUME IInv, NEW c \in Stopper, NEW k \in Key, StopTask(c, k)
    PROVE  IInv'
<1>1. CASE k \in DOMAIN tasks
  <2> DEFINE u == tasks[k]
  <2>1. /\ tasks' = [j \in DOMAIN tasks \ {k} |-> tasks[j]]
        /\ obj' = [obj EXCEPT ![u].cancelled = TRUE]
        /\ job' = [job EXCEPT ![c].stop = @ \ {k}, ![c].wait = {u}]
        /\ pc' = [pc EXCEPT ![c] = "wait"]
        /\ ctx' = ctx
    BY <1>1 DEF StopTask
  <2>2. u \in DOMAIN obj /\ obj[u].key = k /\ ~obj[u].cancelled
    BY <1>1 DEF IInv, TypeOK, Owned
  <2>3. /\ DOMAIN obj' = DOMAIN obj /\ obj'[u].cancelled
        /\ \A t \in DOMAIN obj : /\ obj'[t] \in TaskType
                                 /\ obj'[t].key = obj[t].key
                                 /\ obj[t].cancelled => obj'[t].cancelled
                                 /\ t # u => obj'[t] = obj[t]
    <3>1. \A t \in DOMAIN obj : obj[t] \in TaskType
      BY DEF IInv, TypeOK
    <3> HIDE DEF u
    <3> QED BY <2>1, <2>2, <3>1 DEF TaskType
  <2>4. /\ job' \in [Stopper -> JobType]
        /\ job'[c].wait = {u}
        /\ \A d \in Stopper : /\ job'[d].start = job[d].start
                              /\ job'[d].want = job[d].want
                              /\ d # c => job'[d].wait = job[d].wait
    <3>1. job \in [Stopper -> JobType] /\ u \in Task
      BY <2>2 DEF IInv, TypeOK
    <3> HIDE DEF u
    <3> QED BY <2>1, <3>1 DEF JobType
  <2>5. \A d \in Stopper : u \notin job[d].wait
    BY <2>2 DEF IInv, Waited
  <2>6. TypeOK'
    <3>1. \A d \in Stopper : job'[d].wait \subseteq DOMAIN obj'
      BY <2>2, <2>3, <2>4 DEF IInv, TypeOK
    <3>2. \A d \in Stopper : /\ job'[d].stop \subseteq Key
                              /\ job'[d].start \subseteq DOMAIN job'[d].want
      BY <2>4 DEF IInv, TypeOK, JobType
    <3>3. pc' \in [Stopper -> {"idle", "stop", "wait", "returned"}]
      BY <2>1 DEF IInv, TypeOK
    <3>4. /\ DOMAIN tasks' \subseteq Key
          /\ \A j \in DOMAIN tasks' : tasks'[j] \in DOMAIN obj'
      BY <2>1, <2>3 DEF IInv, TypeOK
    <3> QED
      BY <2>1, <2>3, <3>1, <3>2, <3>3, <3>4 DEF IInv, TypeOK
  <2>7. Owned'
    <3>1. \A j \in DOMAIN tasks' : /\ j \in DOMAIN tasks /\ tasks'[j] = tasks[j]
                                   /\ tasks[j] # u
      BY <1>1, <2>1, <2>2 DEF IInv, Owned
    <3> QED BY <2>3, <3>1 DEF IInv, TypeOK, Owned
  <2>8. Waited'
    BY <2>2, <2>3, <2>4, <2>5 DEF IInv, TypeOK, Waited
  <2>9. NoLeakedTask'
    <3>1. ASSUME NEW t \in DOMAIN obj', t # u, ~obj'[t].cancelled
          PROVE  Registered(t)'
      <4>1. Registered(t) /\ t \in DOMAIN obj /\ obj'[t] = obj[t]
        BY <2>3, <3>1 DEF IInv, NoLeakedTask
      <4>2. obj[t].key # k
        BY <3>1, <4>1 DEF Registered
      <4> QED BY <2>1, <4>1, <4>2 DEF Registered
    <3> QED BY <2>3, <3>1 DEF NoLeakedTask
  <2> QED
    BY <2>4, <2>6, <2>7, <2>8, <2>9 DEF IInv
<1>2. CASE k \notin DOMAIN tasks
  <2>1. /\ job' = [job EXCEPT ![c].stop = @ \ {k}]
        /\ UNCHANGED <<tasks, obj, pc, ctx>>
    BY <1>2 DEF StopTask
  <2>2. /\ job' \in [Stopper -> JobType]
        /\ \A d \in Stopper : /\ job'[d].start = job[d].start
                              /\ job'[d].want = job[d].want
                              /\ job'[d].wait = job[d].wait
    BY <2>1 DEF IInv, JobType
  <2>3. TypeOK'
    BY <2>1, <2>2 DEF IInv, TypeOK, JobType
  <2> QED
    BY <2>1, <2>2, <2>3 DEF IInv, Owned, Waited, NoLeakedTask, Registered
<1> QED
  BY <1>1, <1>2

LEMMA TaskStoppedOK ==
    ASSUME IInv, NEW c \in Stopper, TaskStopped(c)
    PROVE  IInv'
<1> DEFINE gone == job[c].wait
<1>1. /\ obj' = [t \in DOMAIN obj \ gone |-> obj[t]]
      /\ job' = [job EXCEPT ![c].wait = {}]
      /\ pc' = [pc EXCEPT ![c] = "stop"]
      /\ tasks' = tasks /\ ctx' = ctx
  BY DEF TaskStopped
<1>2. /\ job' \in [Stopper -> JobType]
      /\ job'[c].wait = {}
      /\ \A d \in Stopper : /\ job'[d].start = job[d].start
                            /\ job'[d].want = job[d].want
                            /\ d # c => job'[d].wait = job[d].wait
  BY <1>1 DEF IInv, JobType
<1>3. \A t \in gone : obj[t].cancelled
  BY DEF IInv, Waited
<1>4. \A d \in Stopper : job'[d].wait \subseteq DOMAIN obj'
  <2>1. \A d \in Stopper \ {c} : job[d].wait \cap gone = {}
    BY DEF IInv, Waited
  <2> HIDE DEF gone
  <2> QED BY <1>1, <1>2, <2>1 DEF IInv, TypeOK
<1>5. \A k \in DOMAIN tasks : tasks[k] \in DOMAIN obj'
  BY <1>1, <1>3 DEF IInv, TypeOK, Owned
<1>6. /\ DOMAIN obj' \subseteq DOMAIN obj
      /\ \A t \in DOMAIN obj' : obj'[t] = obj[t]
  BY <1>1
<1> HIDE DEF gone
<1>7. TypeOK'
  BY <1>1, <1>2, <1>4, <1>5, <1>6 DEF IInv, TypeOK, JobType
<1>8. Owned'
  BY <1>1, <1>5, <1>6 DEF IInv, Owned
<1>9. Waited'
  BY <1>2, <1>4, <1>6 DEF IInv, Waited
<1>10. NoLeakedTask'
  BY <1>1, <1>6 DEF IInv, NoLeakedTask, Registered
<1> QED
  BY <1>2, <1>7, <1>8, <1>9, <1>10 DEF IInv

LEMMA StartTaskOK ==
    ASSUME IInv, NEW c \in Stopper, NEW k \in Key, StartTask(c, k)
    PROVE  IInv'
<1>1. /\ job' = [job EXCEPT ![c].start = @ \ {k}]
      /\ k \in job[c].start /\ UNCHANGED <<ctx, pc>>
  BY DEF StartTask
<1>2. /\ job' \in [Stopper -> JobType]
      /\ \A d \in Stopper : /\ job'[d].start \subseteq job[d].start
                            /\ job'[d].want = job[d].want
                            /\ job'[d].wait = job[d].wait
  BY <1>1 DEF IInv, JobType
<1>3. CASE UNCHANGED <<tasks, obj>>
  <2>1. TypeOK'
    BY <1>1, <1>2, <1>3 DEF IInv, TypeOK, JobType
  <2> QED
    BY <1>2, <1>3, <2>1 DEF IInv, Owned, Waited, NoLeakedTask, Registered
<1>4. ASSUME NEW t \in Task \ DOMAIN obj, k \notin DOMAIN tasks,
             tasks' = [j \in DOMAIN tasks \cup {k} |-> IF j = k THEN t ELSE tasks[j]],
             obj' = [u \in DOMAIN obj \cup {t} |->
                        IF u = t THEN [key |-> k, spec |-> job[c].want[k],
                                       cancelled |-> FALSE, at |-> "idle"]
                        ELSE obj[u]]
      PROVE  IInv'
  <2> DEFINE new == [key |-> k, spec |-> job[c].want[k],
                     cancelled |-> FALSE, at |-> "idle"]
  <2>1. new \in TaskType
    <3>1. k \in DOMAIN job[c].want /\ job[c].want \in Wanted \cup {<<>>}
      BY <1>1 DEF IInv, TypeOK, JobType
    <3>2. job[c].want \in Wanted
      BY <3>1
    <3>3. job[c].want[k] \in SpecType
      BY <3>1, <3>2, WantedSpec
    <3> QED BY <3>3 DEF TaskType
  <2>2. /\ DOMAIN obj' = DOMAIN obj \cup {t} /\ obj'[t] = new
        /\ \A u \in DOMAIN obj : u # t /\ obj'[u] = obj[u]
    BY <1>4
  <2>3. /\ DOMAIN tasks' = DOMAIN tasks \cup {k} /\ tasks'[k] = t
        /\ \A j \in DOMAIN tasks : j # k /\ tasks'[j] = tasks[j]
    BY <1>4
  <2>4. new.key = k /\ new.cancelled = FALSE
    OBVIOUS
  <2> HIDE DEF new
  <2>5. TypeOK'
    BY <1>1, <1>2, <2>1, <2>2, <2>3 DEF IInv, TypeOK, JobType
  <2>6. Owned'
    BY <2>2, <2>3, <2>4 DEF IInv, TypeOK, Owned
  <2>7. Waited'
    BY <1>2, <2>2 DEF IInv, TypeOK, Waited
  <2>8. NoLeakedTask'
    <3>1. Registered(t)'
      BY <2>2, <2>3, <2>4 DEF Registered
    <3>2. \A u \in DOMAIN obj : Registered(u) => Registered(u)'
      BY <2>2, <2>3 DEF Registered
    <3> QED BY <2>2, <3>1, <3>2 DEF IInv, NoLeakedTask
  <2> QED
    BY <1>2, <2>5, <2>6, <2>7, <2>8 DEF IInv
<1> QED
  BY <1>3, <1>4 DEF StartTask

LEMMA AppliedOK ==
    ASSUME IInv, NEW c \in Stopper, Applied(c)
    PROVE  IInv'
<1>1. /\ job' = [job EXCEPT ![c] = NoJob]
      /\ pc' = [pc EXCEPT ![c] = "idle"]
      /\ UNCHANGED <<ctx, tasks, obj, series>>
  BY DEF Applied
<1>2. NoJob \in JobType /\ NoJob.wait = {} /\ NoJob.start = {}
  BY DEF NoJob, JobType
<1>3. /\ job' \in [Stopper -> JobType]
      /\ \A d \in Stopper : /\ job'[d].wait \subseteq job[d].wait
                            /\ job'[d].start \subseteq DOMAIN job'[d].want
  BY <1>1, <1>2 DEF IInv, TypeOK
<1>4. TypeOK'
  BY <1>1, <1>3 DEF IInv, TypeOK, JobType
<1> QED
  BY <1>1, <1>3, <1>4 DEF IInv, Owned, Waited, NoLeakedTask, Registered

-----------------------------------------------------------------------------
(* The task goroutines, and Run.                                            *)

LEMMA GoroutineOK ==
    ASSUME IInv, NEW t \in DOMAIN obj, Cycle(t) \/ Observe(t) \/ Exit(t)
    PROVE  IInv'
<1>1. PICK a \in {"idle", "probing", "exited"} : obj' = [obj EXCEPT ![t].at = a]
  BY DEF Cycle, Observe, Exit
<1>2. UNCHANGED <<ctx, tasks, pc, job>>
  BY DEF Cycle, Observe, Exit
<1>3. /\ DOMAIN obj' = DOMAIN obj
      /\ \A u \in DOMAIN obj : /\ obj'[u] \in TaskType
                               /\ obj'[u].key = obj[u].key
                               /\ obj'[u].cancelled = obj[u].cancelled
  BY <1>1 DEF IInv, TypeOK, TaskType
<1>4. TypeOK'
  BY <1>2, <1>3 DEF IInv, TypeOK
<1>5. Owned' /\ Waited' /\ NoLeakedTask'
  BY <1>2, <1>3 DEF IInv, TypeOK, Owned, Waited, NoLeakedTask, Registered
<1> QED
  BY <1>2, <1>4, <1>5 DEF IInv

LEMMA RunOK ==
    ASSUME IInv, Start \/ Cancel \/ Collect \/ Return
    PROVE  IInv'
<1>1. UNCHANGED <<tasks, obj, series>>
  BY DEF Start, Cancel, Collect, Return
<1>2. "run" \in Stopper
  BY DEF Stopper
<1>3. ctx' \in {"none", "open", "cancelled"}
  BY DEF Start, Cancel, Collect, Return, IInv, TypeOK
<1>4. pc' \in [Stopper -> {"idle", "stop", "wait", "returned"}]
  BY <1>2 DEF Start, Cancel, Collect, Return, IInv, TypeOK
<1>5. /\ job' \in [Stopper -> JobType]
      /\ \A d \in Stopper : /\ job'[d].wait = job[d].wait
                            /\ job'[d].start = job[d].start
                            /\ job'[d].want = job[d].want
  BY <1>2 DEF Start, Cancel, Collect, Return, IInv, TypeOK, JobType
<1>6. TypeOK'
  BY <1>1, <1>3, <1>4, <1>5 DEF IInv, TypeOK, JobType
<1> QED
  BY <1>1, <1>5, <1>6 DEF IInv, Owned, Waited, NoLeakedTask, Registered

-----------------------------------------------------------------------------
(* The theorems.                                                            *)

LEMMA NextIInv ==
    IInv /\ [Next]_vars => IInv'
<1> SUFFICES ASSUME IInv, [Next]_vars
             PROVE  IInv'
  OBVIOUS
<1>1. ASSUME NEW c \in Caller, NEW w \in Wanted, Apply(c, w)
      PROVE  IInv'
  BY <1>1, ApplyOK
<1>2. ASSUME NEW c \in Caller, Applied(c)
      PROVE  IInv'
  BY <1>2, AppliedOK DEF Stopper
<1>3. ASSUME NEW c \in Stopper, NEW k \in Key, StopTask(c, k) \/ StartTask(c, k)
      PROVE  IInv'
  BY <1>3, StopTaskOK, StartTaskOK
<1>4. ASSUME NEW c \in Stopper, TaskStopped(c)
      PROVE  IInv'
  BY <1>4, TaskStoppedOK
<1>5. ASSUME NEW t \in DOMAIN obj, Cycle(t) \/ Observe(t) \/ Exit(t)
      PROVE  IInv'
  BY <1>5, GoroutineOK
<1>6. CASE Start \/ Cancel \/ Collect \/ Return
  BY <1>6, RunOK
<1>7. CASE UNCHANGED vars
  BY <1>7 DEF vars, IInv, TypeOK, Owned, Waited, NoLeakedTask, Registered
<1> QED
  BY <1>1, <1>2, <1>3, <1>4, <1>5, <1>6, <1>7 DEF Next

\* The inductive invariant holds in every reachable state of the runner.
THEOREM Inductive == Spec => []IInv
BY InitIInv, NextIInv, PTL DEF Spec

\* The runner, its tasks and its calls are well typed.
THEOREM TypeCorrect == Spec => []TypeOK
<1>1. IInv => TypeOK
  BY DEF IInv
<1> QED BY Inductive, <1>1, PTL

\* Whatever calls of Apply and the shutdown overlap, every task goroutine is
\* registered for its key or has been told to stop.
THEOREM NoTaskLeaks == Spec => []NoLeakedTask
<1>1. IInv => NoLeakedTask
  BY DEF IInv
<1> QED BY Inductive, <1>1, PTL
-----------------------------------------------------------------------------
(* The series.  Whoever waits for a task is in the wait, so that a task that *)
(* is neither registered nor waited for has been dropped, its series with it. *)

Idle == \A c \in Stopper : pc[c] # "wait" => job[c].wait = {}

Held ==
    \A t \in DOMAIN obj : Registered(t) \/ \E c \in Stopper : t \in job[c].wait

Known == \A s \in series \ renamed : \E t \in DOMAIN obj : SeriesOf(t) = s

SInv == Idle /\ Held /\ Known

\* Apply leaves every task in place; a relabelled one has its new class and
\* rank, and its old series among the renamed ones.
LEMMA Relabelling ==
    ASSUME IInv, NEW c \in Caller, NEW want \in Wanted, Apply(c, want)
    PROVE  /\ DOMAIN obj' = DOMAIN obj
           /\ \A t \in DOMAIN obj : /\ obj'[t].key = obj[t].key
                                    /\ obj'[t] # obj[t] => SeriesOf(t) \in renamed'
           /\ renamed \subseteq renamed'
           /\ \A k \in DOMAIN tasks \ job'[c].stop :
                  /\ k \in DOMAIN want
                  /\ obj'[tasks[k]].spec = want[k]
           /\ \A k \in DOMAIN want \ job'[c].start : k \in DOMAIN tasks \ job'[c].stop
<1> DEFINE kept == {k \in DOMAIN tasks \cap DOMAIN want :
                        Measures(obj[tasks[k]].spec) = Measures(want[k])}
           New(t) == IF obj[t].key \in kept /\ tasks[obj[t].key] = t
                     THEN [obj[t] EXCEPT !.spec.label = want[obj[t].key].label]
                     ELSE obj[t]
<1>1. /\ obj' = [t \in DOMAIN obj |-> New(t)]
      /\ renamed' = renamed \cup {SeriesOf(t) : t \in {u \in DOMAIN obj : New(u) # obj[u]}}
      /\ job'[c].stop = DOMAIN tasks \ kept
      /\ job'[c].start = DOMAIN want \ kept
  BY DEF Apply, Stopper
<1>2. \A t \in DOMAIN obj : obj[t] \in TaskType
  BY DEF IInv, TypeOK
<1>3. \A t \in DOMAIN obj : New(t).key = obj[t].key
  BY <1>2 DEF TaskType
<1>4. ASSUME NEW k \in kept
      PROVE  New(tasks[k]).spec = want[k]
  <2>1. tasks[k] \in DOMAIN obj /\ obj[tasks[k]].key = k
    BY DEF IInv, TypeOK, Owned
  <2>2. /\ obj[tasks[k]] \in TaskType /\ k \in DOMAIN want
        /\ Measures(obj[tasks[k]].spec) = Measures(want[k])
    BY <1>2, <2>1
  <2>3. New(tasks[k]) = [obj[tasks[k]] EXCEPT !.spec.label = want[k].label]
    BY <2>1
  <2> HIDE DEF kept, New
  <2>4. obj[tasks[k]].spec \in SpecType
    BY <2>2 DEF TaskType
  <2>5. [obj[tasks[k]].spec EXCEPT !.label = want[k].label] = want[k]
    BY <2>2, <2>4, RefreshedSpec
  <2> QED BY <2>2, <2>3, <2>5 DEF TaskType
<1>5. \A k \in DOMAIN tasks : tasks[k] \in DOMAIN obj
  BY DEF IInv, TypeOK
<1>6. kept \subseteq DOMAIN tasks \cap DOMAIN want
  OBVIOUS
<1> HIDE DEF kept, New
<1> QED BY <1>1, <1>3, <1>4, <1>5, <1>6

LEMMA ApplySeries ==
    ASSUME IInv, SInv, NEW c \in Caller, NEW want \in Wanted, Apply(c, want)
    PROVE  SInv'
<1>1. /\ tasks' = tasks /\ series' = series
      /\ pc[c] = "idle" /\ pc' = [pc EXCEPT ![c] = "stop"]
      /\ c \in Stopper /\ pc \in [Stopper -> {"idle", "stop", "wait", "returned"}]
  BY DEF Apply, Stopper, IInv, TypeOK
<1>2. \A d \in Stopper : job'[d].wait = job[d].wait
  <2>1. job'[c].wait = {} /\ job[c].wait = {}
    BY <1>1 DEF Apply, SInv, Idle
  <2>2. ASSUME NEW d \in Stopper, d # c
        PROVE  job'[d].wait = job[d].wait
    <3> DEFINE others == {e \in Caller \ {c} : pc[e] # "idle"}
    <3>1. job'[d] = [job[d] EXCEPT !.alone = @ /\ d \notin others]
      BY <2>2 DEF Apply
    <3>2. job[d] \in JobType
      BY DEF IInv
    <3> HIDE DEF others
    <3> QED BY <3>1, <3>2 DEF JobType
  <2> QED BY <2>1, <2>2
<1>3. Idle'
  BY <1>1, <1>2 DEF SInv, Idle
<1>4. Held'
  BY <1>1, <1>2, Relabelling DEF SInv, Held, Registered
<1>5. Known'
  <2>1. ASSUME NEW s \in series' \ renamed'
        PROVE  \E t \in DOMAIN obj' : SeriesOf(t)' = s
    <3>1. s \in series \ renamed
      BY <1>1, Relabelling
    <3>2. PICK t \in DOMAIN obj : SeriesOf(t) = s
      BY <3>1 DEF SInv, Known
    <3>3. obj'[t] = obj[t] /\ t \in DOMAIN obj'
      BY <3>2, Relabelling
    <3> QED BY <3>2, <3>3 DEF SeriesOf
  <2> QED BY <2>1 DEF Known
<1> QED BY <1>3, <1>4, <1>5 DEF SInv

LEMMA StopTaskSeries ==
    ASSUME IInv, SInv, NEW c \in Stopper, NEW k \in Key, StopTask(c, k)
    PROVE  SInv'
<1>1. CASE k \in DOMAIN tasks
  <2> DEFINE u == tasks[k]
  <2>1. /\ tasks' = [j \in DOMAIN tasks \ {k} |-> tasks[j]]
        /\ obj' = [obj EXCEPT ![u].cancelled = TRUE]
        /\ job' = [job EXCEPT ![c].stop = @ \ {k}, ![c].wait = {u}]
        /\ pc[c] = "stop" /\ pc' = [pc EXCEPT ![c] = "wait"]
        /\ UNCHANGED <<series, renamed>>
    BY <1>1 DEF StopTask
  <2>2. /\ DOMAIN obj' = DOMAIN obj
        /\ \A t \in DOMAIN obj : obj'[t].key = obj[t].key /\ obj'[t].spec = obj[t].spec
    BY <2>1 DEF IInv, TypeOK, TaskType
  <2>3. /\ job'[c].wait = {u} /\ job[c].wait = {}
        /\ \A d \in Stopper : d # c => job'[d].wait = job[d].wait
    BY <2>1 DEF IInv, JobType, SInv, Idle
  <2> HIDE DEF u
  <2>4. Idle'
    BY <2>1, <2>3 DEF IInv, TypeOK, SInv, Idle
  <2>5. Held'
    <3>1. ASSUME NEW t \in DOMAIN obj, t # u, Registered(t)
          PROVE  Registered(t)'
      BY <2>1, <2>2, <3>1 DEF Registered, u
    <3>2. ASSUME NEW t \in DOMAIN obj, NEW d \in Stopper, t \in job[d].wait
          PROVE  t \in job'[d].wait
      BY <2>3, <3>2
    <3> QED BY <2>2, <2>3, <3>1, <3>2 DEF SInv, Held
  <2>6. Known'
    BY <2>1, <2>2 DEF SInv, Known, SeriesOf
  <2> QED BY <2>4, <2>5, <2>6 DEF SInv
<1>2. CASE k \notin DOMAIN tasks
  <2>1. /\ job' = [job EXCEPT ![c].stop = @ \ {k}]
        /\ UNCHANGED <<tasks, obj, pc, series, renamed>>
    BY <1>2 DEF StopTask
  <2>2. \A d \in Stopper : job'[d].wait = job[d].wait
    BY <2>1 DEF IInv, JobType
  <2> QED
    BY <2>1, <2>2 DEF SInv, Idle, Held, Known, Registered, SeriesOf
<1> QED
  BY <1>1, <1>2

LEMMA TaskStoppedSeries ==
    ASSUME IInv, SInv, NEW c \in Stopper, TaskStopped(c)
    PROVE  SInv'
<1> DEFINE gone == job[c].wait
<1>1. /\ obj' = [t \in DOMAIN obj \ gone |-> obj[t]]
      /\ job' = [job EXCEPT ![c].wait = {}]
      /\ pc' = [pc EXCEPT ![c] = "stop"]
      /\ series' = series \ {SeriesOf(t) : t \in gone}
      /\ tasks' = tasks /\ renamed' = renamed
  BY DEF TaskStopped, Forgotten
<1>2. /\ job'[c].wait = {}
      /\ \A d \in Stopper : d # c => job'[d].wait = job[d].wait
  BY <1>1 DEF IInv, JobType
<1>3. Idle'
  BY <1>1, <1>2 DEF SInv, Idle, IInv, TypeOK
<1>4. Held'
  <2>1. ASSUME NEW t \in DOMAIN obj'
        PROVE  Registered(t)' \/ \E d \in Stopper : t \in job'[d].wait
    <3>1. t \in DOMAIN obj /\ t \notin gone /\ obj'[t] = obj[t]
      BY <1>1
    <3>2. CASE Registered(t)
      BY <1>1, <3>1, <3>2 DEF Registered
    <3>3. ASSUME NEW d \in Stopper, t \in job[d].wait
          PROVE  t \in job'[d].wait
      BY <1>2, <3>1, <3>3
    <3> QED BY <3>1, <3>2, <3>3 DEF SInv, Held
  <2> QED BY <2>1 DEF Held
<1>5. Known'
  <2>1. ASSUME NEW s \in series' \ renamed'
        PROVE  \E t \in DOMAIN obj' : SeriesOf(t)' = s
    <3>1. PICK t \in DOMAIN obj : SeriesOf(t) = s
      BY <1>1 DEF SInv, Known
    <3>2. t \notin gone
      BY <1>1, <3>1
    <3> QED BY <1>1, <3>1, <3>2 DEF SeriesOf
  <2> QED BY <2>1 DEF Known
<1> QED BY <1>3, <1>4, <1>5 DEF SInv

LEMMA StartTaskSeries ==
    ASSUME IInv, SInv, NEW c \in Stopper, NEW k \in Key, StartTask(c, k)
    PROVE  SInv'
<1>1. /\ job' = [job EXCEPT ![c].start = @ \ {k}]
      /\ UNCHANGED <<pc, series, renamed>>
  BY DEF StartTask
<1>2. \A d \in Stopper : job'[d].wait = job[d].wait
  BY <1>1 DEF IInv, JobType
<1>3. Idle'
  BY <1>1, <1>2 DEF SInv, Idle
<1>4. CASE UNCHANGED <<tasks, obj>>
  BY <1>1, <1>2, <1>3, <1>4 DEF SInv, Held, Known, Registered, SeriesOf
<1>5. ASSUME NEW t \in Task \ DOMAIN obj, k \notin DOMAIN tasks,
             NEW new, new.key = k,
             tasks' = [j \in DOMAIN tasks \cup {k} |-> IF j = k THEN t ELSE tasks[j]],
             obj' = [u \in DOMAIN obj \cup {t} |-> IF u = t THEN new ELSE obj[u]]
      PROVE  SInv'
  <2>1. /\ DOMAIN obj' = DOMAIN obj \cup {t} /\ obj'[t] = new
        /\ \A u \in DOMAIN obj : obj'[u] = obj[u]
    BY <1>5
  <2>2. Held'
    <3>1. Registered(t)'
      BY <1>5, <2>1 DEF Registered
    <3>2. \A u \in DOMAIN obj : Registered(u) => Registered(u)'
      BY <1>5, <2>1 DEF Registered
    <3> QED BY <1>2, <2>1, <3>1, <3>2 DEF SInv, Held
  <2>3. Known'
    BY <1>1, <2>1 DEF SInv, Known, SeriesOf
  <2> QED BY <1>3, <2>2, <2>3 DEF SInv
<1>6. ASSUME k \notin DOMAIN tasks,
             NEW t \in Task \ DOMAIN obj,
             tasks' = [j \in DOMAIN tasks \cup {k} |-> IF j = k THEN t ELSE tasks[j]],
             obj' = [u \in DOMAIN obj \cup {t} |->
                        IF u = t THEN [key |-> k, spec |-> job[c].want[k],
                                       cancelled |-> FALSE, at |-> "idle"]
                        ELSE obj[u]]
      PROVE  SInv'
  BY <1>5, <1>6
<1> QED
  BY <1>4, <1>6 DEF StartTask

LEMMA AppliedSeries ==
    ASSUME IInv, SInv, NEW c \in Stopper, Applied(c)
    PROVE  SInv'
<1>1. /\ job' = [job EXCEPT ![c] = NoJob]
      /\ pc[c] = "stop" /\ pc' = [pc EXCEPT ![c] = "idle"]
      /\ UNCHANGED <<tasks, obj, series, renamed>>
  BY DEF Applied
<1>2. job[c].wait = {} /\ NoJob.wait = {}
  BY <1>1 DEF SInv, Idle, NoJob
<1>3. \A d \in Stopper : job'[d].wait = job[d].wait
  BY <1>1, <1>2 DEF IInv
<1> QED
  BY <1>1, <1>2, <1>3 DEF SInv, Idle, Held, Known, Registered, SeriesOf, IInv, TypeOK

LEMMA GoroutineSeries ==
    ASSUME IInv, SInv, NEW t \in DOMAIN obj, Cycle(t) \/ Observe(t) \/ Exit(t)
    PROVE  SInv'
<1>1. PICK a \in {"idle", "probing", "exited"} : obj' = [obj EXCEPT ![t].at = a]
  BY DEF Cycle, Observe, Exit
<1>2. UNCHANGED <<tasks, pc, job, renamed>>
  BY DEF Cycle, Observe, Exit
<1>3. /\ DOMAIN obj' = DOMAIN obj
      /\ \A u \in DOMAIN obj : obj'[u].key = obj[u].key /\ obj'[u].spec = obj[u].spec
  BY <1>1 DEF IInv, TypeOK, TaskType
<1>4. series' \subseteq series \cup {SeriesOf(t)}
  BY DEF Cycle, Observe, Exit, Admitted
<1>5. \A u \in DOMAIN obj : SeriesOf(u)' = SeriesOf(u)
  BY <1>3 DEF SeriesOf
<1>6. Known'
  BY <1>2, <1>3, <1>4, <1>5 DEF SInv, Known
<1> QED
  BY <1>2, <1>3, <1>6 DEF SInv, Idle, Held, Registered

LEMMA RunSeries ==
    ASSUME IInv, SInv, Start \/ Cancel \/ Collect \/ Return
    PROVE  SInv'
<1>1. UNCHANGED <<tasks, obj, series, renamed>>
  BY DEF Start, Cancel, Collect, Return
<1>2. \A d \in Stopper : /\ job'[d].wait = job[d].wait
                         /\ pc'[d] = "wait" <=> pc[d] = "wait"
  BY DEF Start, Cancel, Collect, Return, IInv, TypeOK, JobType
<1> QED
  BY <1>1, <1>2 DEF SInv, Idle, Held, Known, Registered, SeriesOf

LEMMA NextSeries ==
    IInv /\ SInv /\ [Next]_vars => SInv'
<1> SUFFICES ASSUME IInv, SInv, [Next]_vars
             PROVE  SInv'
  OBVIOUS
<1>1. ASSUME NEW c \in Caller, NEW w \in Wanted, Apply(c, w)
      PROVE  SInv'
  BY <1>1, ApplySeries
<1>2. ASSUME NEW c \in Caller, Applied(c)
      PROVE  SInv'
  BY <1>2, AppliedSeries DEF Stopper
<1>3. ASSUME NEW c \in Stopper, NEW k \in Key, StopTask(c, k) \/ StartTask(c, k)
      PROVE  SInv'
  BY <1>3, StopTaskSeries, StartTaskSeries
<1>4. ASSUME NEW c \in Stopper, TaskStopped(c)
      PROVE  SInv'
  BY <1>4, TaskStoppedSeries
<1>5. ASSUME NEW t \in DOMAIN obj, Cycle(t) \/ Observe(t) \/ Exit(t)
      PROVE  SInv'
  BY <1>5, GoroutineSeries
<1>6. CASE Start \/ Cancel \/ Collect \/ Return
  BY <1>6, RunSeries
<1>7. CASE UNCHANGED vars
  BY <1>7 DEF vars, SInv, Idle, Held, Known, Registered, SeriesOf
<1> QED
  BY <1>1, <1>2, <1>3, <1>4, <1>5, <1>6, <1>7 DEF Next

\* A stopped task leaves no series behind: whatever overlaps, and whenever a
\* cycle is recorded, every series belongs to a task that is registered or
\* still waited for, labels that were refreshed in place aside.
THEOREM NoSeriesLeft == Spec => []NoStaleSeries
<1>1. Init => SInv
  BY DEF Init, NoJob, SInv, Idle, Held, Known
<1>2. Spec => []SInv
  BY <1>1, Inductive, NextSeries, PTL DEF Spec
<1>3. SInv => NoStaleSeries
  BY DEF SInv, Held, Known, NoStaleSeries
<1> QED BY <1>2, <1>3, PTL
-----------------------------------------------------------------------------
(* What a lone call leaves.  While a call is alone every other one is idle, *)
(* so each of its steps brings the registered tasks nearer to those it was  *)
(* given: what it will not stop is as wanted, and what is wanted and not    *)
(* there is what it will start.                                             *)

Quiet ==
    /\ ctx = "none" => \A c \in Caller : pc[c] = "idle"
    /\ ctx \in {"none", "open"} => \A d \in Stopper \ Caller : pc[d] = "idle"

Alone(c) == pc[c] \in {"stop", "wait"} /\ job[c].alone /\ ctx = "open"

Nearing(c) ==
    /\ job[c].want \in Wanted
    /\ \A k \in DOMAIN tasks \ job[c].stop :
           /\ k \in DOMAIN job[c].want
           /\ obj[tasks[k]].spec = job[c].want[k]
    /\ \A k \in DOMAIN job[c].want \ job[c].start : k \in DOMAIN tasks \ job[c].stop

AInv ==
    /\ Quiet
    /\ \A c \in Caller : Alone(c) => /\ \A d \in Caller \ {c} : pc[d] = "idle"
                                     /\ Nearing(c)

\* Whoever works while a call is alone is that call.
LEMMA Sole ==
    ASSUME AInv, NEW c \in Caller, Alone(c), NEW d \in Stopper, pc[d] # "idle"
    PROVE  d = c
BY DEF AInv, Quiet, Alone

\* Nobody works before Run has started.
LEMMA Open ==
    ASSUME AInv, NEW d \in Stopper, pc[d] # "idle"
    PROVE  /\ ctx # "none"
           /\ ctx = "open" => d \in Caller
BY DEF AInv, Quiet, Stopper

LEMMA ApplyAlone ==
    ASSUME IInv, AInv, NEW c \in Caller, NEW want \in Wanted, Apply(c, want)
    PROVE  AInv'
<1> DEFINE others == {d \in Caller \ {c} : pc[d] # "idle"}
<1>1. /\ tasks' = tasks /\ ctx' = ctx /\ ctx # "none"
      /\ pc' = [pc EXCEPT ![c] = "stop"]
      /\ c \in Stopper /\ pc \in [Stopper -> {"idle", "stop", "wait", "returned"}]
  BY DEF Apply, Stopper, IInv, TypeOK
<1>2. job'[c].want = want /\ job'[c].alone = (others = {})
  BY DEF Apply, Stopper
<1>3. \A d \in Caller \ {c} : job'[d].alone => d \notin others
  <2>1. ASSUME NEW d \in Caller \ {c}, job'[d].alone
        PROVE  d \notin others
    <3>1. job'[d] = [job[d] EXCEPT !.alone = @ /\ d \notin others]
      BY DEF Apply, Stopper
    <3>2. job[d] \in JobType
      BY DEF IInv, Stopper
    <3> HIDE DEF others
    <3>3. job'[d].alone = (job[d].alone /\ d \notin others)
      BY <3>1, <3>2 DEF JobType
    <3> QED BY <2>1, <3>3
  <2> QED BY <2>1
<1>4. Quiet'
  BY <1>1 DEF AInv, Quiet, Stopper
<1>5. Nearing(c)'
  BY <1>1, <1>2, Relabelling DEF Nearing
<1>6. ASSUME NEW d \in Caller, Alone(d)'
      PROVE  (\A e \in Caller \ {d} : pc'[e] = "idle") /\ Nearing(d)'
  <2>1. d = c
    BY <1>1, <1>3, <1>6 DEF Alone, Stopper
  <2>2. \A e \in Caller \ {c} : pc'[e] = "idle"
    BY <1>1, <1>2, <1>6, <2>1 DEF Alone, Stopper
  <2> QED BY <1>5, <2>1, <2>2
<1> QED
  BY <1>4, <1>6 DEF AInv

\* A step of a call that works on its job keeps what a lone call relies on,
\* when it brings the tasks nearer.
LEMMA WorkAlone ==
    ASSUME IInv, AInv, NEW c \in Stopper, pc[c] \in {"stop", "wait"},
           ctx' = ctx, NEW at \in {"idle", "stop", "wait"},
           pc' = [pc EXCEPT ![c] = at],
           \A d \in Stopper \ {c} : job'[d] = job[d],
           at # "idle" => job'[c].alone = job[c].alone,
           at # "idle" /\ c \in Caller /\ Nearing(c) => Nearing(c)'
    PROVE  AInv'
<1>1. pc \in [Stopper -> {"idle", "stop", "wait", "returned"}]
  BY DEF IInv, TypeOK
<1>2. ctx # "none" /\ (ctx = "open" => c \in Caller)
  BY Open
<1>3. Quiet'
  BY <1>1, <1>2 DEF AInv, Quiet
<1>4. ASSUME NEW d \in Caller, Alone(d)'
      PROVE  (\A e \in Caller \ {d} : pc'[e] = "idle") /\ Nearing(d)'
  <2>1. d = c
    <3>1. SUFFICES ASSUME d # c PROVE FALSE
      OBVIOUS
    <3>2. pc'[d] = pc[d] /\ job'[d] = job[d]
      BY <1>1, <3>1 DEF Stopper
    <3>3. Alone(d)
      BY <1>4, <3>2 DEF Alone
    <3> QED BY <3>1, <3>3, Sole
  <2>2. at # "idle" /\ Alone(c)
    BY <1>1, <1>4, <2>1 DEF Alone
  <2>3. (\A e \in Caller \ {c} : pc[e] = "idle") /\ Nearing(c)
    BY <2>1, <2>2 DEF AInv
  <2>4. \A e \in Caller \ {c} : pc'[e] = "idle"
    BY <1>1, <2>3 DEF Stopper
  <2> QED BY <2>1, <2>2, <2>3, <2>4
<1> QED
  BY <1>3, <1>4 DEF AInv

LEMMA StopTaskAlone ==
    ASSUME IInv, AInv, NEW c \in Stopper, NEW k \in Key, StopTask(c, k)
    PROVE  AInv'
<1>1. job[c] \in JobType
  BY DEF IInv
<1>2. pc[c] = "stop" /\ k \in job[c].stop /\ ctx' = ctx
  BY DEF StopTask
<1>3. PICK at \in {"stop", "wait"} : pc' = [pc EXCEPT ![c] = at]
  BY <1>2 DEF StopTask, IInv, TypeOK
<1>4. /\ job'[c].stop = job[c].stop \ {k}
      /\ job'[c].want = job[c].want /\ job'[c].start = job[c].start
      /\ job'[c].alone = job[c].alone
      /\ \A d \in Stopper \ {c} : job'[d] = job[d]
  BY <1>1 DEF StopTask, IInv, JobType
<1>5. Nearing(c) => Nearing(c)'
  <2>1. CASE k \in DOMAIN tasks
    <3>1. /\ tasks' = [j \in DOMAIN tasks \ {k} |-> tasks[j]]
          /\ obj' = [obj EXCEPT ![tasks[k]].cancelled = TRUE]
      BY <2>1 DEF StopTask
    <3>2. \A j \in DOMAIN tasks : obj'[tasks[j]].spec = obj[tasks[j]].spec
      BY <3>1 DEF IInv, TypeOK, TaskType
    <3> QED BY <1>2, <1>4, <3>1, <3>2 DEF Nearing
  <2>2. CASE k \notin DOMAIN tasks
    <3>1. UNCHANGED <<tasks, obj>>
      BY <2>2 DEF StopTask
    <3> QED BY <1>2, <1>4, <2>2, <3>1 DEF Nearing
  <2> QED BY <2>1, <2>2
<1> QED
  BY <1>2, <1>3, <1>4, <1>5, WorkAlone

LEMMA TaskStoppedAlone ==
    ASSUME IInv, AInv, NEW c \in Stopper, TaskStopped(c)
    PROVE  AInv'
<1>1. /\ pc[c] = "wait" /\ pc' = [pc EXCEPT ![c] = "stop"]
      /\ ctx' = ctx /\ tasks' = tasks
      /\ obj' = [t \in DOMAIN obj \ job[c].wait |-> obj[t]]
  BY DEF TaskStopped
<1>2. /\ job'[c].stop = job[c].stop /\ job'[c].start = job[c].start
      /\ job'[c].want = job[c].want /\ job'[c].alone = job[c].alone
      /\ \A d \in Stopper \ {c} : job'[d] = job[d]
  BY DEF TaskStopped, IInv, JobType
<1>3. \A k \in DOMAIN tasks : obj'[tasks[k]].spec = obj[tasks[k]].spec
  <2>1. \A k \in DOMAIN tasks : tasks[k] \in DOMAIN obj'
    BY <1>1, TaskStoppedOK DEF IInv, TypeOK
  <2> QED BY <1>1, <2>1
<1>4. tasks' = tasks
  BY <1>1
<1>5. Nearing(c) => Nearing(c)'
  BY <1>2, <1>3, <1>4 DEF Nearing
<1> QED
  BY <1>1, <1>2, <1>5, WorkAlone

LEMMA StartTaskAlone ==
    ASSUME IInv, AInv, NEW c \in Stopper, NEW k \in Key, StartTask(c, k)
    PROVE  AInv'
<1>1. /\ pc[c] = "stop" /\ job[c].stop = {} /\ k \in job[c].start
      /\ UNCHANGED <<ctx, pc>>
  BY DEF StartTask
<1>2. /\ job'[c].start = job[c].start \ {k}
      /\ job'[c].stop = job[c].stop
      /\ job'[c].want = job[c].want /\ job'[c].alone = job[c].alone
      /\ \A d \in Stopper \ {c} : job'[d] = job[d]
  BY DEF StartTask, IInv, JobType
<1>3. pc' = [pc EXCEPT ![c] = "stop"]
  BY <1>1 DEF IInv, TypeOK
<1>4. k \in DOMAIN job[c].want
  BY <1>1 DEF IInv, TypeOK
<1>5. Nearing(c) => Nearing(c)'
  <2>1. CASE k \in DOMAIN tasks /\ UNCHANGED <<tasks, obj>>
    BY <1>1, <1>2, <2>1 DEF Nearing
  <2>2. ASSUME NEW t \in Task \ DOMAIN obj,
               tasks' = [j \in DOMAIN tasks \cup {k} |->
                            IF j = k THEN t ELSE tasks[j]],
               obj' = [u \in DOMAIN obj \cup {t} |->
                          IF u = t THEN [key |-> k, spec |-> job[c].want[k],
                                         cancelled |-> FALSE, at |-> "idle"]
                          ELSE obj[u]]
        PROVE  Nearing(c) => Nearing(c)'
    <3>1. obj'[tasks'[k]].spec = job[c].want[k] /\ DOMAIN tasks' = DOMAIN tasks \cup {k}
      BY <2>2
    <3>2. \A j \in DOMAIN tasks \ {k} : obj'[tasks'[j]] = obj[tasks[j]]
      BY <2>2 DEF IInv, TypeOK
    <3> QED BY <1>1, <1>2, <1>4, <3>1, <3>2 DEF Nearing
  <2> QED BY <2>1, <2>2 DEF StartTask
<1> QED
  BY <1>1, <1>2, <1>3, <1>5, WorkAlone

LEMMA AppliedAlone ==
    ASSUME IInv, AInv, NEW c \in Caller, Applied(c)
    PROVE  AInv'
<1>1. /\ pc[c] = "stop" /\ pc' = [pc EXCEPT ![c] = "idle"]
      /\ ctx' = ctx /\ c \in Stopper
  BY DEF Applied, Stopper
<1>2. \A d \in Stopper \ {c} : job'[d] = job[d]
  BY DEF Applied, IInv
<1> QED
  BY <1>1, <1>2, WorkAlone

LEMMA GoroutineAlone ==
    ASSUME IInv, AInv, NEW t \in DOMAIN obj, Cycle(t) \/ Observe(t) \/ Exit(t)
    PROVE  AInv'
<1>1. PICK a \in {"idle", "probing", "exited"} : obj' = [obj EXCEPT ![t].at = a]
  BY DEF Cycle, Observe, Exit
<1>2. UNCHANGED <<ctx, tasks, pc, job>>
  BY DEF Cycle, Observe, Exit
<1>3. \A k \in DOMAIN tasks : obj'[tasks[k]].spec = obj[tasks[k]].spec
  BY <1>1 DEF IInv, TypeOK, TaskType
<1> QED
  BY <1>2, <1>3 DEF AInv, Quiet, Alone, Nearing

LEMMA RunAlone ==
    ASSUME IInv, AInv, Start \/ Cancel \/ Collect \/ Return
    PROVE  AInv'
<1>1. pc \in [Stopper -> {"idle", "stop", "wait", "returned"}] /\ "run" \in Stopper
  BY DEF IInv, TypeOK, Stopper
<1>2. CASE Start
  BY <1>2 DEF Start, AInv, Quiet, Alone
<1>3. CASE Cancel \/ Collect
  BY <1>3 DEF Cancel, Collect, AInv, Quiet, Alone
<1>4. CASE Return
  <2>1. /\ UNCHANGED <<ctx, tasks, obj, job>>
        /\ pc["run"] = "stop" /\ pc' = [pc EXCEPT !["run"] = "returned"]
    BY <1>4 DEF Return
  <2>2. ctx # "none" /\ (ctx = "open" => "run" \in Caller)
    BY <1>1, <2>1, Open
  <2>3. Quiet'
    BY <1>1, <2>1, <2>2 DEF AInv, Quiet
  <2>4. ASSUME NEW c \in Caller, Alone(c)'
        PROVE  FALSE
    <3>1. c # "run" /\ Alone(c)
      BY <1>1, <2>1, <2>4 DEF Alone, Stopper
    <3> QED BY <1>1, <2>1, <3>1, Sole
  <2> QED BY <2>3, <2>4 DEF AInv
<1> QED BY <1>2, <1>3, <1>4

LEMMA NextAlone ==
    IInv /\ AInv /\ [Next]_vars => AInv'
<1> SUFFICES ASSUME IInv, AInv, [Next]_vars
             PROVE  AInv'
  OBVIOUS
<1>1. ASSUME NEW c \in Caller, NEW w \in Wanted, Apply(c, w)
      PROVE  AInv'
  BY <1>1, ApplyAlone
<1>2. ASSUME NEW c \in Caller, Applied(c)
      PROVE  AInv'
  BY <1>2, AppliedAlone
<1>3. ASSUME NEW c \in Stopper, NEW k \in Key, StopTask(c, k) \/ StartTask(c, k)
      PROVE  AInv'
  BY <1>3, StopTaskAlone, StartTaskAlone
<1>4. ASSUME NEW c \in Stopper, TaskStopped(c)
      PROVE  AInv'
  BY <1>4, TaskStoppedAlone
<1>5. ASSUME NEW t \in DOMAIN obj, Cycle(t) \/ Observe(t) \/ Exit(t)
      PROVE  AInv'
  BY <1>5, GoroutineAlone
<1>6. CASE Start \/ Cancel \/ Collect \/ Return
  BY <1>6, RunAlone
<1>7. CASE UNCHANGED vars
  BY <1>7 DEF vars, AInv, Quiet, Alone, Nearing
<1> QED
  BY <1>1, <1>2, <1>3, <1>4, <1>5, <1>6, <1>7 DEF Next

LEMMA LoneCallExact ==
    ASSUME AInv, NEW c \in Caller, Applied(c), job[c].alone, ctx = "open"
    PROVE  [k \in DOMAIN tasks |-> obj[tasks[k]].spec] = job[c].want
<1> DEFINE w == job[c].want
<1>1. pc[c] = "stop" /\ job[c].stop = {} /\ job[c].start = {}
  BY DEF Applied
<1>2. /\ w \in Wanted
      /\ \A k \in DOMAIN tasks : k \in DOMAIN w /\ obj[tasks[k]].spec = w[k]
      /\ \A k \in DOMAIN w : k \in DOMAIN tasks
  BY <1>1 DEF AInv, Alone, Nearing
<1>3. DOMAIN w = DOMAIN tasks
  BY <1>2
<1>4. w = [k \in DOMAIN w |-> w[k]]
  BY <1>2, WantedAssumption
<1> HIDE DEF w
<1>5. [k \in DOMAIN tasks |-> obj[tasks[k]].spec] = [k \in DOMAIN w |-> w[k]]
  BY <1>2, <1>3
<1> QED BY <1>4, <1>5 DEF w

\* A call of Apply that met no other leaves exactly the tasks it was given,
\* however tasks, earlier calls and cycles interleaved before and during it.
THEOREM LoneApplyExact == Spec => ApplyExact
<1>1. Init => AInv
  BY DEF Init, AInv, Quiet, Alone, Stopper
<1>2. Spec => []AInv
  BY <1>1, Inductive, NextAlone, PTL DEF Spec
<1>3. AInv /\ [Next]_vars =>
          [\A c \in Caller : (Applied(c) /\ job[c].alone /\ ctx = "open") =>
              [k \in DOMAIN tasks |-> obj[tasks[k]].spec] = job[c].want]_vars
  BY LoneCallExact
<1> QED BY <1>2, <1>3, PTL DEF Spec, ApplyExact
=============================================================================
