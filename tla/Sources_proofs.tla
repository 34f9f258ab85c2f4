---------------------------- MODULE Sources_proofs ----------------------------
(* Proofs about the provider manager and the inventory, for every set of    *)
(* sources, configurations, documents and provider instances.               *)
EXTENDS Sources, FiniteSetTheorems, WellFoundedInduction, TLAPS

(***************************************************************************)
(* The inductive invariant.  An instance is registered exactly when it has *)
(* not been told to stop.  One that was told to stop is waited for by the  *)
(* caller that stopped it, or that caller gave up; and while Apply waits,  *)
(* or has just stopped waiting, the source is not registered.              *)
(***************************************************************************)
JobType == [at : {"idle", "loop", "stop", "wait", "stopped"},
            todo : SUBSET Source, src : Source \cup {Off},
            wait : SUBSET Instance, want : Wanted \cup {<<>>}, err : BOOLEAN]

Confs == UNION {{w[s] : s \in Source} : w \in Wanted}

InstType == [src : Source, conf : Confs, cancelled : BOOLEAN,
             at : {"idle", "fetched", "exited"}, hosts : Documents \cup {{}}]

Conf == job["config"]

Shapes ==
    /\ job \in [Actor -> JobType]
    /\ \A i \in DOMAIN inst :
           /\ inst[i] \in InstType
           /\ inst[i].at = "fetched" => inst[i].hosts \in Documents

Owned ==
    /\ \A s \in DOMAIN active : ~inst[active[s]].cancelled
    /\ \A i \in DOMAIN inst : ~inst[i].cancelled =>
           inst[i].src \in DOMAIN active /\ active[inst[i].src] = i

Waited ==
    \A a \in Actor :
        /\ job[a].wait # {} => job[a].at = "wait"
        /\ \A i \in job[a].wait :
               /\ inst[i].cancelled /\ inst[i].src = job[a].src
               /\ \A j \in job[a].wait : j = i
               /\ \A b \in Actor \ {a} : i \notin job[b].wait

Working ==
    /\ Conf.at # "idle" => Conf.want \in Wanted
    /\ Conf.at \in {"idle", "loop"} => Conf.src = Off
    /\ Conf.at \in {"stop", "wait", "stopped"} => Conf.src \in Source
    /\ ~cancelled => job["shutdown"] = NoJob
    /\ job["shutdown"].at \in {"stop", "wait"} => job["shutdown"].src \in Source
    /\ Conf.at \in {"wait", "stopped"} => Conf.src \notin DOMAIN active

Stopping ==
    ~cancelled => \A i \in DOMAIN inst :
        inst[i].cancelled /\ inst[i].at # "exited" =>
            i \in Conf.wait \/ inst[i].src \in abandoned

IInv == /\ Shapes
        /\ TypeOK
        /\ Owned
        /\ Waited
        /\ Working
        /\ Stopping
        /\ HostsOwned

LEMMA InitIInv ==
    Init => IInv
<1> SUFFICES ASSUME Init
             PROVE  IInv
  OBVIOUS
<1>1. DOMAIN <<>> = {}
  OBVIOUS
<1>2. NoJob \in JobType
  BY DEF NoJob, JobType
<1>3. Shapes
  BY <1>1, <1>2 DEF Init, Shapes
<1>4. \A a \in Actor : job[a] = NoJob
  BY DEF Init
<1>5. TypeOK
  <2>1. giveUps \in 0..MaxGiveUps
    BY GiveUpAssumption DEF Init
  <2>2. DOMAIN active = {} /\ DOMAIN inst = {} /\ DOMAIN sets = {}
    BY <1>1 DEF Init
  <2>3. cancelled \in BOOLEAN /\ failed = {} /\ abandoned = {}
    BY DEF Init
  <2>4. \A a \in Actor : /\ job[a].at \in {"idle", "loop", "stop", "wait", "stopped"}
                         /\ job[a].todo \subseteq Source
                         /\ job[a].wait \subseteq DOMAIN inst
    BY <1>4 DEF NoJob
  <2> QED BY <2>1, <2>2, <2>3, <2>4 DEF TypeOK
<1>6. Owned /\ Stopping /\ HostsOwned
  BY <1>1 DEF Init, Owned, Stopping, HostsOwned
<1>7. Waited
  BY <1>4 DEF Waited, NoJob
<1>8. Working
  BY <1>4 DEF Working, Conf, NoJob, Actor
<1> QED
  BY <1>3, <1>5, <1>6, <1>7, <1>8 DEF IInv

\* A source holds one uncancelled instance, so two goroutines that deliver
\* are either waited for, which only one can be, or abandoned.
LEMMA OneWriter ==
    IInv => SingleWriter
<1> SUFFICES ASSUME IInv, ~cancelled, NEW i \in DOMAIN inst, NEW j \in DOMAIN inst,
                    i # j, inst[i].src = inst[j].src,
                    inst[i].at # "exited", inst[j].at # "exited",
                    inst[i].src \notin abandoned
             PROVE  FALSE
  BY DEF SingleWriter
<1>1. inst[i].cancelled \in BOOLEAN /\ inst[j].cancelled \in BOOLEAN
  BY DEF IInv, TypeOK
<1>2. "config" \in Actor
  BY DEF Actor
<1>3. inst[i].cancelled \/ inst[j].cancelled
  BY DEF IInv, Owned
<1>4. ASSUME NEW x \in DOMAIN inst, NEW y \in DOMAIN inst, x # y,
             inst[x].src = inst[y].src, inst[x].src \notin abandoned,
             inst[x].cancelled, inst[x].at # "exited", inst[y].at # "exited"
      PROVE  FALSE
  <2>1. x \in Conf.wait
    BY <1>4 DEF IInv, Stopping
  <2>2. Conf.at = "wait" /\ inst[x].src = Conf.src
    BY <1>2, <2>1 DEF IInv, Waited, Conf
  <2>3. Conf.src \notin DOMAIN active
    BY <2>2 DEF IInv, Working
  <2>4. inst[y].cancelled
    BY <1>4, <2>2, <2>3 DEF IInv, Owned
  <2>5. y \in Conf.wait
    BY <1>4, <2>4 DEF IInv, Stopping
  <2> QED
    BY <1>2, <1>4, <2>1, <2>5 DEF IInv, Waited, Conf
<1> QED
  BY <1>3, <1>4

-----------------------------------------------------------------------------
(* The steps that only advance Apply or Stop.                               *)

LEMMA PlanOK ==
    ASSUME IInv,
           UNCHANGED <<cancelled, active, inst, sets, giveUps, failed, abandoned>>,
           job' \in [Actor -> JobType],
           \A a \in Actor : job'[a] = job[a] \/ (job[a].wait = {} /\ job'[a].wait = {}),
           Conf.src \in {Off, Conf'.src},
           Working'
    PROVE  IInv'
<1>1. "config" \in Actor /\ \A a \in Actor : job'[a].wait = job[a].wait
  BY DEF Actor
<1>2. Shapes'
  BY DEF IInv, Shapes
<1>3. TypeOK'
  <2>1. \A a \in Actor : /\ job'[a].at \in {"idle", "loop", "stop", "wait", "stopped"}
                         /\ job'[a].todo \subseteq Source
                         /\ job'[a].wait \subseteq DOMAIN inst
    BY <1>1 DEF JobType, IInv, TypeOK
  <2> QED BY <2>1 DEF IInv, TypeOK
<1>4. Waited'
  BY <1>1 DEF IInv, Waited
<1>5. Owned' /\ Stopping'
  BY <1>1 DEF IInv, Owned, Stopping, Conf
<1>6. HostsOwned'
  BY OffAssumption DEF IInv, TypeOK, HostsOwned, Conf
<1> QED
  BY <1>2, <1>3, <1>4, <1>5, <1>6 DEF IInv

LEMMA ConfigPlanOK ==
    ASSUME IInv, Conf.at # "wait",
           UNCHANGED <<cancelled, active, inst, sets, giveUps, failed, abandoned>>,
           NEW new \in JobType, job' = [job EXCEPT !["config"] = new],
           Conf.src \in {Off, new.src}, new.wait = {},
           new.at = "idle" \/ new.want \in Wanted,
           \/ new.at \in {"idle", "loop"} /\ new.src = Off
           \/ new.at = "stop" /\ new.src \in Source
    PROVE  IInv'
<1>1. "config" \in Actor /\ "shutdown" \in Actor
  BY DEF Actor
<1>2. job \in [Actor -> JobType] /\ Conf.wait = {}
  BY <1>1 DEF IInv, Shapes, Waited, Conf
<1>3. job' \in [Actor -> JobType] /\ Conf' = new /\ job'["shutdown"] = job["shutdown"]
      /\ \A a \in Actor : job'[a] = job[a] \/ (job[a].wait = {} /\ job'[a].wait = {})
  BY <1>1, <1>2 DEF Conf
<1>4. Working'
  BY <1>3 DEF IInv, Working
<1> QED
  BY <1>3, <1>4, PlanOK

LEMMA ApplyStepsOK ==
    ASSUME IInv, \/ \E w \in Wanted : Apply(w)
                 \/ \E s \in Source : Skip(s) \/ Change(s)
                 \/ Applied
    PROVE  IInv'
<1>1. Conf \in JobType
  BY DEF IInv, Shapes, Conf, Actor
<1>2. Conf.at # "wait" => Conf.wait = {}
  BY DEF IInv, Waited, Conf, Actor
<1>3. ASSUME NEW w \in Wanted, Apply(w)
      PROVE  IInv'
  <2> DEFINE new == [NoJob EXCEPT !.at = "loop", !.todo = Source, !.want = w]
  <2>1. new \in JobType /\ new.at = "loop" /\ new.src = Off /\ new.wait = {}
        /\ new.want \in Wanted
    BY DEF NoJob, JobType
  <2>2. Conf.at = "idle" /\ Conf.src = Off /\ job' = [job EXCEPT !["config"] = new]
        /\ UNCHANGED <<cancelled, active, inst, sets, giveUps, failed, abandoned>>
    BY <1>3 DEF Apply, IInv, Working, Conf
  <2> HIDE DEF new
  <2> QED BY <2>1, <2>2, ConfigPlanOK
<1>4. ASSUME NEW s \in Source, Skip(s)
      PROVE  IInv'
  <2> DEFINE new == Todo(s)
  <2>1. Conf.at = "loop" /\ Conf.src = Off /\ Conf.want \in Wanted
        /\ job' = [job EXCEPT !["config"] = new]
        /\ UNCHANGED <<cancelled, active, inst, sets, giveUps, failed, abandoned>>
    BY <1>4 DEF Skip, Decided, IInv, Working, Conf
  <2>2. new \in JobType /\ new.at = "loop" /\ new.src = Off /\ new.wait = {}
        /\ new.want \in Wanted
    BY <1>1, <1>2, <2>1 DEF Todo, JobType, Conf
  <2> HIDE DEF new
  <2> QED BY <2>1, <2>2, ConfigPlanOK
<1>5. ASSUME NEW s \in Source, Change(s)
      PROVE  IInv'
  <2> DEFINE new == [Conf EXCEPT !.at = "stop", !.src = s]
  <2>1. Conf.at = "loop" /\ Conf.src = Off /\ Conf.want \in Wanted
        /\ UNCHANGED <<cancelled, active, inst, sets, giveUps, failed, abandoned>>
    BY <1>5 DEF Change, Decided, IInv, Working, Conf
  <2>2. job' = [job EXCEPT !["config"] = new]
    BY <1>5 DEF Change, Conf, IInv, Shapes
  <2>3. new \in JobType /\ new.at = "stop" /\ new.src = s /\ new.wait = {}
        /\ new.want \in Wanted
    BY <1>1, <1>2, <2>1 DEF JobType
  <2> HIDE DEF new
  <2> QED BY <2>1, <2>2, <2>3, ConfigPlanOK
<1>6. CASE Applied
  <2>1. NoJob \in JobType /\ NoJob.at = "idle" /\ NoJob.src = Off /\ NoJob.wait = {}
    BY DEF NoJob, JobType
  <2>2. Conf.at = "loop" /\ Conf.src = Off /\ job' = [job EXCEPT !["config"] = NoJob]
        /\ UNCHANGED <<cancelled, active, inst, sets, giveUps, failed, abandoned>>
    BY <1>6 DEF Applied, IInv, Working, Conf
  <2> QED BY <2>1, <2>2, ConfigPlanOK
<1> QED
  BY <1>3, <1>4, <1>5, <1>6

\* Stop runs only in a process that is cancelled.
LEMMA StopStepsOK ==
    ASSUME IInv, Stop \/ \E s \in Source : StopNext(s)
    PROVE  IInv'
<1> DEFINE old == job["shutdown"]
           new == job'["shutdown"]
<1>1. "config" \in Actor /\ "shutdown" \in Actor
  BY DEF Actor
<1>2. UNCHANGED <<cancelled, active, inst, sets, giveUps, failed, abandoned>>
  BY DEF Stop, StopNext
<1>3. job \in [Actor -> JobType] /\ DOMAIN active \subseteq Source
  BY DEF IInv, Shapes, TypeOK
<1>4. old.at # "wait" /\ cancelled
  <2>1. old.at \in {"idle", "loop", "stopped"}
    BY DEF Stop, StopNext
  <2>2. CASE Stop
    BY <2>1, <2>2 DEF Stop
  <2>3. ASSUME NEW s \in Source, StopNext(s)
        PROVE  cancelled
    <3>1. NoJob.at = "idle" /\ old.at # "idle"
      BY <2>3 DEF NoJob, StopNext
    <3> QED BY <3>1 DEF IInv, Working
  <2> QED BY <2>1, <2>2, <2>3
<1> DEFINE Ready == \/ new.at = "loop"
                    \/ new.at = "stop" /\ new.src \in Source
<1>5. job' \in [Actor -> JobType] /\ Conf' = Conf /\ new.wait = old.wait /\ Ready
  <2>1. CASE Stop
    <3> DEFINE next == [old EXCEPT !.at = "loop", !.todo = DOMAIN active]
    <3>1. old \in JobType
      BY <1>1, <1>3
    <3>2. job' = [job EXCEPT !["shutdown"] = next]
      BY <1>3, <2>1 DEF Stop
    <3>3. next \in JobType /\ next.wait = old.wait /\ next.at = "loop"
      BY <1>3, <3>1 DEF JobType
    <3> HIDE DEF next
    <3> QED BY <1>1, <1>3, <3>2, <3>3 DEF Conf
  <2>2. ASSUME NEW s \in Source, StopNext(s)
        PROVE  job' \in [Actor -> JobType] /\ Conf' = Conf /\ new.wait = old.wait /\ Ready
    <3> DEFINE next == [old EXCEPT !.at = "stop", !.src = s, !.todo = @ \ {s}]
    <3>1. old \in JobType
      BY <1>1, <1>3
    <3>2. job' = [job EXCEPT !["shutdown"] = next]
      BY <1>3, <2>2 DEF StopNext
    <3>3. next \in JobType /\ next.wait = old.wait /\ next.at = "stop" /\ next.src = s
      BY <3>1 DEF JobType
    <3> HIDE DEF next
    <3> QED BY <1>1, <1>3, <3>2, <3>3 DEF Conf
  <2> QED BY <2>1, <2>2
<1>6. old.wait = {}
  BY <1>1, <1>4 DEF IInv, Waited
<1>7. \A a \in Actor : job'[a] = job[a] \/ (job[a].wait = {} /\ job'[a].wait = {})
  BY <1>5, <1>6 DEF Conf, Actor
<1>8. Working'
  BY <1>2, <1>4, <1>5 DEF IInv, Working
<1> QED
  BY <1>2, <1>5, <1>7, <1>8, PlanOK

-----------------------------------------------------------------------------
(* The steps of the providers, the readers and the process's context.       *)

LEMMA ContextOK ==
    ASSUME IInv, Snapshot \/ Cancel
    PROVE  IInv'
<1>1. UNCHANGED <<active, inst, sets, job, giveUps, failed, abandoned>>
  BY DEF Snapshot, Cancel
<1>2. cancelled' \in BOOLEAN
  BY DEF Snapshot, Cancel, IInv, TypeOK
<1>3. cancelled => cancelled'
  BY DEF Snapshot, Cancel
<1>4. Shapes' /\ Owned' /\ Waited'
  BY <1>1 DEF IInv, Shapes, Owned, Waited
<1>5. TypeOK'
  BY <1>1, <1>2 DEF IInv, TypeOK
<1>6. Working' /\ Stopping' /\ HostsOwned'
  BY <1>1, <1>3 DEF IInv, Working, Stopping, HostsOwned, Conf
<1> QED
  BY <1>4, <1>5, <1>6 DEF IInv

\* A goroutine that goes on stays what it is, and never runs again after it
\* has exited.
LEMMA GoesOn ==
    ASSUME IInv, UNCHANGED <<cancelled, active, job, giveUps, failed, abandoned>>,
           NEW i \in DOMAIN inst, NEW at, NEW hosts,
           inst' = [inst EXCEPT ![i].at = at, ![i].hosts = hosts],
           at \in {"idle", "fetched", "exited"}, inst[i].at # "exited",
           hosts \in Documents \cup {{}}, at = "fetched" => hosts \in Documents,
           \A s \in DOMAIN sets' : s \in Source /\ sets'[s].hosts \in Documents,
           HostsOwned'
    PROVE  IInv'
<1> DEFINE new == [inst[i] EXCEPT !.at = at, !.hosts = hosts]
<1>1. inst' = [inst EXCEPT ![i] = new]
  OBVIOUS
<1>2. \A j \in DOMAIN inst : inst[j] \in InstType
  BY DEF IInv, Shapes
<1>3. /\ new \in InstType /\ new.src = inst[i].src /\ new.conf = inst[i].conf
      /\ new.cancelled = inst[i].cancelled
      /\ new.at = at /\ new.hosts = hosts
  BY <1>2 DEF InstType
<1> HIDE DEF new
<1>4. /\ DOMAIN inst' = DOMAIN inst
      /\ \A j \in DOMAIN inst : /\ inst'[j].src = inst[j].src
                                /\ inst'[j].conf = inst[j].conf
                                /\ inst'[j].cancelled = inst[j].cancelled
                                /\ inst'[j].at # "exited" => inst[j].at # "exited"
  BY <1>1, <1>3
<1>5. Shapes'
  BY <1>1, <1>2, <1>3 DEF IInv, Shapes
<1>6. TypeOK'
  <2>1. \A j \in DOMAIN inst' :
            /\ inst'[j].src \in Source /\ inst'[j].conf \in {w[inst'[j].src] : w \in Wanted}
            /\ inst'[j].cancelled \in BOOLEAN
    BY <1>4 DEF IInv, TypeOK
  <2>2. \A j \in DOMAIN inst' : /\ inst'[j].at \in {"idle", "fetched", "exited"}
                                /\ inst'[j].hosts \in Documents \cup {{}}
    BY <1>5 DEF Shapes, InstType
  <2>3. \A s \in DOMAIN active' : active'[s] \in DOMAIN inst' /\ inst'[active'[s]].src = s
    BY <1>4 DEF IInv, TypeOK
  <2> QED
    BY <1>4, <2>1, <2>2, <2>3 DEF IInv, TypeOK
<1>7. Owned' /\ Stopping' /\ Working'
  BY <1>4 DEF IInv, TypeOK, Owned, Stopping, Working, Conf
<1>8. Waited'
  <2>1. \A a \in Actor : job[a].wait \subseteq DOMAIN inst
    BY DEF IInv, TypeOK
  <2> QED BY <1>4, <2>1 DEF IInv, Waited
<1> QED
  BY <1>5, <1>6, <1>7, <1>8 DEF IInv

LEMMA FetchOK ==
    ASSUME IInv, NEW i \in DOMAIN inst, NEW hosts \in Documents, Fetch(i, hosts)
    PROVE  IInv'
<1>1. /\ UNCHANGED <<cancelled, active, sets, job, giveUps, failed, abandoned>>
      /\ inst[i].at # "exited"
      /\ inst' = [inst EXCEPT ![i].at = "fetched", ![i].hosts = hosts]
  BY DEF Fetch
<1>2. HostsOwned'
  BY <1>1 DEF IInv, HostsOwned
<1>3. \A s \in DOMAIN sets' : s \in Source /\ sets'[s].hosts \in Documents
  BY <1>1 DEF IInv, TypeOK
<1> QED
  BY <1>1, <1>2, <1>3, GoesOn

\* A set that is delivered belongs to a source that is registered, or is
\* being stopped, or was abandoned.
LEMMA DeliverOK ==
    ASSUME IInv, NEW i \in DOMAIN inst, Deliver(i)
    PROVE  IInv'
<1> DEFINE r == inst[i].src
           set == [hosts |-> inst[i].hosts, prio |-> inst[i].conf.prio]
<1>1. /\ UNCHANGED <<cancelled, active, job, giveUps, failed, abandoned>>
      /\ inst[i].at = "fetched"
      /\ inst' = [inst EXCEPT ![i].at = "idle", ![i].hosts = {}]
      /\ sets' = [s \in DOMAIN sets \cup {r} |-> IF s = r THEN set ELSE sets[s]]
  BY DEF Deliver, StoreReplace, With
<1>2. /\ r \in Source /\ inst[i].hosts \in Documents
      /\ inst[i].cancelled \in BOOLEAN
  BY <1>1 DEF IInv, TypeOK, Shapes
<1>3. set.hosts = inst[i].hosts
  OBVIOUS
<1>4. ~cancelled => r \in DOMAIN active \/ r = Conf.src \/ r \in abandoned
  <2>1. CASE ~inst[i].cancelled
    BY <2>1 DEF IInv, Owned
  <2>2. CASE inst[i].cancelled
    <3>1. ~cancelled => i \in Conf.wait \/ r \in abandoned
      BY <1>1, <2>2 DEF IInv, Stopping
    <3>2. i \in Conf.wait => r = Conf.src
      BY DEF IInv, Waited, Conf, Actor
    <3> QED BY <3>1, <3>2
  <2> QED BY <1>2, <2>1, <2>2
<1> HIDE DEF r, set
<1>5. HostsOwned'
  BY <1>1, <1>4 DEF IInv, HostsOwned, Conf
<1>6. \A s \in DOMAIN sets' : s \in Source /\ sets'[s].hosts \in Documents
  BY <1>1, <1>2, <1>3 DEF IInv, TypeOK
<1>7. /\ {} \in Documents \cup {{}} /\ "idle" # "fetched" /\ inst[i].at # "exited"
      /\ "idle" \in {"idle", "fetched", "exited"}
  BY <1>1
<1> QED
  BY <1>1, <1>5, <1>6, <1>7, GoesOn

\* Whatever drops instances that were told to stop, and that nobody waits
\* for any more, leaves the others as they are.
LEMMA Dropped ==
    ASSUME IInv, UNCHANGED <<cancelled, active, sets, giveUps, failed, abandoned>>,
           NEW gone, inst' = [j \in DOMAIN inst \ gone |-> inst[j]],
           \A j \in gone \cap DOMAIN inst : inst[j].cancelled,
           job' \in [Actor -> JobType],
           \A a \in Actor : /\ job'[a].wait = job[a].wait \ gone
                            /\ job'[a].wait # {} => job'[a].at = "wait"
                            /\ job'[a].src = job[a].src,
           Working'
    PROVE  IInv'
<1>1. /\ DOMAIN inst' = DOMAIN inst \ gone
      /\ \A j \in DOMAIN inst' : inst'[j] = inst[j]
  OBVIOUS
<1>2. Shapes'
  BY <1>1 DEF IInv, Shapes
<1>3. \A s \in DOMAIN active : active[s] \in DOMAIN inst' /\ inst'[active[s]] = inst[active[s]]
  BY <1>1 DEF IInv, TypeOK, Owned
<1>4. \A a \in Actor : /\ job'[a].wait \subseteq DOMAIN inst'
                       /\ job'[a].at \in {"idle", "loop", "stop", "wait", "stopped"}
                       /\ job'[a].todo \subseteq Source
  <2>1. \A a \in Actor : job'[a].wait \subseteq DOMAIN inst'
    BY <1>1 DEF IInv, TypeOK
  <2> QED BY <2>1 DEF JobType
<1>5. TypeOK'
  <2>1. \A j \in DOMAIN inst' :
            /\ inst'[j].src \in Source /\ inst'[j].conf \in {w[inst'[j].src] : w \in Wanted}
            /\ inst'[j].cancelled \in BOOLEAN
            /\ inst'[j].at \in {"idle", "fetched", "exited"}
            /\ inst'[j].hosts \in Documents \cup {{}}
    BY <1>1 DEF IInv, TypeOK
  <2>2. \A s \in DOMAIN active' : active'[s] \in DOMAIN inst' /\ inst'[active'[s]].src = s
    BY <1>3 DEF IInv, TypeOK
  <2>3. DOMAIN inst' \subseteq Instance
    BY <1>1 DEF IInv, TypeOK
  <2> QED BY <1>4, <2>1, <2>2, <2>3 DEF IInv, TypeOK
<1>6. Owned' /\ HostsOwned'
  <2>1. Conf'.src = Conf.src
    BY DEF Conf, Actor
  <2> QED BY <1>1, <1>3, <2>1 DEF IInv, Owned, HostsOwned, Conf
<1>7. Waited'
  BY <1>1, <1>4 DEF IInv, Waited
<1>8. Stopping'
  <2>1. Conf'.wait = Conf.wait \ gone
    BY DEF Conf, Actor
  <2> QED BY <1>1, <2>1 DEF IInv, Stopping
<1> QED
  BY <1>2, <1>5, <1>6, <1>7, <1>8 DEF IInv

LEMMA ExitOK ==
    ASSUME IInv, NEW i \in DOMAIN inst, Exit(i)
    PROVE  IInv'
<1>1. UNCHANGED <<cancelled, active, sets, job, giveUps, failed, abandoned>>
  BY DEF Exit
<1>2. inst[i] \in InstType /\ inst[i].at = "idle"
  BY DEF IInv, Shapes, Exit
<1>3. CASE inst' = [inst EXCEPT ![i].at = "exited"]
  <2>1. inst' = [inst EXCEPT ![i].at = "exited", ![i].hosts = inst[i].hosts]
    <3>1. [inst[i] EXCEPT !.at = "exited"]
              = [inst[i] EXCEPT !.at = "exited", !.hosts = inst[i].hosts]
      BY <1>2 DEF InstType
    <3> QED BY <1>3, <3>1
  <2>2. inst[i].hosts \in Documents \cup {{}}
    BY <1>2 DEF InstType
  <2>3. HostsOwned'
    BY <1>1 DEF IInv, HostsOwned
  <2>4. \A s \in DOMAIN sets' : s \in Source /\ sets'[s].hosts \in Documents
    BY <1>1 DEF IInv, TypeOK
  <2> QED
    BY <1>1, <1>2, <2>1, <2>2, <2>3, <2>4, GoesOn
<1>4. CASE /\ inst' = Without(inst, i) /\ inst[i].cancelled
           /\ i \notin job["config"].wait \cup job["shutdown"].wait
  <2>1. inst' = [j \in DOMAIN inst \ {i} |-> inst[j]]
    BY <1>4 DEF Without
  <2>2. \A a \in Actor : job[a].wait \ {i} = job[a].wait
    BY <1>4 DEF Actor
  <2>3. job' \in [Actor -> JobType] /\ Working'
    BY <1>1 DEF IInv, Shapes, Working, Conf
  <2>4. \A a \in Actor : job[a].wait # {} => job[a].at = "wait"
    BY DEF IInv, Waited
  <2>5. \A a \in Actor : /\ job'[a].wait = job[a].wait \ {i}
                         /\ job'[a].wait # {} => job'[a].at = "wait"
                         /\ job'[a].src = job[a].src
    BY <1>1, <2>2, <2>4
  <2>6. \A j \in {i} \cap DOMAIN inst : inst[j].cancelled
    BY <1>4
  <2> QED
    BY <1>1, <2>1, <2>3, <2>5, <2>6, Dropped
<1> QED
  BY <1>3, <1>4 DEF Exit

-----------------------------------------------------------------------------
(* stop.                                                                    *)

LEMMA JoinedOK ==
    ASSUME IInv, NEW a \in Actor, Joined(a)
    PROVE  IInv'
<1> DEFINE gone == job[a].wait
           new == [job[a] EXCEPT !.at = "stopped", !.wait = {}]
<1>1. /\ UNCHANGED <<cancelled, active, sets, giveUps, failed, abandoned>>
      /\ inst' = [j \in DOMAIN inst \ gone |-> inst[j]]
      /\ job[a].at = "wait"
  BY DEF Joined
<1>2. job \in [Actor -> JobType]
  BY DEF IInv, Shapes
<1>3. job' = [job EXCEPT ![a] = new]
  BY <1>2 DEF Joined
<1>4. new \in JobType /\ new.at = "stopped" /\ new.wait = {} /\ new.src = job[a].src
      /\ new.want = job[a].want
  BY <1>2 DEF JobType
<1> HIDE DEF new
<1>5. \A j \in gone \cap DOMAIN inst : inst[j].cancelled
  BY DEF IInv, Waited
<1>6. \A b \in Actor : /\ job'[b].wait = job[b].wait \ gone
                       /\ job'[b].wait # {} => job'[b].at = "wait"
                       /\ job'[b].src = job[b].src
  BY <1>2, <1>3, <1>4 DEF IInv, Waited
<1>7. Working'
  <2>1. "config" \in Actor /\ "shutdown" \in Actor /\ NoJob.at = "idle"
    BY DEF Actor, NoJob
  <2>2. CASE a = "config"
    BY <1>1, <1>2, <1>3, <1>4, <2>1, <2>2 DEF IInv, Working, Conf
  <2>3. CASE a = "shutdown"
    BY <1>1, <1>2, <1>3, <1>4, <2>1, <2>3 DEF IInv, Working, Conf
  <2> QED BY <2>2, <2>3 DEF Actor
<1> HIDE DEF gone
<1> QED
  BY <1>1, <1>2, <1>3, <1>4, <1>5, <1>6, <1>7, Dropped

LEMMA GiveUpOK ==
    ASSUME IInv, NEW a \in Actor, GiveUp(a)
    PROVE  IInv'
<1> DEFINE new == [job[a] EXCEPT !.at = "stopped", !.wait = {}]
<1>1. /\ UNCHANGED <<cancelled, active, inst, sets, failed>>
      /\ job[a].at = "wait" /\ giveUps < MaxGiveUps /\ giveUps' = giveUps + 1
      /\ abandoned' = abandoned \cup {job[a].src}
  BY DEF GiveUp
<1>2. job \in [Actor -> JobType]
  BY DEF IInv, Shapes
<1>3. job' = [job EXCEPT ![a] = new]
  BY <1>2 DEF GiveUp
<1>4. new \in JobType /\ new.at = "stopped" /\ new.wait = {} /\ new.src = job[a].src
      /\ new.want = job[a].want
  BY <1>2 DEF JobType
<1> HIDE DEF new
<1>5. "config" \in Actor /\ "shutdown" \in Actor /\ NoJob.at = "idle"
  BY DEF Actor, NoJob
<1>6. \A b \in Actor : /\ job'[b].src = job[b].src /\ job'[b].want = job[b].want
                       /\ b # a => job'[b] = job[b]
  BY <1>2, <1>3, <1>4
<1>7. job[a].src \in Source
  BY <1>1 DEF IInv, Working, Conf, Actor
<1>8. Shapes' /\ Owned'
  BY <1>1, <1>2, <1>3, <1>4 DEF IInv, Shapes, Owned
<1>9. TypeOK'
  <2>1. giveUps' \in 0..MaxGiveUps
    BY <1>1, GiveUpAssumption DEF IInv, TypeOK
  <2>2. abandoned' \subseteq Source
    BY <1>1, <1>7 DEF IInv, TypeOK
  <2>3. \A b \in Actor : /\ job'[b].at \in {"idle", "loop", "stop", "wait", "stopped"}
                         /\ job'[b].todo \subseteq Source
                         /\ job'[b].wait \subseteq DOMAIN inst
    <3>1. job' \in [Actor -> JobType]
      BY <1>2, <1>3, <1>4
    <3>2. \A b \in Actor : job'[b].wait \subseteq DOMAIN inst
      BY <1>2, <1>3, <1>4 DEF IInv, TypeOK
    <3> QED BY <3>1, <3>2 DEF JobType
  <2> QED BY <1>1, <2>1, <2>2, <2>3 DEF IInv, TypeOK
<1>10. Waited'
  BY <1>1, <1>2, <1>3, <1>4 DEF IInv, Waited
<1>11. Working'
  <2>1. CASE a = "config"
    BY <1>1, <1>2, <1>3, <1>4, <1>5, <2>1 DEF IInv, Working, Conf
  <2>2. CASE a = "shutdown"
    BY <1>1, <1>2, <1>3, <1>4, <1>5, <2>2 DEF IInv, Working, Conf
  <2> QED BY <2>1, <2>2 DEF Actor
<1>12. Stopping'
  <2>1. \A i \in job[a].wait : inst[i].src \in abandoned'
    BY <1>1 DEF IInv, Waited
  <2> QED BY <1>1, <1>5, <1>6, <2>1 DEF IInv, Stopping, Conf
<1>13. HostsOwned'
  BY <1>1, <1>5, <1>6 DEF IInv, HostsOwned
<1> QED
  BY <1>8, <1>9, <1>10, <1>11, <1>12, <1>13 DEF IInv

LEMMA UnregisterOK ==
    ASSUME IInv, NEW a \in Actor, Unregister(a)
    PROVE  IInv'
<1> DEFINE s == job[a].src
<1>1. /\ UNCHANGED <<cancelled, sets, giveUps, failed, abandoned>>
      /\ job[a].at = "stop"
  BY DEF Unregister
<1>2. job \in [Actor -> JobType] /\ job[a].wait = {}
  BY <1>1 DEF IInv, Shapes, Waited
<1>3. "config" \in Actor /\ "shutdown" \in Actor /\ NoJob.at = "idle"
  BY DEF Actor, NoJob
<1>4. CASE s \notin DOMAIN active
  <2> DEFINE new == [job[a] EXCEPT !.at = "stopped"]
  <2>1. UNCHANGED <<active, inst>> /\ job' = [job EXCEPT ![a] = new]
    BY <1>2, <1>4 DEF Unregister
  <2>2. new \in JobType /\ new.at = "stopped" /\ new.wait = {} /\ new.src = s
        /\ new.want = job[a].want
    BY <1>2 DEF JobType
  <2> HIDE DEF new
  <2>3. /\ job' \in [Actor -> JobType]
        /\ \A b \in Actor : job'[b] = job[b] \/ (job[b].wait = {} /\ job'[b].wait = {})
        /\ Conf'.src = Conf.src
    BY <1>2, <1>3, <2>1, <2>2 DEF Conf
  <2>4. Working'
    <3>1. CASE a = "config"
      BY <1>1, <1>2, <1>3, <1>4, <2>1, <2>2, <3>1 DEF IInv, Working, Conf
    <3>2. CASE a = "shutdown"
      BY <1>1, <1>2, <1>3, <1>4, <2>1, <2>2, <3>2 DEF IInv, Working, Conf
    <3> QED BY <3>1, <3>2 DEF Actor
  <2> QED
    BY <1>1, <2>1, <2>3, <2>4, PlanOK
<1>5. CASE s \in DOMAIN active
  <2> DEFINE u == active[s]
             new == [job[a] EXCEPT !.at = "wait", !.wait = {u}]
  <2>1. /\ active' = [r \in DOMAIN active \ {s} |-> active[r]]
        /\ inst' = [inst EXCEPT ![u].cancelled = TRUE]
        /\ job' = [job EXCEPT ![a] = new]
    BY <1>2, <1>5 DEF Unregister, Without
  <2>2. u \in DOMAIN inst /\ u \in Instance /\ inst[u].src = s /\ ~inst[u].cancelled
        /\ s \in Source
    BY <1>5 DEF IInv, TypeOK, Owned
  <2>3. \A b \in Actor : u \notin job[b].wait
    BY <2>2 DEF IInv, Waited
  <2>4. new \in JobType /\ new.at = "wait" /\ new.wait = {u} /\ new.src = s
        /\ new.want = job[a].want /\ new.todo = job[a].todo
    BY <1>2, <2>2 DEF JobType
  <2> HIDE DEF new, u
  <2>5. /\ DOMAIN inst' = DOMAIN inst /\ inst'[u].cancelled = TRUE
        /\ \A i \in DOMAIN inst : /\ inst'[i] \in InstType
                                  /\ inst'[i].src = inst[i].src
                                  /\ inst'[i].conf = inst[i].conf
                                  /\ inst'[i].at = inst[i].at
                                  /\ inst'[i].hosts = inst[i].hosts
                                  /\ i # u => inst'[i] = inst[i]
    <3>1. \A i \in DOMAIN inst : inst[i] \in InstType
      BY DEF IInv, Shapes
    <3> QED BY <2>1, <2>2, <3>1 DEF InstType
  <2>6. /\ job' \in [Actor -> JobType] /\ job'[a] = new
        /\ \A b \in Actor : b # a => job'[b] = job[b]
    BY <1>2, <2>1, <2>4
  <2>7. Shapes'
    BY <2>5, <2>6 DEF IInv, Shapes
  <2>8. TypeOK'
    <3>1. \A i \in DOMAIN inst' :
              /\ inst'[i].src \in Source /\ inst'[i].conf \in {w[inst'[i].src] : w \in Wanted}
              /\ inst'[i].cancelled \in BOOLEAN
              /\ inst'[i].at \in {"idle", "fetched", "exited"}
              /\ inst'[i].hosts \in Documents \cup {{}}
      BY <2>5 DEF IInv, TypeOK, InstType
    <3>2. /\ DOMAIN active' \subseteq Source
          /\ \A r \in DOMAIN active' : active'[r] \in DOMAIN inst' /\ inst'[active'[r]].src = r
      BY <2>1, <2>5 DEF IInv, TypeOK
    <3>3. \A b \in Actor : /\ job'[b].at \in {"idle", "loop", "stop", "wait", "stopped"}
                           /\ job'[b].todo \subseteq Source
                           /\ job'[b].wait \subseteq DOMAIN inst'
      <4>1. \A b \in Actor : job'[b].wait \subseteq DOMAIN inst'
        BY <2>2, <2>4, <2>5, <2>6 DEF IInv, TypeOK
      <4> QED BY <2>6, <4>1 DEF JobType
    <3> QED BY <1>1, <2>5, <3>1, <3>2, <3>3 DEF IInv, TypeOK
  <2>9. Owned'
    <3>1. \A r \in DOMAIN active' : /\ r \in DOMAIN active /\ active'[r] = active[r]
                                    /\ active[r] \in DOMAIN inst /\ active[r] # u
      BY <2>1, <2>2 DEF IInv, TypeOK
    <3>2. \A i \in DOMAIN inst' : ~inst'[i].cancelled =>
              inst[i].src \in DOMAIN active' /\ active'[inst[i].src] = i
      BY <2>1, <2>5 DEF IInv, Owned, u
    <3> QED BY <2>5, <3>1, <3>2 DEF IInv, Owned
  <2>10. Waited'
    BY <2>2, <2>3, <2>4, <2>5, <2>6 DEF IInv, TypeOK, Waited
  <2>11. Working'
    <3>1. CASE a = "config"
      BY <1>1, <1>3, <2>1, <2>2, <2>4, <2>6, <3>1 DEF IInv, Working, Conf
    <3>2. CASE a = "shutdown"
      BY <1>1, <1>3, <2>1, <2>2, <2>4, <2>6, <3>2 DEF IInv, Working, Conf
    <3> QED BY <3>1, <3>2 DEF Actor
  <2>12. ~cancelled => a = "config"
    BY <1>1, <1>3 DEF IInv, Working, Actor
  <2>13. Stopping'
    BY <1>1, <1>2, <1>3, <2>4, <2>5, <2>6, <2>12 DEF IInv, Stopping, Conf
  <2>14. HostsOwned'
    BY <1>1, <1>3, <2>1, <2>4, <2>6, <2>12 DEF IInv, HostsOwned
  <2> QED
    BY <2>7, <2>8, <2>9, <2>10, <2>11, <2>13, <2>14 DEF IInv
<1> QED
  BY <1>4, <1>5

-----------------------------------------------------------------------------
(* What Apply does with a source that has to be removed or started.         *)

LEMMA DisabledOK ==
    ASSUME IInv, NEW s \in Source, Disabled(s)
    PROVE  IInv'
<1> DEFINE new == Todo(s)
<1>1. /\ UNCHANGED <<cancelled, active, inst, giveUps, failed, abandoned>>
      /\ sets' = [r \in DOMAIN sets \ {s} |-> sets[r]]
      /\ job' = [job EXCEPT !["config"] = new]
      /\ Conf.at = "stopped" /\ Conf.src = s /\ Conf.want \in Wanted
  BY DEF Disabled, StoreRemove, Without, Conf, IInv, Working
<1>2. "config" \in Actor /\ "shutdown" \in Actor /\ job \in [Actor -> JobType]
      /\ Conf \in JobType /\ Conf.wait = {}
  BY <1>1 DEF Actor, IInv, Shapes, Waited, Conf
<1>3. new \in JobType /\ new.at = "loop" /\ new.src = Off /\ new.wait = {}
      /\ new.want = Conf.want
  BY <1>2 DEF Todo, JobType, Conf
<1> HIDE DEF new
<1>4. /\ job' \in [Actor -> JobType] /\ Conf' = new
      /\ \A a \in Actor : job'[a].wait = job[a].wait
      /\ \A a \in Actor \ {"config"} : job'[a] = job[a]
  BY <1>1, <1>2, <1>3 DEF Conf
<1>5. Shapes' /\ Owned' /\ Stopping'
  BY <1>1, <1>2, <1>4 DEF IInv, Shapes, Owned, Stopping, Conf
<1>6. TypeOK'
  <2>1. \A a \in Actor : /\ job'[a].at \in {"idle", "loop", "stop", "wait", "stopped"}
                         /\ job'[a].todo \subseteq Source
                         /\ job'[a].wait \subseteq DOMAIN inst
    BY <1>4 DEF IInv, TypeOK, JobType
  <2> QED BY <1>1, <2>1 DEF IInv, TypeOK
<1>7. Waited' /\ Working'
  BY <1>1, <1>2, <1>3, <1>4 DEF IInv, Waited, Working, Conf
<1>8. HostsOwned'
  BY <1>1, <1>4 DEF IInv, HostsOwned, Conf
<1> QED
  BY <1>5, <1>6, <1>7, <1>8 DEF IInv

LEMMA StartOK ==
    ASSUME IInv, NEW s \in Source, Start(s)
    PROVE  IInv'
<1>1. UNCHANGED <<cancelled, sets, giveUps, abandoned>> /\ Wants(s) # Off
  BY DEF Start
<1>2. "config" \in Actor /\ "shutdown" \in Actor /\ job \in [Actor -> JobType]
      /\ Conf \in JobType
  BY DEF Actor, IInv, Shapes, Conf
<1>3. /\ s \notin DOMAIN active /\ Conf.want \in Wanted
      /\ Conf.src = s \/ Conf.src = Off
      /\ Conf.at # "wait" /\ Conf.wait = {}
  <2>1. \/ Conf.at = "loop" /\ s \notin DOMAIN active
        \/ Conf.at = "stopped" /\ Conf.src = s
    BY DEF Start, Decided, Conf
  <2>2. Conf.at # "wait" => Conf.wait = {}
    BY <1>2 DEF IInv, Waited, Conf
  <2> QED BY <2>1, <2>2 DEF IInv, Working
<1>4. PICK new : /\ job' = [job EXCEPT !["config"] = new]
                 /\ new \in JobType /\ new.at = "loop" /\ new.src = Off
                 /\ new.wait = {} /\ new.want = Conf.want
  <2> DEFINE done == Todo(s)
             err == [Todo(s) EXCEPT !.err = TRUE]
  <2>1. done \in JobType /\ done.at = "loop" /\ done.src = Off /\ done.wait = {}
        /\ done.want = Conf.want
    BY <1>2, <1>3 DEF Todo, JobType, Conf
  <2>2. err \in JobType /\ err.at = "loop" /\ err.src = Off /\ err.wait = {}
        /\ err.want = Conf.want
    BY <2>1 DEF JobType
  <2>3. job' = [job EXCEPT !["config"] = done] \/ job' = [job EXCEPT !["config"] = err]
    BY DEF Start
  <2> HIDE DEF done, err
  <2> QED BY <2>1, <2>2, <2>3
<1>5. /\ job' \in [Actor -> JobType] /\ Conf' = new
      /\ \A a \in Actor : job'[a].wait = job[a].wait
      /\ \A a \in Actor \ {"config"} : job'[a] = job[a]
  BY <1>2, <1>3, <1>4 DEF Conf
<1>6. CASE UNCHANGED <<active, inst>> /\ failed' = failed \cup {s}
  <2>1. Shapes' /\ Owned' /\ Stopping'
    BY <1>1, <1>2, <1>5, <1>6 DEF IInv, Shapes, Owned, Stopping, Conf
  <2>2. TypeOK'
    <3>1. \A a \in Actor : /\ job'[a].at \in {"idle", "loop", "stop", "wait", "stopped"}
                           /\ job'[a].todo \subseteq Source
                           /\ job'[a].wait \subseteq DOMAIN inst
      BY <1>5 DEF IInv, TypeOK, JobType
    <3> QED BY <1>1, <1>6, <3>1 DEF IInv, TypeOK
  <2>3. Waited' /\ Working'
    BY <1>1, <1>2, <1>3, <1>4, <1>5, <1>6 DEF IInv, Waited, Working, Conf
  <2>4. HostsOwned'
    BY <1>1, <1>3, <1>6, OffAssumption DEF IInv, TypeOK, HostsOwned, Conf
  <2> QED
    BY <2>1, <2>2, <2>3, <2>4 DEF IInv
<1>7. ASSUME NEW i \in Instance \ DOMAIN inst,
             active' = With(active, s, i),
             inst' = With(inst, i, [src |-> s, conf |-> Wants(s), cancelled |-> FALSE,
                                    at |-> "idle", hosts |-> {}]),
             failed' = failed \ {s}
      PROVE  IInv'
  <2> DEFINE born == [src |-> s, conf |-> Wants(s), cancelled |-> FALSE,
                      at |-> "idle", hosts |-> {}]
  <2>1. /\ Wants(s) \in {w[s] : w \in Wanted} /\ Wants(s) \in Confs
    BY <1>3 DEF Wants, Conf, Confs
  <2>2. /\ born \in InstType /\ born.src = s /\ born.conf = Wants(s)
        /\ born.cancelled = FALSE /\ born.at = "idle" /\ born.hosts = {}
    BY <2>1 DEF InstType
  <2> HIDE DEF born
  <2>3. /\ DOMAIN inst' = DOMAIN inst \cup {i} /\ inst'[i] = born
        /\ \A j \in DOMAIN inst : j # i /\ inst'[j] = inst[j]
    BY <1>7 DEF With, born
  <2>4. /\ DOMAIN active' = DOMAIN active \cup {s} /\ active'[s] = i
        /\ \A r \in DOMAIN active : r # s /\ active'[r] = active[r]
    BY <1>3, <1>7 DEF With
  <2>5. Shapes'
    BY <1>5, <2>2, <2>3 DEF IInv, Shapes
  <2>6. TypeOK'
    <3>1. \A j \in DOMAIN inst' :
              /\ inst'[j].src \in Source /\ inst'[j].conf \in {w[inst'[j].src] : w \in Wanted}
              /\ inst'[j].cancelled \in BOOLEAN
              /\ inst'[j].at \in {"idle", "fetched", "exited"}
              /\ inst'[j].hosts \in Documents \cup {{}}
      <4>1. \A j \in DOMAIN inst :
              /\ inst[j].src \in Source /\ inst[j].conf \in {w[inst[j].src] : w \in Wanted}
              /\ inst[j].cancelled \in BOOLEAN
              /\ inst[j].at \in {"idle", "fetched", "exited"}
              /\ inst[j].hosts \in Documents \cup {{}}
        BY DEF IInv, TypeOK
      <4>2. /\ born.src \in Source /\ born.conf \in {w[born.src] : w \in Wanted}
            /\ born.cancelled \in BOOLEAN
            /\ born.at \in {"idle", "fetched", "exited"}
            /\ born.hosts \in Documents \cup {{}}
        BY <2>1, <2>2
      <4> QED BY <2>3, <4>1, <4>2
    <3>2. \A r \in DOMAIN active' : active'[r] \in DOMAIN inst' /\ inst'[active'[r]].src = r
      BY <2>2, <2>3, <2>4 DEF IInv, TypeOK
    <3>3. DOMAIN active' \subseteq Source /\ DOMAIN inst' \subseteq Instance
          /\ failed' \subseteq Source
      BY <1>7, <2>3, <2>4 DEF IInv, TypeOK
    <3>4. \A a \in Actor : /\ job'[a].at \in {"idle", "loop", "stop", "wait", "stopped"}
                           /\ job'[a].todo \subseteq Source
                           /\ job'[a].wait \subseteq DOMAIN inst'
      BY <1>5, <2>3 DEF IInv, TypeOK, JobType
    <3> QED BY <1>1, <3>1, <3>2, <3>3, <3>4 DEF IInv, TypeOK
  <2>7. Owned'
    <3>1. \A r \in DOMAIN active' : ~inst'[active'[r]].cancelled
      BY <2>2, <2>3, <2>4 DEF IInv, TypeOK, Owned
    <3>2. \A j \in DOMAIN inst' : ~inst'[j].cancelled =>
              inst'[j].src \in DOMAIN active' /\ active'[inst'[j].src] = j
      BY <2>2, <2>3, <2>4 DEF IInv, Owned
    <3> QED BY <3>1, <3>2 DEF Owned
  <2>8. Waited'
    BY <1>2, <1>3, <1>4, <1>5, <2>3 DEF IInv, TypeOK, Waited, Conf
  <2>9. Working'
    BY <1>1, <1>2, <1>3, <1>4, <1>5 DEF IInv, Working
  <2>10. Stopping'
    BY <1>1, <1>2, <1>5, <2>2, <2>3 DEF IInv, Stopping, Conf
  <2>11. HostsOwned'
    BY <1>1, <1>3, <1>7, <2>4, OffAssumption DEF IInv, TypeOK, HostsOwned, Conf
  <2> QED
    BY <2>5, <2>6, <2>7, <2>8, <2>9, <2>10, <2>11 DEF IInv
<1> QED
  BY <1>6, <1>7 DEF Start

-----------------------------------------------------------------------------
(* The theorems.                                                            *)

LEMMA NextIInv ==
    IInv /\ [Next]_vars => IInv'
<1> SUFFICES ASSUME IInv, [Next]_vars
             PROVE  IInv'
  OBVIOUS
<1>1. CASE (\E w \in Wanted : Apply(w)) \/ Applied
  BY <1>1, ApplyStepsOK
<1>2. ASSUME NEW s \in Source, Skip(s) \/ Change(s)
      PROVE  IInv'
  BY <1>2, ApplyStepsOK
<1>3. ASSUME NEW s \in Source, Disabled(s)
      PROVE  IInv'
  BY <1>3, DisabledOK
<1>4. ASSUME NEW s \in Source, Start(s)
      PROVE  IInv'
  BY <1>4, StartOK
<1>5. CASE Stop \/ \E s \in Source : StopNext(s)
  BY <1>5, StopStepsOK
<1>6. ASSUME NEW a \in Actor, Unregister(a) \/ Joined(a) \/ GiveUp(a)
      PROVE  IInv'
  BY <1>6, UnregisterOK, JoinedOK, GiveUpOK
<1>7. ASSUME NEW i \in DOMAIN inst, Deliver(i) \/ Exit(i)
      PROVE  IInv'
  BY <1>7, DeliverOK, ExitOK
<1>8. ASSUME NEW i \in DOMAIN inst, NEW hosts \in Documents, Fetch(i, hosts)
      PROVE  IInv'
  BY <1>8, FetchOK
<1>9. CASE Snapshot \/ Cancel
  BY <1>9, ContextOK
<1>10. CASE UNCHANGED vars
  <2>1. UNCHANGED <<cancelled, active, inst, sets, job, giveUps, failed, abandoned>>
    BY <1>10 DEF vars
  <2> QED
    BY <2>1 DEF IInv, Shapes, TypeOK, Owned, Waited, Working, Stopping, HostsOwned, Conf
<1> QED
  BY <1>1, <1>2, <1>3, <1>4, <1>5, <1>6, <1>7, <1>8, <1>9, <1>10 DEF Next

\* The inductive invariant holds in every reachable state of discovery.
THEOREM Inductive == Spec => []IInv
BY InitIInv, NextIInv, PTL DEF Spec

\* The manager, its providers and the inventory are well typed.
THEOREM TypeCorrect == Spec => []TypeOK
<1>1. IInv => TypeOK
  BY DEF IInv
<1> QED BY Inductive, <1>1, PTL

\* Whatever reloads, failing starts and late exits occur, two goroutines of
\* a source deliver only after a stop of that source gave up.
THEOREM OneWriterAlways == Spec => []SingleWriter
BY Inductive, OneWriter, PTL

\* Hosts outlive their provider only when its restart failed or a stop gave
\* up.
THEOREM HostsAlwaysOwned == Spec => []HostsOwned
<1>1. IInv => HostsOwned
  BY DEF IInv
<1> QED BY Inductive, <1>1, PTL
-----------------------------------------------------------------------------
(* What Apply leaves.  A source that Apply has dealt with is as wanted, and  *)
(* stays so: providers come and go only by Apply's own hand while the       *)
(* process runs, and the source that is being stopped is one still to do.   *)

AsWanted(s) ==
    IF Wants(s) = Off THEN s \notin DOMAIN active
    ELSE s \in DOMAIN active /\ inst[active[s]].conf = Wants(s)

EInv ==
    /\ Conf.at \in {"stop", "wait", "stopped"} => Conf.src \in Conf.todo
    /\ ~cancelled /\ Conf.at # "idle" /\ ~Conf.err =>
           \A s \in Source \ Conf.todo : AsWanted(s)

\* The provider of source s is the same, or none, as before the step.
Alike(s) ==
    /\ s \in DOMAIN active' <=> s \in DOMAIN active
    /\ s \in DOMAIN active => inst'[active'[s]].conf = inst[active[s]].conf

LEMMA DoneStays ==
    ASSUME EInv, cancelled => cancelled', Conf.at # "idle" \/ Conf'.at = "idle",
           Conf'.want = Conf.want, Conf.err => Conf'.err,
           Conf'.at \in {"stop", "wait", "stopped"} => Conf'.src \in Conf'.todo,
           ~cancelled' /\ ~Conf'.err => \A s \in Source \ Conf'.todo :
               (s \notin Conf.todo /\ Alike(s)) \/ AsWanted(s)'
    PROVE  EInv'
<1>1. \A s : Wants(s)' = Wants(s)
  BY DEF Wants, Conf
<1>2. ASSUME ~cancelled', Conf'.at # "idle", ~Conf'.err, NEW s \in Source \ Conf'.todo
      PROVE  AsWanted(s)'
  <2>1. CASE s \notin Conf.todo /\ Alike(s)
    <3>1. AsWanted(s)
      BY <1>2, <2>1 DEF EInv
    <3> QED BY <1>1, <2>1, <3>1 DEF AsWanted, Alike
  <2>2. CASE AsWanted(s)'
    BY <2>2
  <2> QED BY <1>2, <2>1, <2>2
<1> QED
  BY <1>2 DEF EInv

\* What goroutines, readers and the process's context do to providers.
LEMMA ElsewhereExact ==
    ASSUME IInv, IInv', EInv,
           \/ \E i \in DOMAIN inst :
                  Deliver(i) \/ Exit(i) \/ \E hosts \in Documents : Fetch(i, hosts)
           \/ Snapshot \/ Cancel
    PROVE  EInv'
<1>1. UNCHANGED <<job, active>>
  BY DEF Deliver, Exit, Fetch, Snapshot, Cancel
<1>2. \A s \in DOMAIN active : active[s] \in DOMAIN inst /\ active[s] \in DOMAIN inst'
  BY <1>1 DEF IInv, TypeOK
<1>3. \A j \in DOMAIN inst : inst[j] \in InstType
  BY DEF IInv, Shapes
<1>4. \A j \in DOMAIN inst \cap DOMAIN inst' : inst'[j].conf = inst[j].conf
  <2>1. ASSUME NEW i \in DOMAIN inst, Deliver(i)
        PROVE  \A j \in DOMAIN inst : inst'[j].conf = inst[j].conf
    BY <1>3, <2>1 DEF Deliver, InstType
  <2>2. ASSUME NEW i \in DOMAIN inst, NEW hosts \in Documents, Fetch(i, hosts)
        PROVE  \A j \in DOMAIN inst : inst'[j].conf = inst[j].conf
    BY <1>3, <2>2 DEF Fetch, InstType
  <2>3. ASSUME NEW i \in DOMAIN inst, Exit(i)
        PROVE  \A j \in DOMAIN inst \cap DOMAIN inst' : inst'[j].conf = inst[j].conf
    BY <1>3, <2>3 DEF Exit, Without, InstType
  <2>4. CASE Snapshot \/ Cancel
    BY <2>4 DEF Snapshot, Cancel
  <2> QED BY <2>1, <2>2, <2>3, <2>4
<1>5. \A s \in Source : Alike(s)
  BY <1>1, <1>2, <1>4 DEF Alike
<1>6. Conf' = Conf
  BY <1>1 DEF Conf
<1>7. cancelled => cancelled'
  <2>1. CASE Snapshot \/ Cancel
    BY <2>1 DEF Snapshot, Cancel
  <2>2. CASE \E i \in DOMAIN inst :
                 Deliver(i) \/ Exit(i) \/ \E hosts \in Documents : Fetch(i, hosts)
    BY <2>2 DEF Deliver, Exit, Fetch
  <2> QED BY <2>1, <2>2
<1> QED
  BY <1>5, <1>6, <1>7, DoneStays DEF EInv

\* stop takes away the one provider that Apply is working on.
LEMMA StopExact ==
    ASSUME IInv, IInv', EInv, NEW a \in Actor, Unregister(a) \/ Joined(a) \/ GiveUp(a)
    PROVE  EInv'
<1>1. job \in [Actor -> JobType] /\ "config" \in Actor /\ "shutdown" \in Actor
  BY DEF IInv, Shapes, Actor
<1>2. /\ cancelled' = cancelled
      /\ job[a].at \in {"stop", "wait"}
      /\ \A b \in Actor : /\ job'[b].want = job[b].want /\ job'[b].err = job[b].err
                          /\ job'[b].todo = job[b].todo /\ job'[b].src = job[b].src
                          /\ job'[b].at = job[b].at \/ job[b].at \in {"stop", "wait"}
  BY <1>1 DEF Unregister, Joined, GiveUp, JobType
<1>3. \A s \in DOMAIN active' : active'[s] \in DOMAIN inst'
  BY DEF IInv, TypeOK
<1>4. \A j \in DOMAIN inst : inst[j] \in InstType
  BY DEF IInv, Shapes
<1>5. \A j \in DOMAIN inst \cap DOMAIN inst' : inst'[j].conf = inst[j].conf
  BY <1>4 DEF Unregister, Joined, GiveUp, InstType
<1>6. \A s \in Source : s # job[a].src => /\ s \in DOMAIN active' <=> s \in DOMAIN active
                                          /\ s \in DOMAIN active => active'[s] = active[s]
  BY DEF Unregister, Joined, GiveUp, Without
<1>7. \A s \in Source : s # job[a].src => Alike(s)
  BY <1>3, <1>5, <1>6 DEF IInv, TypeOK, Alike
<1>8. ~cancelled => a = "config"
  <2>1. NoJob.at = "idle"
    BY DEF NoJob
  <2> QED BY <1>2, <2>1 DEF IInv, Working, Actor
<1>9. a = "config" => job[a].src \in Conf.todo
  BY <1>2 DEF EInv, Conf
<1>10. /\ Conf'.want = Conf.want /\ Conf'.err = Conf.err
       /\ Conf'.todo = Conf.todo /\ Conf'.src = Conf.src
       /\ Conf'.at = Conf.at \/ Conf.at \in {"stop", "wait"}
  BY <1>1, <1>2 DEF Conf
<1>11. Conf.at \in {"stop", "wait", "stopped"} => Conf.src \in Conf.todo
  BY DEF EInv
<1>12. Conf.at # "idle" \/ Conf'.at = "idle"
  BY <1>10
<1>13. Conf'.at \in {"stop", "wait", "stopped"} => Conf'.src \in Conf'.todo
  BY <1>10, <1>11
<1> QED
  BY <1>2, <1>7, <1>8, <1>9, <1>10, <1>12, <1>13, DoneStays

\* Apply deals with a source only when it leaves it as wanted.
LEMMA ApplyExact ==
    ASSUME IInv, IInv', EInv,
           \/ \E w \in Wanted : Apply(w)
           \/ \E s \in Source : Skip(s) \/ Change(s) \/ Disabled(s)
           \/ Applied
    PROVE  EInv'
<1>1. job \in [Actor -> JobType] /\ "config" \in Actor /\ Conf \in JobType
  BY DEF IInv, Shapes, Actor, Conf
<1>2. UNCHANGED <<cancelled, active, inst>>
  BY DEF Apply, Skip, Change, Disabled, Applied
<1>3. \A s \in Source : Alike(s)
  BY <1>2 DEF Alike
<1>4. ASSUME NEW w \in Wanted, Apply(w)
      PROVE  EInv'
  <2>1. Conf'.at = "loop" /\ Conf'.todo = Source
    BY <1>1, <1>4 DEF Apply, Conf, NoJob
  <2> QED BY <2>1 DEF EInv
<1>5. CASE Applied
  <2>1. Conf'.at = "idle"
    BY <1>1, <1>5 DEF Applied, Conf, NoJob
  <2> QED BY <2>1 DEF EInv
<1>6. ASSUME NEW s \in Source, Change(s)
      PROVE  EInv'
  <2>1. /\ Conf.at = "loop" /\ s \in Conf.todo
        /\ Conf'.at = "stop" /\ Conf'.src = s /\ Conf'.todo = Conf.todo
        /\ Conf'.want = Conf.want /\ Conf'.err = Conf.err
    BY <1>1, <1>6 DEF Change, Decided, Conf, JobType
  <2> QED BY <1>2, <1>3, <2>1, DoneStays
<1>7. ASSUME NEW s \in Source, Skip(s) \/ Disabled(s)
      PROVE  EInv'
  <2>1. /\ Conf.at \in {"loop", "stopped"}
        /\ Conf'.at = "loop" /\ Conf'.todo = Conf.todo \ {s}
        /\ Conf'.want = Conf.want /\ Conf'.err = Conf.err
    <3>1. job' = [job EXCEPT !["config"] = Todo(s)] /\ Conf.at \in {"loop", "stopped"}
      BY <1>7 DEF Skip, Disabled, Decided, Conf
    <3> QED BY <1>1, <3>1 DEF Todo, Conf, JobType
  <2>2. AsWanted(s)
    <3>1. CASE Skip(s)
      BY <3>1 DEF Skip, AsWanted
    <3>2. CASE Disabled(s)
      BY <3>2 DEF Disabled, AsWanted, IInv, Working, Conf
    <3> QED BY <1>7, <3>1, <3>2
  <2>3. AsWanted(s)'
    BY <1>2, <2>1, <2>2 DEF AsWanted, Wants, Conf
  <2> QED BY <1>2, <1>3, <2>1, <2>3, DoneStays
<1> QED BY <1>4, <1>5, <1>6, <1>7

LEMMA StartExact ==
    ASSUME IInv, IInv', EInv, NEW s \in Source, Start(s)
    PROVE  EInv'
<1>1. job \in [Actor -> JobType] /\ "config" \in Actor /\ Conf \in JobType
  BY DEF IInv, Shapes, Actor, Conf
<1>2. /\ Conf.at \in {"loop", "stopped"} /\ s \notin DOMAIN active
      /\ cancelled' = cancelled /\ Wants(s) # Off
  BY DEF Start, Decided, Conf, IInv, Working
<1>3. CASE job' = [job EXCEPT !["config"] = [Todo(s) EXCEPT !.err = TRUE]]
  <2>1. Conf'.err /\ Conf'.at = "loop"
    BY <1>1, <1>3 DEF Todo, Conf, JobType
  <2> QED BY <2>1 DEF EInv
<1>4. ASSUME NEW i \in Instance \ DOMAIN inst, NEW born,
             born.conf = Wants(s),
             active' = With(active, s, i), inst' = With(inst, i, born),
             job' = [job EXCEPT !["config"] = Todo(s)]
      PROVE  EInv'
  <2>1. /\ Conf'.at = "loop" /\ Conf'.todo = Conf.todo \ {s}
        /\ Conf'.want = Conf.want /\ Conf'.err = Conf.err
    BY <1>1, <1>4 DEF Todo, Conf, JobType
  <2>2. /\ DOMAIN active' = DOMAIN active \cup {s} /\ active'[s] = i
        /\ \A r \in DOMAIN active : r # s /\ active'[r] = active[r]
    BY <1>2, <1>4 DEF With
  <2>3. /\ inst'[i] = born
        /\ \A j \in DOMAIN inst : inst'[j] = inst[j]
    BY <1>4 DEF With
  <2>4. AsWanted(s)'
    BY <1>2, <1>4, <2>1, <2>2, <2>3 DEF AsWanted, Wants, Conf
  <2>5. \A r \in Source : r # s => Alike(r)
    BY <2>2, <2>3 DEF Alike, IInv, TypeOK
  <2> QED BY <1>2, <2>1, <2>4, <2>5, DoneStays
<1>5. ASSUME NEW i \in Instance \ DOMAIN inst,
             active' = With(active, s, i),
             inst' = With(inst, i, [src |-> s, conf |-> Wants(s), cancelled |-> FALSE,
                                    at |-> "idle", hosts |-> {}]),
             job' = [job EXCEPT !["config"] = Todo(s)]
      PROVE  EInv'
  BY <1>4, <1>5
<1> QED BY <1>3, <1>5 DEF Start

LEMMA ShutdownExact ==
    ASSUME IInv, IInv', EInv, Stop \/ \E s \in Source : StopNext(s)
    PROVE  EInv'
<1>1. job'["config"] = job["config"]
  <2>1. job \in [Actor -> JobType] /\ "config" \in Actor
    BY DEF IInv, Shapes, Actor
  <2>2. CASE Stop
    BY <2>1, <2>2 DEF Stop
  <2>3. ASSUME NEW s \in Source, StopNext(s)
        PROVE  job'["config"] = job["config"]
    BY <2>1, <2>3 DEF StopNext
  <2> QED BY <2>2, <2>3
<1>2. UNCHANGED <<cancelled, active, inst>>
  BY DEF Stop, StopNext
<1>3. Conf' = Conf
  BY <1>1 DEF Conf
<1>4. \A s \in Source : Alike(s)
  BY <1>2 DEF Alike
<1> QED BY <1>2, <1>3, <1>4, DoneStays DEF EInv

LEMMA NextEInv ==
    IInv /\ IInv' /\ EInv /\ [Next]_vars => EInv'
<1> SUFFICES ASSUME IInv, IInv', EInv, [Next]_vars
             PROVE  EInv'
  OBVIOUS
<1>1. ASSUME NEW w \in Wanted, Apply(w)
      PROVE  EInv'
  BY <1>1, ApplyExact
<1>2. ASSUME NEW s \in Source, Skip(s) \/ Change(s) \/ Disabled(s)
      PROVE  EInv'
  BY <1>2, ApplyExact
<1>3. ASSUME NEW s \in Source, Start(s)
      PROVE  EInv'
  BY <1>3, StartExact
<1>4. ASSUME NEW s \in Source, StopNext(s)
      PROVE  EInv'
  BY <1>4, ShutdownExact
<1>5. ASSUME NEW a \in Actor, Unregister(a) \/ Joined(a) \/ GiveUp(a)
      PROVE  EInv'
  BY <1>5, StopExact
<1>6. ASSUME NEW i \in DOMAIN inst,
             Deliver(i) \/ Exit(i) \/ \E hosts \in Documents : Fetch(i, hosts)
      PROVE  EInv'
  BY <1>6, ElsewhereExact
<1>7. CASE Snapshot \/ Cancel
  BY <1>7, ElsewhereExact
<1>8. CASE Applied
  BY <1>8, ApplyExact
<1>9. CASE Stop
  BY <1>9, ShutdownExact
<1>10. CASE UNCHANGED vars
  <2>1. UNCHANGED <<cancelled, active, inst, job>>
    BY <1>10 DEF vars
  <2> QED BY <2>1 DEF EInv, AsWanted, Wants, Conf
<1> QED
  BY <1>1, <1>2, <1>3, <1>4, <1>5, <1>6, <1>7, <1>8, <1>9, <1>10 DEF Next

\* Apply that reports no error leaves exactly the enabled sources running,
\* each with its new configuration, however many starts failed, stops gave up
\* and providers were slow to exit in this call and in earlier ones.
THEOREM AppliedAlwaysExact == Spec => AppliedExact
<1>1. Init => EInv
  BY DEF Init, EInv, Conf, Actor, NoJob
<1>2. Spec => []EInv
  BY <1>1, Inductive, NextEInv, PTL DEF Spec
<1>3. EInv /\ [Next]_vars =>
          [(Applied /\ ~cancelled /\ ~job["config"].err) =>
              \A s \in Source :
                  IF Wants(s) = Off THEN s \notin DOMAIN active
                  ELSE s \in DOMAIN active /\ inst[active[s]].conf = Wants(s)]_vars
  BY DEF EInv, Applied, AsWanted, Conf
<1> QED BY <1>2, <1>3, PTL DEF Spec, AppliedExact
-----------------------------------------------------------------------------
(* Induction over the merged sources.  The library's induction theorems     *)
(* take an operator as a parameter; a set of numbers in its place is enough. *)

LEMMA LeastNat ==
    ASSUME NEW T \in SUBSET Nat, T # {}
    PROVE  \E n \in T : \A m \in T : n <= m
<1>1. IsWellFoundedOn(OpToRel(<, Nat), Nat)
  BY NatLessThanWellFounded
<1>2. PICK n \in T : \A m \in T : <<m, n>> \notin OpToRel(<, Nat)
  BY <1>1, WFMin
<1>3. \A m \in T : ~(m < n)
  BY <1>2 DEF OpToRel
<1> QED BY <1>3

LEMMA Induction ==
    ASSUME NEW T, 0 \in T, \A n \in Nat : n \in T => n + 1 \in T
    PROVE  Nat \subseteq T
<1> SUFFICES ASSUME Nat \ T # {}
             PROVE  FALSE
  OBVIOUS
<1>1. PICK n \in Nat \ T : \A m \in Nat \ T : n <= m
  BY LeastNat
<1>2. n # 0 /\ n - 1 \in Nat /\ n - 1 \in T
  BY <1>1
<1>3. (n - 1) + 1 \in T
  BY <1>2
<1> QED BY <1>1, <1>2, <1>3

\* What merging yields after the first n sources of an order.
Merged(order, n, g) ==
    g = [i \in 0..n |-> IF i = 0 THEN <<>> ELSE Insert(g[i - 1], order[i])]

LEMMA MergedExists ==
    ASSUME NEW order, NEW n \in Nat
    PROVE  \E g : Merged(order, n, g)
<1> DEFINE T == {k \in Nat : \E g : Merged(order, k, g)}
<1>1. 0 \in T
  <2> DEFINE g == [i \in 0..0 |-> <<>>]
  <2>1. \A i \in 0..0 : i = 0
    OBVIOUS
  <2>2. Merged(order, 0, g)
    BY <2>1 DEF Merged
  <2> QED BY <2>2
<1>2. ASSUME NEW k \in Nat, k \in T
      PROVE  k + 1 \in T
  <2>1. PICK g : Merged(order, k, g)
    BY <1>2
  <2> DEFINE h == [i \in 0..(k + 1) |->
                      IF i = k + 1 THEN Insert(g[k], order[k + 1]) ELSE g[i]]
  <2>2. \A i \in 0..k : g[i] = IF i = 0 THEN <<>> ELSE Insert(g[i - 1], order[i])
    BY <2>1 DEF Merged
  <2>3. \A i \in 0..(k + 1) :
            h[i] = IF i = 0 THEN <<>> ELSE Insert(h[i - 1], order[i])
    <3>1. h[k + 1] = Insert(h[k], order[k + 1])
      OBVIOUS
    <3>2. \A i \in 0..k : h[i] = g[i] /\ (i # 0 => h[i - 1] = g[i - 1])
      OBVIOUS
    <3>3. \A i \in 0..(k + 1) : i = k + 1 \/ i \in 0..k
      OBVIOUS
    <3> HIDE DEF h
    <3> QED BY <2>2, <3>1, <3>2, <3>3
  <2>4. Merged(order, k + 1, h)
    BY <2>3 DEF Merged
  <2> QED BY <2>4
<1>3. Nat \subseteq T
  <2> HIDE DEF T
  <2> QED BY <1>1, <1>2, Induction
<1> QED BY <1>3

\* The records after n sources: of exactly the hosts that these know, each
\* of one of them that has the highest priority among those that know it.
Faithful(order, n, byID) ==
    /\ \A h : h \in DOMAIN byID <=> \E i \in 1..n : h \in sets[order[i]].hosts
    /\ \A h \in DOMAIN byID :
           /\ \E i \in 1..n :
                  /\ h \in sets[order[i]].hosts
                  /\ byID[h].src = order[i] /\ byID[h].prio = sets[order[i]].prio
           /\ \A i \in 1..n : h \in sets[order[i]].hosts =>
                  sets[order[i]].prio <= byID[h].prio

LEMMA InsertFaithful ==
    ASSUME NEW order, NEW n \in Nat, NEW byID, Faithful(order, n, byID),
           \A i \in 1..(n + 1) : sets[order[i]].prio \in Nat
    PROVE  Faithful(order, n + 1, Insert(byID, order[n + 1]))
<1> DEFINE s    == order[n + 1]
           kept == {h \in DOMAIN byID : h \in sets[s].hosts =>
                                            byID[h].prio >= sets[s].prio}
           next == Insert(byID, s)
<1>1. /\ DOMAIN next = DOMAIN byID \cup sets[s].hosts
      /\ \A h \in kept : next[h] = byID[h]
      /\ \A h \in DOMAIN next \ kept :
             next[h].src = s /\ next[h].prio = sets[s].prio
  BY DEF Insert
<1>2. \A i : i \in 1..(n + 1) <=> i \in 1..n \/ i = n + 1
  OBVIOUS
<1> HIDE DEF next
<1>3. ASSUME NEW h
      PROVE  h \in DOMAIN next <=> \E i \in 1..(n + 1) : h \in sets[order[i]].hosts
  BY <1>1, <1>2 DEF Faithful
<1>4. ASSUME NEW h \in kept
      PROVE  /\ \E i \in 1..(n + 1) :
                    /\ h \in sets[order[i]].hosts
                    /\ next[h].src = order[i] /\ next[h].prio = sets[order[i]].prio
             /\ \A i \in 1..(n + 1) : h \in sets[order[i]].hosts =>
                    sets[order[i]].prio <= next[h].prio
  <2>1. next[h] = byID[h] /\ h \in DOMAIN byID
    BY <1>1
  <2>2. PICK j \in 1..n : /\ h \in sets[order[j]].hosts
                          /\ byID[h].src = order[j]
                          /\ byID[h].prio = sets[order[j]].prio
    BY <2>1 DEF Faithful
  <2>3. j \in 1..(n + 1) /\ byID[h].prio \in Nat
    BY <2>2
  <2>4. ASSUME NEW i \in 1..(n + 1), h \in sets[order[i]].hosts
        PROVE  sets[order[i]].prio <= byID[h].prio
    <3>1. CASE i \in 1..n
      BY <2>1, <2>4, <3>1 DEF Faithful
    <3>2. CASE i = n + 1
      <4>1. byID[h].prio >= sets[s].prio /\ sets[s].prio \in Nat
        BY <2>4, <3>2
      <4> QED BY <2>3, <3>2, <4>1
    <3> QED BY <1>2, <3>1, <3>2
  <2> QED BY <2>1, <2>2, <2>3, <2>4
<1>5. ASSUME NEW h \in DOMAIN next \ kept
      PROVE  /\ \E i \in 1..(n + 1) :
                    /\ h \in sets[order[i]].hosts
                    /\ next[h].src = order[i] /\ next[h].prio = sets[order[i]].prio
             /\ \A i \in 1..(n + 1) : h \in sets[order[i]].hosts =>
                    sets[order[i]].prio <= next[h].prio
  <2>1. /\ next[h].src = s /\ next[h].prio = sets[s].prio
        /\ h \in sets[s].hosts /\ sets[s].prio \in Nat
        /\ n + 1 \in 1..(n + 1)
    BY <1>1
  <2>2. h \in DOMAIN byID => byID[h].prio \in Nat /\ byID[h].prio < sets[s].prio
    <3>1. h \in DOMAIN byID => byID[h].prio \in Nat
      BY <1>2 DEF Faithful
    <3> QED BY <1>5, <2>1, <3>1
  <2>3. ASSUME NEW i \in 1..(n + 1), h \in sets[order[i]].hosts
        PROVE  sets[order[i]].prio <= next[h].prio
    <3>1. CASE i \in 1..n
      <4>1. h \in DOMAIN byID /\ sets[order[i]].prio <= byID[h].prio
        BY <2>3, <3>1 DEF Faithful
      <4> QED BY <2>1, <2>2, <4>1
    <3>2. CASE i = n + 1
      BY <2>1, <3>2
    <3> QED BY <1>2, <3>1, <3>2
  <2> QED BY <2>1, <2>3
<1> HIDE DEF kept, s
<1>6. Faithful(order, n + 1, next)
  BY <1>3, <1>4, <1>5 DEF Faithful
<1> QED BY <1>6 DEF next, s

LEMMA MergeFaithful ==
    ASSUME NEW order, NEW N \in Nat, Len(order) = N,
           \A i \in 1..N : sets[order[i]].prio \in Nat
    PROVE  Faithful(order, N, Merge(order))
<1> DEFINE merged == CHOOSE g : Merged(order, N, g)
<1>1. Merge(order) = merged[N]
  BY DEF Merge, Merged
<1>2. Merged(order, N, merged)
  BY MergedExists
<1> HIDE DEF merged
<1>3. \A i \in 0..N :
          merged[i] = IF i = 0 THEN <<>> ELSE Insert(merged[i - 1], order[i])
  BY <1>2 DEF Merged
<1> DEFINE T == {k \in Nat : k <= N => Faithful(order, k, merged[k])}
<1>4. 0 \in T
  <2>1. merged[0] = <<>> /\ DOMAIN <<>> = {}
    BY <1>3
  <2>2. \A i : i \notin 1..0
    OBVIOUS
  <2>3. Faithful(order, 0, merged[0])
    BY <2>1, <2>2 DEF Faithful
  <2> QED BY <2>3
<1>5. ASSUME NEW k \in Nat, k \in T
      PROVE  k + 1 \in T
  <2>1. SUFFICES ASSUME k + 1 <= N
                 PROVE  Faithful(order, k + 1, merged[k + 1])
    OBVIOUS
  <2>2. Faithful(order, k, merged[k])
    BY <1>5, <2>1
  <2>3. merged[k + 1] = Insert(merged[k], order[k + 1])
    BY <1>3, <2>1
  <2>4. \A i \in 1..(k + 1) : sets[order[i]].prio \in Nat
    BY <2>1
  <2> QED BY <2>2, <2>3, <2>4, InsertFaithful
<1>6. Nat \subseteq T
  <2> HIDE DEF T
  <2> QED BY <1>4, <1>5, Induction
<1> QED BY <1>1, <1>6

\* A sequence without repetitions, as long as the set, has all its elements.
LEMMA OrderFacts ==
    ASSUME NEW S, IsFiniteSet(S), NEW order \in SetToSeqs(S)
    PROVE  /\ Len(order) = Cardinality(S) /\ Cardinality(S) \in Nat
           /\ \A i \in 1..Cardinality(S) : order[i] \in S
           /\ \A s \in S : \E i \in 1..Cardinality(S) : order[i] = s
<1> DEFINE N == Cardinality(S)
<1>1. N \in Nat
  BY FS_CardinalityType
<1>2. /\ order \in [1..N -> S]
      /\ \A i, j \in 1..N : i # j => order[i] # order[j]
  BY DEF SetToSeqs
<1>3. Len(order) = N
  BY <1>1, <1>2
<1>4. order \in Injection(1..N, S)
  BY <1>2 DEF Injection, IsInjective
<1>5. IsFiniteSet(1..N) /\ Cardinality(1..N) = N
  BY <1>1, FS_Interval
<1>6. order \in Surjection(1..N, S)
  BY <1>4, <1>5, FS_Injection
<1> QED BY <1>1, <1>2, <1>3, <1>6 DEF Surjection

-----------------------------------------------------------------------------
(* The snapshot: a priority is a number, and what is cached is thrown away   *)
(* with every change of the sets it was merged from.                         *)

FInv == /\ \A i \in DOMAIN inst : inst[i].conf.prio \in Nat
        /\ \A s \in DOMAIN sets : sets[s].prio \in Nat
        /\ SnapshotFaithful

LEMMA SnapshotMerged ==
    ASSUME IInv, FInv, Snapshot
    PROVE  FInv'
<1> DEFINE S == DOMAIN sets
           N == Cardinality(S)
<1>1. IsFiniteSet(S)
  <2>1. S \subseteq Source
    BY DEF IInv, TypeOK
  <2> QED BY <2>1, SourceAssumption, FS_Subset
<1>2. PICK order \in SetToSeqs(S) : snap' = Merge(order)
  BY DEF Snapshot
<1>3. /\ Len(order) = N /\ N \in Nat
      /\ \A i \in 1..N : order[i] \in S
      /\ \A s \in S : \E i \in 1..N : order[i] = s
  BY <1>1, <1>2, OrderFacts
<1> HIDE DEF S, N
<1>4. \A i \in 1..N : sets[order[i]].prio \in Nat
  BY <1>3 DEF FInv, S
<1>5. Faithful(order, N, snap')
  BY <1>2, <1>3, <1>4, MergeFaithful
<1>6. DOMAIN snap' = UNION {sets[s].hosts : s \in S}
  <2>1. \A h : h \in DOMAIN snap' <=> \E i \in 1..N : h \in sets[order[i]].hosts
    BY <1>5 DEF Faithful
  <2>2. \A h : h \in DOMAIN snap' <=> \E s \in S : h \in sets[s].hosts
    BY <1>3, <2>1
  <2>3. \A h : h \in UNION {sets[s].hosts : s \in S} <=> \E s \in S : h \in sets[s].hosts
    OBVIOUS
  <2> QED BY <2>2, <2>3
<1>7. ASSUME NEW h \in DOMAIN snap'
      PROVE  /\ snap'[h].src \in S
             /\ h \in sets[snap'[h].src].hosts
             /\ \A s \in S : h \in sets[s].hosts =>
                    sets[s].prio <= sets[snap'[h].src].prio
  <2>1. PICK i \in 1..N : /\ h \in sets[order[i]].hosts
                          /\ snap'[h].src = order[i]
                          /\ snap'[h].prio = sets[order[i]].prio
    BY <1>5 DEF Faithful
  <2>2. \A j \in 1..N : h \in sets[order[j]].hosts =>
            sets[order[j]].prio <= snap'[h].prio
    BY <1>5 DEF Faithful
  <2> QED BY <1>3, <2>1, <2>2
<1>8. sets' = sets /\ inst' = inst
  BY DEF Snapshot
<1> QED BY <1>6, <1>7, <1>8 DEF FInv, SnapshotFaithful, S

\* Nothing that a cached snapshot was merged from has changed.
LEMMA CacheKept ==
    ASSUME FInv,
           snap' = None \/ (snap' = snap /\ DOMAIN sets' = DOMAIN sets),
           \A s \in DOMAIN sets' : s \in DOMAIN sets => sets'[s] = sets[s]
    PROVE  SnapshotFaithful'
<1> SUFFICES ASSUME snap' # None
             PROVE  SnapshotFaithful'
  BY DEF SnapshotFaithful
<1>1. snap' = snap /\ DOMAIN sets' = DOMAIN sets
      /\ \A s \in DOMAIN sets : sets'[s] = sets[s]
  OBVIOUS
<1>2. UNION {sets'[s].hosts : s \in DOMAIN sets'} = UNION {sets[s].hosts : s \in DOMAIN sets}
  BY <1>1
<1> QED BY <1>1, <1>2 DEF FInv, SnapshotFaithful

LEMMA DeliverFaithful ==
    ASSUME IInv, FInv, NEW i \in DOMAIN inst, Deliver(i)
    PROVE  FInv'
<1>1. snap' = None
  BY DEF Deliver, StoreReplace
<1>2. \A j \in DOMAIN inst : inst[j] \in InstType
  BY DEF IInv, Shapes
<1>3. DOMAIN inst' = DOMAIN inst /\ \A j \in DOMAIN inst : inst'[j].conf = inst[j].conf
  BY <1>2 DEF Deliver, InstType
<1>4. \A s \in DOMAIN sets' : sets'[s].prio \in Nat
  <2>1. sets' = With(sets, inst[i].src, [hosts |-> inst[i].hosts, prio |-> inst[i].conf.prio])
    BY DEF Deliver, StoreReplace
  <2> QED BY <2>1 DEF With, FInv
<1> QED BY <1>1, <1>3, <1>4 DEF FInv, SnapshotFaithful

LEMMA DisabledFaithful ==
    ASSUME FInv, NEW s \in Source, Disabled(s)
    PROVE  FInv'
<1>1. /\ sets' = Without(sets, s)
      /\ snap' = IF s \in DOMAIN sets THEN None ELSE snap
      /\ inst' = inst
  BY DEF Disabled, StoreRemove
<1>2. /\ DOMAIN sets' = DOMAIN sets \ {s}
      /\ \A t \in DOMAIN sets' : sets'[t] = sets[t]
  BY <1>1 DEF Without
<1>3. SnapshotFaithful'
  BY <1>1, <1>2, CacheKept
<1> QED BY <1>1, <1>2, <1>3 DEF FInv

LEMMA StartFaithful ==
    ASSUME IInv, FInv, NEW s \in Source, Start(s)
    PROVE  FInv'
<1>1. sets' = sets /\ snap' = snap
  BY DEF Start
<1>2. Wants(s).prio \in Nat
  <2>1. Conf.at # "idle"
    BY DEF Start, Decided, Conf
  <2>2. Conf.want \in Wanted
    BY <2>1 DEF IInv, Working
  <2> QED BY <2>2, WantedAssumption DEF Start, Wants, Conf
<1>3. \A i \in DOMAIN inst' : inst'[i].conf.prio \in Nat
  <2>1. \/ inst' = inst
        \/ \E i : inst' = With(inst, i, [src |-> s, conf |-> Wants(s),
                               cancelled |-> FALSE, at |-> "idle", hosts |-> {}])
    BY DEF Start
  <2>2. ASSUME NEW i, NEW v, v.conf = Wants(s), inst' = With(inst, i, v)
        PROVE  \A j \in DOMAIN inst' : inst'[j].conf.prio \in Nat
    BY <1>2, <2>2 DEF With, FInv
  <2>3. CASE inst' = inst
    BY <2>3 DEF FInv
  <2> QED BY <2>1, <2>2, <2>3
<1>4. SnapshotFaithful'
  BY <1>1, CacheKept
<1> QED BY <1>1, <1>3, <1>4 DEF FInv

LEMMA NextFInv ==
    IInv /\ FInv /\ [Next]_vars => FInv'
<1> SUFFICES ASSUME IInv, FInv, [Next]_vars
             PROVE  FInv'
  OBVIOUS
<1>1. \A j \in DOMAIN inst : inst[j] \in InstType
  BY DEF IInv, Shapes
<1>2. ASSUME UNCHANGED <<sets, snap>>, DOMAIN inst' \subseteq DOMAIN inst,
             \A j \in DOMAIN inst' : inst'[j].conf = inst[j].conf
      PROVE  FInv'
  <2>1. SnapshotFaithful'
    BY <1>2, CacheKept
  <2> QED BY <1>2, <2>1 DEF FInv
<1>3. ASSUME NEW s \in Source, Skip(s) \/ Change(s) \/ StopNext(s)
      PROVE  FInv'
  BY <1>2, <1>3 DEF Skip, Change, StopNext
<1>4. ASSUME NEW w \in Wanted, Apply(w)
      PROVE  FInv'
  BY <1>2, <1>4 DEF Apply
<1>5. CASE Applied \/ Cancel \/ Stop
  BY <1>2, <1>5 DEF Applied, Cancel, Stop
<1>6. CASE UNCHANGED vars
  BY <1>2, <1>6 DEF vars
<1>7. ASSUME NEW a \in Actor, Unregister(a) \/ Joined(a) \/ GiveUp(a)
      PROVE  FInv'
  <2>1. UNCHANGED <<sets, snap>>
    BY <1>7 DEF Unregister, Joined, GiveUp
  <2>2. DOMAIN inst' \subseteq DOMAIN inst
    BY <1>7 DEF Unregister, Joined, GiveUp
  <2>3. \A j \in DOMAIN inst' : inst'[j].conf = inst[j].conf
    <3>1. CASE Unregister(a)
      BY <1>1, <3>1 DEF Unregister, InstType
    <3>2. CASE Joined(a) \/ GiveUp(a)
      BY <3>2 DEF Joined, GiveUp
    <3> QED BY <1>7, <3>1, <3>2
  <2> QED BY <1>2, <2>1, <2>2, <2>3
<1>8. ASSUME NEW i \in DOMAIN inst, NEW hosts \in Documents, Fetch(i, hosts)
      PROVE  FInv'
  BY <1>1, <1>2, <1>8 DEF Fetch, InstType
<1>9. ASSUME NEW i \in DOMAIN inst, Exit(i)
      PROVE  FInv'
  BY <1>1, <1>2, <1>9 DEF Exit, Without, InstType
<1> QED
  BY <1>3, <1>4, <1>5, <1>6, <1>7, <1>8, <1>9, SnapshotMerged, DeliverFaithful,
     DisabledFaithful, StartFaithful
  DEF Next

\* The merged inventory, cached or not: the hosts of the sets that the
\* providers delivered, each with the record of a source of the highest
\* priority that knows it, whatever the order in which the map yielded them.
THEOREM SnapshotAlwaysFaithful == Spec => []SnapshotFaithful
<1>1. Init => FInv
  <2>1. Init => sets = <<>> /\ inst = <<>> /\ snap = None
    BY DEF Init
  <2>2. DOMAIN <<>> = {}
    OBVIOUS
  <2> QED BY <2>1, <2>2 DEF FInv, SnapshotFaithful
<1>2. FInv => SnapshotFaithful
  BY DEF FInv
<1> QED
  BY <1>1, <1>2, NextFInv, Inductive, PTL DEF Spec
=============================================================================
