---------------------------- MODULE Meshd_proofs ----------------------------
(* Proofs about the parts of cmd/meshd: the state store, for every set of   *)
(* reconciling goroutines and every debounce, and the daemon, for every set *)
(* of configurations and of inventories; both for every bound.              *)
EXTENDS StateStore, DaemonState, TLAPS

\* The steps of the daemon.  The two specifications share no state, and each
\* is proved on its own.
D == INSTANCE Daemon

(***************************************************************************)
(* The inductive invariant.  While the process is not stopping there is a  *)
(* single flusher, so the table being saved lies between the file and      *)
(* memory; and a store that is clean has nothing newer than what is saved, *)
(* or being saved.                                                         *)
(***************************************************************************)
Flags ==
    /\ dirty \in BOOLEAN /\ kick \in BOOLEAN
    /\ cancelled \in BOOLEAN /\ exited \in BOOLEAN

Data ==
    /\ cur \in 0..MaxVersion /\ issued \in 0..MaxVersion
    /\ disk \in 0..MaxVersion
    /\ snap \in [Flushers -> 0..MaxVersion]
    /\ age \in Clean..MaxDelay
    /\ timer \in Off..MaxDelay
    /\ updater \in [Updaters -> {"idle", "kick", "stopped"}]
    /\ run \in {"select", "saving", "final", "done"}
    /\ closer \in {"idle", "saving", "done"}
    /\ failures \in 0..MaxFailures /\ crashes \in 0..MaxCrashes

Ordered ==
    /\ cur <= issued /\ disk <= cur
    /\ \A f \in Flushers : snap[f] <= cur

SingleFlusher ==
    ~cancelled =>
        /\ closer = "idle"
        /\ run \in {"select", "saving"}
        /\ run = "saving" => /\ disk <= snap["run"]
                             /\ ~dirty => snap["run"] = cur
        /\ run = "select" /\ ~dirty => disk = cur

IInv == /\ TypeOK
        /\ Ordered
        /\ SingleFlusher

LEMMA InitIInv ==
    Init => IInv
<1> SUFFICES ASSUME Init
             PROVE  IInv
  OBVIOUS
<1> USE DelayAssumption, BoundAssumption DEF Init, Flushers, Clean, Off
<1>1. TypeOK
  <2>1. snap \in [Flushers -> 0..MaxVersion]
    OBVIOUS
  <2>2. age \in Clean..MaxDelay /\ timer \in Off..MaxDelay
    OBVIOUS
  <2>3. updater \in [Updaters -> {"idle", "kick", "stopped"}]
    OBVIOUS
  <2>4. cur \in 0..MaxVersion /\ issued \in 0..MaxVersion /\ disk \in 0..MaxVersion
    OBVIOUS
  <2>5. failures \in 0..MaxFailures /\ crashes \in 0..MaxCrashes
    OBVIOUS
  <2>6. /\ dirty \in BOOLEAN /\ kick \in BOOLEAN
        /\ cancelled \in BOOLEAN /\ exited \in BOOLEAN
    OBVIOUS
  <2> QED BY <2>1, <2>2, <2>3, <2>4, <2>5, <2>6 DEF TypeOK
<1>2. Ordered
  BY DEF Ordered
<1>3. SingleFlusher
  BY DEF SingleFlusher
<1> QED BY <1>1, <1>2, <1>3 DEF IInv

LEMMA NextIInv ==
    IInv /\ [Next]_vars => IInv'
<1> SUFFICES ASSUME IInv, [Next]_vars
             PROVE  IInv'
  OBVIOUS
<1> USE DelayAssumption, BoundAssumption DEF Flushers, Clean, Off
<1>a. TypeOK /\ Ordered /\ SingleFlusher
  BY DEF IInv
<1>1. ASSUME NEW u \in Updaters, Update(u)
      PROVE  IInv'
  <2>1. TypeOK'
    BY <1>a, <1>1 DEF Update, Smaller, TypeOK
  <2>2. Ordered'
    BY <1>a, <1>1 DEF Update, Smaller, Ordered, TypeOK
  <2>3. SingleFlusher'
    BY <1>a, <1>1 DEF Update, Smaller, SingleFlusher, Ordered, TypeOK
  <2> QED BY <2>1, <2>2, <2>3 DEF IInv
<1>2. ASSUME NEW u \in Updaters, Kick(u)
      PROVE  IInv'
  <2>1. TypeOK'
    BY <1>a, <1>2 DEF Kick, TypeOK
  <2>2. Ordered'
    BY <1>a, <1>2 DEF Kick, Ordered, TypeOK
  <2>3. SingleFlusher'
    BY <1>a, <1>2 DEF Kick, SingleFlusher, Ordered, TypeOK
  <2> QED BY <2>1, <2>2, <2>3 DEF IInv
<1>3. ASSUME NEW u \in Updaters, UpdaterStops(u)
      PROVE  IInv'
  <2>1. TypeOK'
    BY <1>a, <1>3 DEF UpdaterStops, TypeOK
  <2>2. Ordered'
    BY <1>a, <1>3 DEF UpdaterStops, Ordered, TypeOK
  <2>3. SingleFlusher'
    BY <1>a, <1>3 DEF UpdaterStops, SingleFlusher, Ordered, TypeOK
  <2> QED BY <2>1, <2>2, <2>3 DEF IInv
<1>4. CASE OnKick
  <2>1. TypeOK'
    <3>1. Flags'
      BY <1>a, <1>4 DEF OnKick, Smaller, Flags, TypeOK
    <3>2. Data'
      BY <1>a, <1>4 DEF OnKick, Smaller, Data, TypeOK
    <3> QED BY <3>1, <3>2 DEF TypeOK, Flags, Data
  <2>2. Ordered'
    BY <1>a, <1>4 DEF OnKick, Smaller, Ordered, TypeOK
  <2>3. SingleFlusher'
    BY <1>a, <1>4 DEF OnKick, Smaller, SingleFlusher, Ordered, TypeOK
  <2> QED BY <2>1, <2>2, <2>3 DEF IInv
<1>5. CASE OnTimer
  <2>1. TypeOK'
    <3>1. Flags'
      BY <1>a, <1>5 DEF OnTimer, TakeSnapshot, Flags, TypeOK
    <3>2. Data'
      BY <1>a, <1>5 DEF OnTimer, TakeSnapshot, Data, TypeOK
    <3> QED BY <3>1, <3>2 DEF TypeOK, Flags, Data
  <2>2. Ordered'
    BY <1>a, <1>5 DEF OnTimer, TakeSnapshot, Ordered, TypeOK
  <2>3. SingleFlusher'
    BY <1>a, <1>5 DEF OnTimer, TakeSnapshot, SingleFlusher, Ordered, TypeOK
  <2> QED BY <2>1, <2>2, <2>3 DEF IInv
<1>6. CASE OnTimerSaved
  <2>1. TypeOK'
    <3>1. Flags'
      BY <1>a, <1>6 DEF OnTimerSaved, SaveOK, SaveFailed, Flags, TypeOK
    <3>2. Data'
      BY <1>a, <1>6 DEF OnTimerSaved, SaveOK, SaveFailed, Data, TypeOK
    <3> QED BY <3>1, <3>2 DEF TypeOK, Flags, Data
  <2>2. Ordered'
    BY <1>a, <1>6 DEF OnTimerSaved, SaveOK, SaveFailed, Ordered, TypeOK
  <2>3. SingleFlusher'
    BY <1>a, <1>6 DEF OnTimerSaved, SaveOK, SaveFailed, SingleFlusher, Ordered, TypeOK
  <2> QED BY <2>1, <2>2, <2>3 DEF IInv
<1>7. CASE OnCancel
  <2>1. TypeOK'
    <3>1. Flags'
      BY <1>a, <1>7 DEF OnCancel, TakeSnapshot, Flags, TypeOK
    <3>2. Data'
      BY <1>a, <1>7 DEF OnCancel, TakeSnapshot, Data, TypeOK
    <3> QED BY <3>1, <3>2 DEF TypeOK, Flags, Data
  <2>2. Ordered'
    BY <1>a, <1>7 DEF OnCancel, TakeSnapshot, Ordered, TypeOK
  <2>3. SingleFlusher'
    BY <1>a, <1>7 DEF OnCancel, TakeSnapshot, SingleFlusher, Ordered, TypeOK
  <2> QED BY <2>1, <2>2, <2>3 DEF IInv
<1>8. CASE OnCancelSaved
  <2>1. TypeOK'
    <3>1. Flags'
      BY <1>a, <1>8 DEF OnCancelSaved, SaveOK, SaveFailed, Flags, TypeOK
    <3>2. Data'
      BY <1>a, <1>8 DEF OnCancelSaved, SaveOK, SaveFailed, Data, TypeOK
    <3> QED BY <3>1, <3>2 DEF TypeOK, Flags, Data
  <2>2. Ordered'
    BY <1>a, <1>8 DEF OnCancelSaved, SaveOK, SaveFailed, Ordered, TypeOK
  <2>3. SingleFlusher'
    BY <1>a, <1>8 DEF OnCancelSaved, SaveOK, SaveFailed, SingleFlusher, Ordered, TypeOK
  <2> QED BY <2>1, <2>2, <2>3 DEF IInv
<1>9. CASE Signal
  <2>1. TypeOK'
    BY <1>a, <1>9 DEF Signal, TypeOK
  <2>2. Ordered'
    BY <1>a, <1>9 DEF Signal, Ordered, TypeOK
  <2>3. SingleFlusher'
    BY <1>a, <1>9 DEF Signal, SingleFlusher, Ordered, TypeOK
  <2> QED BY <2>1, <2>2, <2>3 DEF IInv
<1>10. CASE CloserFlush
  <2>1. TypeOK'
    <3>1. Flags'
      BY <1>a, <1>10 DEF CloserFlush, TakeSnapshot, Flags, TypeOK
    <3>2. Data'
      BY <1>a, <1>10 DEF CloserFlush, TakeSnapshot, Data, TypeOK
    <3> QED BY <3>1, <3>2 DEF TypeOK, Flags, Data
  <2>2. Ordered'
    BY <1>a, <1>10 DEF CloserFlush, TakeSnapshot, Ordered, TypeOK
  <2>3. SingleFlusher'
    BY <1>a, <1>10 DEF CloserFlush, TakeSnapshot, SingleFlusher, Ordered, TypeOK
  <2> QED BY <2>1, <2>2, <2>3 DEF IInv
<1>11. CASE CloserSaved
  <2>1. TypeOK'
    <3>1. Flags'
      BY <1>a, <1>11 DEF CloserSaved, SaveOK, SaveFailed, Flags, TypeOK
    <3>2. Data'
      BY <1>a, <1>11 DEF CloserSaved, SaveOK, SaveFailed, Data, TypeOK
    <3> QED BY <3>1, <3>2 DEF TypeOK, Flags, Data
  <2>2. Ordered'
    BY <1>a, <1>11 DEF CloserSaved, SaveOK, SaveFailed, Ordered, TypeOK
  <2>3. SingleFlusher'
    BY <1>a, <1>11 DEF CloserSaved, SaveOK, SaveFailed, SingleFlusher, Ordered, TypeOK
  <2> QED BY <2>1, <2>2, <2>3 DEF IInv
<1>12. CASE Exit
  <2>1. TypeOK'
    BY <1>a, <1>12 DEF Exit, TypeOK
  <2>2. Ordered'
    BY <1>a, <1>12 DEF Exit, Ordered, TypeOK
  <2>3. SingleFlusher'
    BY <1>a, <1>12 DEF Exit, SingleFlusher, Ordered, TypeOK
  <2> QED BY <2>1, <2>2, <2>3 DEF IInv
<1>13. CASE Elapse
  <2>1. TypeOK'
    BY <1>a, <1>13 DEF Elapse, TypeOK
  <2>2. Ordered'
    BY <1>a, <1>13 DEF Elapse, Ordered, TypeOK
  <2>3. SingleFlusher'
    BY <1>a, <1>13 DEF Elapse, SingleFlusher, Ordered, TypeOK
  <2> QED BY <2>1, <2>2, <2>3 DEF IInv
<1>14. CASE Crash
  <2>1. TypeOK'
    <3>1. Flags'
      BY <1>a, <1>14 DEF Crash, Flags, TypeOK
    <3>2. Data'
      BY <1>a, <1>14 DEF Crash, Data, TypeOK
    <3> QED BY <3>1, <3>2 DEF TypeOK, Flags, Data
  <2>2. Ordered'
    BY <1>a, <1>14 DEF Crash, Ordered, TypeOK
  <2>3. SingleFlusher'
    BY <1>a, <1>14 DEF Crash, SingleFlusher, Ordered, TypeOK
  <2> QED BY <2>1, <2>2, <2>3 DEF IInv
<1>15. CASE UNCHANGED vars
  <2>1. TypeOK'
    BY <1>a, <1>15 DEF vars, TypeOK
  <2>2. Ordered'
    BY <1>a, <1>15 DEF vars, Ordered, TypeOK
  <2>3. SingleFlusher'
    BY <1>a, <1>15 DEF vars, SingleFlusher, Ordered, TypeOK
  <2> QED BY <2>1, <2>2, <2>3 DEF IInv
<1> QED
  BY <1>1, <1>2, <1>3, <1>4, <1>5, <1>6, <1>7, <1>8, <1>9, <1>10, <1>11,
     <1>12, <1>13, <1>14, <1>15 DEF Next, Writer

\* The inductive invariant holds in every reachable state of the store.
THEOREM Inductive == Spec => []IInv
BY InitIInv, NextIInv, PTL DEF Spec

\* The store's type is preserved by every step.
THEOREM TypeCorrect == Spec => []TypeOK
<1>1. IInv => TypeOK
  BY DEF IInv
<1> QED BY Inductive, <1>1, PTL

\* A clean, idle store that is not stopping has its table on disk.
THEOREM CleanAlwaysDurable == Spec => []CleanIsDurable
<1>1. IInv => CleanIsDurable
  BY DEF IInv, SingleFlusher, CleanIsDurable
<1> QED BY Inductive, <1>1, PTL

-----------------------------------------------------------------------------
(* The refinement: each step of the store is a step of DurableState, or      *)
(* changes neither memory, nor the file, nor whether the process is stopping.*)

\* The steps that leave the table in memory, the file and the signal alone.
LEMMA Aside ==
    ASSUME \/ \E u \in Updaters : Kick(u) \/ UpdaterStops(u)
           \/ OnKick \/ OnTimer \/ OnCancel \/ CloserFlush
           \/ Exit \/ Elapse \/ UNCHANGED vars
    PROVE  cur' = cur /\ disk' = disk /\ cancelled' = cancelled
BY DEF Kick, UpdaterStops, OnKick, OnTimer, OnCancel, CloserFlush,
       Exit, Elapse, vars

\* The steps that end a Save write a table of the past, or nothing; before
\* the signal, none older than the file's.
LEMMA Saves ==
    ASSUME IInv, OnTimerSaved \/ OnCancelSaved \/ CloserSaved
    PROVE  /\ cur' = cur /\ cancelled' = cancelled
           /\ disk' \in 0..cur
           /\ cancelled \/ disk' >= disk
<1> USE DEF SaveOK, SaveFailed
<1>1. cur' = cur /\ cancelled' = cancelled
  BY DEF OnTimerSaved, OnCancelSaved, CloserSaved
<1>2. \/ disk' = disk
      \/ \E f \in Flushers : disk' = snap[f]
  BY DEF OnTimerSaved, OnCancelSaved, CloserSaved, Flushers
<1>3. disk' \in 0..cur
  BY <1>2, BoundAssumption DEF IInv, TypeOK, Ordered, Flushers
<1>4. ASSUME ~cancelled
      PROVE  disk' >= disk
  <2>1. OnTimerSaved
    BY <1>4 DEF OnCancelSaved, CloserSaved, IInv, SingleFlusher
  <2>2. disk <= snap["run"]
    BY <1>4, <2>1 DEF OnTimerSaved, IInv, SingleFlusher
  <2>3. disk' = snap["run"] \/ disk' = disk
    BY <2>1 DEF OnTimerSaved
  <2> QED
    BY <2>2, <2>3, BoundAssumption DEF IInv, TypeOK
<1> QED
  BY <1>1, <1>3, <1>4

LEMMA StepDurable ==
    ASSUME IInv, [Next]_vars
    PROVE  [Durable!Next]_(Durable!vars)
<1> USE DEF Durable!Next, Durable!vars, Durable!Install, Durable!Persist,
            Durable!Close, Durable!Resume
<1>1. ASSUME NEW u \in Updaters, Update(u)
      PROVE  [Durable!Next]_(Durable!vars)
  <2>1. /\ cur' >= cur /\ cur' \in Nat
        /\ disk' = disk /\ cancelled' = cancelled
    BY <1>1, BoundAssumption DEF Update, Smaller, IInv, TypeOK, Ordered
  <2>2. cur' > cur \/ cur' = cur
    BY <2>1, BoundAssumption DEF IInv, TypeOK
  <2> QED BY <2>1, <2>2
<1>2. CASE OnTimerSaved \/ OnCancelSaved \/ CloserSaved
  BY <1>2, Saves
<1>3. CASE Crash
  BY <1>3 DEF Crash
<1>4. CASE Signal
  BY <1>4 DEF Signal
<1>5. CASE \/ \E u \in Updaters : Kick(u) \/ UpdaterStops(u)
           \/ OnKick \/ OnTimer \/ OnCancel \/ CloserFlush
           \/ Exit \/ Elapse \/ UNCHANGED vars
  BY <1>5, Aside
<1> QED
  BY <1>1, <1>2, <1>3, <1>4, <1>5 DEF Next, Writer

\* Until the process is asked to stop, no write takes the file back.
THEOREM DiskMovesForward == Spec => DiskForward
<1>1. IInv /\ [Next]_vars => [~cancelled => disk' >= disk]_vars
  <2> SUFFICES ASSUME IInv, [Next]_vars, ~cancelled
               PROVE  disk' >= disk
    OBVIOUS
  <2>1. [Durable!Next]_(Durable!vars)
    BY StepDurable
  <2>2. disk \in Nat /\ cur \in Nat
    BY BoundAssumption DEF IInv, TypeOK
  <2> QED
    BY <2>1, <2>2 DEF Durable!Next, Durable!vars, Durable!Install,
                      Durable!Persist, Durable!Close, Durable!Resume
<1> QED BY Inductive, <1>1, PTL DEF Spec, DiskForward

\* The store, its crashes and its graceful stop implement the durable value.
THEOREM Implementation == Spec => ImplementsDurableState
<1>1. Init => Durable!Init
  BY DEF Init, Durable!Init
<1>2. IInv /\ [Next]_vars => [Durable!Next]_(Durable!vars)
  BY StepDurable
<1> QED
  BY Inductive, <1>1, <1>2, PTL
  DEF Spec, ImplementsDurableState, Durable!Spec

-----------------------------------------------------------------------------
(* The daemon.                                                              *)


-----------------------------------------------------------------------------
(* Types.                                                                   *)

\* The first state is well typed.
LEMMA InitTypes ==
    ASSUME D!Init
    PROVE  D!TypeOK
<1>1. D!DataOK
  <2>1. Found \subseteq D!Table \cup {None}
    BY TableAssumption DEF Table, D!Table
  <2> QED
    BY <2>1, InventoryAssumption DEF D!Init, D!DataOK, D!Compiles
<1>2. D!FlagsOK
  BY Zenon DEF D!Init, D!FlagsOK
<1> QED
  BY <1>1, <1>2 DEF D!TypeOK

\* Every step keeps the types of the data.
LEMMA DataPreserved ==
    ASSUME D!DataOK, [D!Next]_(D!vars)
    PROVE  D!DataOK'
<1> USE DEF D!DataOK, D!configVars, D!subscriberVars, D!inventoryVars, D!loopVars
<1>1. CASE \E c \in Config : D!Edit(c)
  BY <1>1 DEF D!Edit
<1>2. CASE \E i \in Inventory : D!Deliver(i)
  BY <1>2 DEF D!Deliver
<1>3. CASE D!StartAll
  BY <1>3 DEF D!StartAll
<1>4. CASE D!Subscribe
  BY <1>4 DEF D!Subscribe
<1>5. CASE D!RunnerStarts
  BY <1>5 DEF D!RunnerStarts
<1>6. CASE D!Stat
  BY <1>6 DEF D!Stat, D!Started
<1>7. CASE D!Load
  BY <1>7 DEF D!Load, D!Loads
<1>8. CASE D!Publish
  BY <1>8 DEF D!Publish
<1>9. CASE D!Receive
  BY <1>9, ConfigAssumption DEF D!Receive
<1>10. CASE D!BuildTopology
  BY <1>10 DEF D!BuildTopology, D!Compiles
<1>11. CASE D!ApplyProviders
  BY <1>11 DEF D!ApplyProviders
<1>12. CASE D!TriggerConfig
  BY <1>12 DEF D!TriggerConfig
<1>13. CASE D!WatchInventory
  BY <1>13 DEF D!WatchInventory, D!Started
<1>14. CASE D!Start
  BY <1>14 DEF D!Start, D!Started
<1>15. CASE D!Triggered
  BY <1>15 DEF D!Triggered
<1>16. CASE D!Ticked
  BY <1>16 DEF D!Ticked
<1>17. CASE D!TakeSnapshot
  BY <1>17 DEF D!TakeSnapshot
<1>21. CASE D!TakeConfig
  BY <1>21, ConfigAssumption DEF D!TakeConfig
<1>18. CASE D!TakeTopology
  BY <1>18 DEF D!TakeTopology
<1>19. CASE D!Finish
  <2>1. cfg \in D!Settings /\ used \in D!Settings /\ active \in D!Settings
    BY <1>19, ConfigAssumption DEF D!Finish, Settings, D!Settings
  <2>2. D!Wanted # 0 => D!Result \in D!Table
    BY <2>1 DEF D!Result, D!Settings, D!Table
  <2>3. D!Result \in D!Table \cup {None}
    BY <2>2 DEF D!Result
  <2>4. D!Wanted # 0 => [table |-> D!Result, probes |-> active.probes] \in D!Tasks
    BY <2>1, <2>2 DEF D!Settings, D!Tasks
  <2>5. D!Apply => tasks' \in D!Tasks \cup {None}
    BY <2>4 DEF D!Apply
  <2> QED BY <1>19, <2>3, <2>5 DEF D!Finish
<1>22. CASE D!Abort
  BY <1>22 DEF D!Abort
<1>20. CASE UNCHANGED D!vars
  BY <1>20 DEF D!vars
<1> QED
  BY <1>1, <1>2, <1>3, <1>4, <1>5, <1>6, <1>7, <1>8, <1>9, <1>10,
     <1>11, <1>12, <1>13, <1>14, <1>15, <1>16, <1>17, <1>18, <1>19, <1>20, <1>21, <1>22
  DEF D!Next, D!StatChanged, D!OnConfig, D!Run

\* Every step keeps the types of the flags.
LEMMA FlagsPreserved ==
    ASSUME D!FlagsOK, [D!Next]_(D!vars)
    PROVE  D!FlagsOK'
<1> USE DEF D!FlagsOK, D!configVars, D!subscriberVars, D!inventoryVars, D!loopVars
<1>1. CASE \E c \in Config : D!Edit(c)
  BY <1>1, Zenon DEF D!Edit
<1>2. CASE \E i \in Inventory : D!Deliver(i)
  BY <1>2, Zenon DEF D!Deliver
<1>3. CASE D!StartAll
  BY <1>3, Zenon DEF D!StartAll
<1>4. CASE D!Subscribe
  BY <1>4, Zenon DEF D!Subscribe
<1>5. CASE D!RunnerStarts
  BY <1>5, Zenon DEF D!RunnerStarts
<1>6. CASE D!Stat
  BY <1>6, Zenon DEF D!Stat, D!Started
<1>7. CASE D!Load
  BY <1>7, Zenon DEF D!Load, D!Loads
<1>8. CASE D!Publish
  BY <1>8, Zenon DEF D!Publish
<1>9. CASE D!Receive
  BY <1>9, Zenon DEF D!Receive
<1>10. CASE D!BuildTopology
  BY <1>10, Zenon DEF D!BuildTopology, D!Compiles
<1>11. CASE D!ApplyProviders
  BY <1>11, Zenon DEF D!ApplyProviders
<1>12. CASE D!TriggerConfig
  BY <1>12, Zenon DEF D!TriggerConfig
<1>13. CASE D!WatchInventory
  BY <1>13, Zenon DEF D!WatchInventory, D!Started
<1>14. CASE D!Start
  BY <1>14, Zenon DEF D!Start, D!Started
<1>15. CASE D!Triggered
  BY <1>15, Zenon DEF D!Triggered
<1>16. CASE D!Ticked
  BY <1>16, Zenon DEF D!Ticked
<1>17. CASE D!TakeSnapshot
  BY <1>17, Zenon DEF D!TakeSnapshot
<1>21. CASE D!TakeConfig
  BY <1>21, Zenon DEF D!TakeConfig
<1>18. CASE D!TakeTopology
  BY <1>18, Zenon DEF D!TakeTopology
<1>19. CASE D!Finish
  BY <1>19, Zenon DEF D!Finish, D!Apply
<1>22. CASE D!Abort
  BY <1>22, Zenon DEF D!Abort
<1>20. CASE UNCHANGED D!vars
  BY <1>20, Zenon DEF D!vars
<1> QED
  BY <1>1, <1>2, <1>3, <1>4, <1>5, <1>6, <1>7, <1>8, <1>9, <1>10,
     <1>11, <1>12, <1>13, <1>14, <1>15, <1>16, <1>17, <1>18, <1>19, <1>20, <1>21, <1>22
  DEF D!Next, D!StatChanged, D!OnConfig, D!Run

\* The daemon is well typed in every reachable state.
THEOREM DaemonTypeCorrect == D!Spec => []D!TypeOK
<1>1. D!Init => D!TypeOK
  BY InitTypes
<1>2. D!TypeOK /\ [D!Next]_(D!vars) => D!TypeOK'
  BY DataPreserved, FlagsPreserved DEF D!TypeOK
<1> QED
  BY <1>1, <1>2, PTL DEF D!Spec

-----------------------------------------------------------------------------
(* Configurations.                                                          *)

\* The watcher publishes what it made active, and taking a value only moves it.
LEMMA DeliveredPreserved ==
    ASSUME LatestDelivered, [D!Next]_(D!vars)
    PROVE  LatestDelivered'
<1> USE DEF LatestDelivered, D!configVars, D!subscriberVars, D!inventoryVars, D!loopVars
<1>1. CASE \E c \in Config : D!Edit(c)
  BY <1>1 DEF D!Edit
<1>2. CASE \E i \in Inventory : D!Deliver(i)
  BY <1>2 DEF D!Deliver
<1>3. CASE D!StartAll
  BY <1>3 DEF D!StartAll
<1>4. CASE D!Subscribe
  BY <1>4 DEF D!Subscribe
<1>5. CASE D!RunnerStarts
  BY <1>5 DEF D!RunnerStarts
<1>6. CASE D!Stat
  BY <1>6 DEF D!Stat, D!Started
<1>7. CASE D!Load
  BY <1>7 DEF D!Load, D!Loads
<1>8. CASE D!Publish
  BY <1>8 DEF D!Publish
<1>9. CASE D!Receive
  BY <1>9 DEF D!Receive
<1>10. CASE D!BuildTopology
  BY <1>10 DEF D!BuildTopology, D!Compiles
<1>11. CASE D!ApplyProviders
  BY <1>11 DEF D!ApplyProviders
<1>12. CASE D!TriggerConfig
  BY <1>12 DEF D!TriggerConfig
<1>13. CASE D!WatchInventory
  BY <1>13 DEF D!WatchInventory, D!Started
<1>14. CASE D!Start
  BY <1>14 DEF D!Start, D!Started
<1>15. CASE D!Triggered
  BY <1>15 DEF D!Triggered
<1>16. CASE D!Ticked
  BY <1>16 DEF D!Ticked
<1>17. CASE D!TakeSnapshot
  BY <1>17 DEF D!TakeSnapshot
<1>21. CASE D!TakeConfig
  BY <1>21 DEF D!TakeConfig
<1>18. CASE D!TakeTopology
  BY <1>18 DEF D!TakeTopology
<1>19. CASE D!Finish
  BY <1>19 DEF D!Finish, D!Apply
<1>22. CASE D!Abort
  BY <1>22 DEF D!Abort
<1>20. CASE UNCHANGED D!vars
  BY <1>20 DEF D!vars
<1> QED
  BY <1>1, <1>2, <1>3, <1>4, <1>5, <1>6, <1>7, <1>8, <1>9, <1>10,
     <1>11, <1>12, <1>13, <1>14, <1>15, <1>16, <1>17, <1>18, <1>19, <1>20, <1>21, <1>22
  DEF D!Next, D!StatChanged, D!OnConfig, D!Run

\* However slow the subscriber is and however late it subscribes, the active
\* configuration is in its channel or in hand, unless it was published before.
THEOREM LatestAlwaysDelivered == D!Spec => []LatestDelivered
<1>1. D!Init => LatestDelivered
  BY DEF D!Init, LatestDelivered
<1>2. LatestDelivered /\ [D!Next]_(D!vars) => LatestDelivered'
  BY DeliveredPreserved
<1> QED
  BY <1>1, <1>2, PTL DEF D!Spec

-----------------------------------------------------------------------------
(* Triggers.  TriggersServed is inductive once no goroutine is ahead of the *)
(* inventory: a run that takes its snapshot then has what was watched.      *)

NotAhead == watched =< inv.gen

\* Generations only grow.
LEMMA NotAheadPreserved ==
    ASSUME D!DataOK, NotAhead, [D!Next]_(D!vars)
    PROVE  NotAhead'
<1> USE DEF D!DataOK, NotAhead, D!configVars, D!subscriberVars, D!inventoryVars, D!loopVars
<1>1. CASE \E c \in Config : D!Edit(c)
  BY <1>1 DEF D!Edit
<1>2. CASE \E i \in Inventory : D!Deliver(i)
  BY <1>2 DEF D!Deliver
<1>3. CASE D!StartAll
  BY <1>3 DEF D!StartAll
<1>4. CASE D!Subscribe
  BY <1>4 DEF D!Subscribe
<1>5. CASE D!RunnerStarts
  BY <1>5 DEF D!RunnerStarts
<1>6. CASE D!Stat
  BY <1>6 DEF D!Stat, D!Started
<1>7. CASE D!Load
  BY <1>7 DEF D!Load, D!Loads
<1>8. CASE D!Publish
  BY <1>8 DEF D!Publish
<1>9. CASE D!Receive
  BY <1>9 DEF D!Receive
<1>10. CASE D!BuildTopology
  BY <1>10 DEF D!BuildTopology, D!Compiles
<1>11. CASE D!ApplyProviders
  BY <1>11 DEF D!ApplyProviders
<1>12. CASE D!TriggerConfig
  BY <1>12 DEF D!TriggerConfig
<1>13. CASE D!WatchInventory
  BY <1>13 DEF D!WatchInventory, D!Started
<1>14. CASE D!Start
  BY <1>14 DEF D!Start, D!Started
<1>15. CASE D!Triggered
  BY <1>15 DEF D!Triggered
<1>16. CASE D!Ticked
  BY <1>16 DEF D!Ticked
<1>17. CASE D!TakeSnapshot
  BY <1>17 DEF D!TakeSnapshot
<1>21. CASE D!TakeConfig
  BY <1>21 DEF D!TakeConfig
<1>18. CASE D!TakeTopology
  BY <1>18 DEF D!TakeTopology
<1>19. CASE D!Finish
  BY <1>19 DEF D!Finish, D!Apply
<1>22. CASE D!Abort
  BY <1>22 DEF D!Abort
<1>20. CASE UNCHANGED D!vars
  BY <1>20 DEF D!vars
<1> QED
  BY <1>1, <1>2, <1>3, <1>4, <1>5, <1>6, <1>7, <1>8, <1>9, <1>10,
     <1>11, <1>12, <1>13, <1>14, <1>15, <1>16, <1>17, <1>18, <1>19, <1>20, <1>21, <1>22
  DEF D!Next, D!StatChanged, D!OnConfig, D!Run

\* A change leaves a trigger behind, and a trigger leaves when a run begins.
LEMMA ServedPreserved ==
    ASSUME D!DataOK, NotAhead, TriggersServed, [D!Next]_(D!vars)
    PROVE  TriggersServed'
<1> USE DEF D!DataOK, NotAhead, TriggersServed, D!configVars, D!subscriberVars, D!inventoryVars, D!loopVars
<1>1. CASE \E c \in Config : D!Edit(c)
  BY <1>1 DEF D!Edit
<1>2. CASE \E i \in Inventory : D!Deliver(i)
  BY <1>2 DEF D!Deliver
<1>3. CASE D!StartAll
  BY <1>3 DEF D!StartAll
<1>4. CASE D!Subscribe
  BY <1>4 DEF D!Subscribe
<1>5. CASE D!RunnerStarts
  BY <1>5 DEF D!RunnerStarts
<1>6. CASE D!Stat
  BY <1>6 DEF D!Stat, D!Started
<1>7. CASE D!Load
  BY <1>7 DEF D!Load, D!Loads
<1>8. CASE D!Publish
  BY <1>8 DEF D!Publish
<1>9. CASE D!Receive
  BY <1>9 DEF D!Receive
<1>10. CASE D!BuildTopology
  BY <1>10 DEF D!BuildTopology, D!Compiles
<1>11. CASE D!ApplyProviders
  BY <1>11 DEF D!ApplyProviders
<1>12. CASE D!TriggerConfig
  BY <1>12 DEF D!TriggerConfig
<1>13. CASE D!WatchInventory
  BY <1>13 DEF D!WatchInventory, D!Started
<1>14. CASE D!Start
  BY <1>14 DEF D!Start, D!Started
<1>15. CASE D!Triggered
  BY <1>15 DEF D!Triggered
<1>16. CASE D!Ticked
  BY <1>16 DEF D!Ticked
<1>17. CASE D!TakeSnapshot
  BY <1>17 DEF D!TakeSnapshot
<1>21. CASE D!TakeConfig
  BY <1>21 DEF D!TakeConfig
<1>18. CASE D!TakeTopology
  BY <1>18 DEF D!TakeTopology
<1>19. CASE D!Finish
  BY <1>19 DEF D!Finish, D!Apply
<1>22. CASE D!Abort
  BY <1>22 DEF D!Abort
<1>20. CASE UNCHANGED D!vars
  BY <1>20 DEF D!vars
<1> QED
  BY <1>1, <1>2, <1>3, <1>4, <1>5, <1>6, <1>7, <1>8, <1>9, <1>10,
     <1>11, <1>12, <1>13, <1>14, <1>15, <1>16, <1>17, <1>18, <1>19, <1>20, <1>21, <1>22
  DEF D!Next, D!StatChanged, D!OnConfig, D!Run

\* No change that was reported to the loop waits for the ticker, except for a
\* topology whose onConfig ended early.
THEOREM TriggersAlwaysServed == D!Spec => []TriggersServed
<1>1. D!Init => NotAhead /\ TriggersServed
  <2>1. D!Init => /\ watched = 0 /\ snapshot = inv /\ used = rule
                 /\ inv = [content |-> Empty, gen |-> 0]
    BY Zenon DEF D!Init
  <2> QED BY <2>1 DEF NotAhead, TriggersServed
<1>2. D!TypeOK /\ NotAhead /\ TriggersServed /\ [D!Next]_(D!vars) => (NotAhead /\ TriggersServed)'
  BY NotAheadPreserved, ServedPreserved DEF D!TypeOK
<1> QED
  BY <1>1, <1>2, DaemonTypeCorrect, PTL DEF D!Spec
=============================================================================
