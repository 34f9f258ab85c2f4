----------------------------- MODULE StateStore -----------------------------
(***************************************************************************)
(* The state store of internal/state: the authoritative slot table in      *)
(* memory, the debounced writer (Store.Run), Flush with its lock, Save and *)
(* error path, Load after a restart, and the final flush that              *)
(* cmd/meshd's shutdown makes beside the writer's own.                     *)
(*                                                                         *)
(* A slot table is a number, given out in the order the tables are         *)
(* installed; 0 is the empty table, and a durable 0 is a file Load cannot  *)
(* use (missing, corrupt, other version).  Time is relative: the age of    *)
(* the oldest unwritten change saturates at MaxDelay, past which the code  *)
(* no longer tells ages apart, and a timer counts down to 0, when it fires.*)
(***************************************************************************)
EXTENDS Integers

CONSTANTS
    Updaters,     \* goroutines that reconcile: the loop and API requests
    Debounce,     \* PersistConfig.Debounce, in clock units
    MaxDelay,     \* PersistConfig.MaxDelay, after Run's correction
    MaxVersion,   \* bound: tables told apart; later ones share this number
    MaxFailures,  \* bound: saves that fail
    MaxCrashes    \* bound: crashes and restarts

ASSUME DelayAssumption ==
    /\ Debounce \in Nat \ {0}
    /\ MaxDelay \in Nat
    /\ Debounce <= MaxDelay

ASSUME BoundAssumption ==
    MaxVersion \in Nat \ {0} /\ MaxFailures \in Nat /\ MaxCrashes \in Nat

VARIABLES
    cur,        \* Store.cur
    issued,     \* the newest number given to a table
    dirty,      \* Store.dirty
    age,        \* time since Store.firstDirty; Clean when it is zero
    kick,       \* whether the kick channel holds its one token
    updater,    \* updater[u]: between Update's two halves, or stopped
    timer,      \* Run's timer: time left, 0 when fired; Off when not armed
    run,        \* where Run is
    closer,     \* where the flush of shutdown is
    snap,       \* snap[f]: the table flusher f is saving
    cancelled,  \* the context was cancelled
    exited,     \* the process has stopped gracefully
    disk,       \* the table in the state file
    failures, crashes

vars == <<cur, issued, dirty, age, kick, updater, timer, run, closer, snap,
          cancelled, exited, disk, failures, crashes>>

Clean == -1
Off   == -1

Flushers == {"run", "closer"}

Smaller(a, b) == IF a < b THEN a ELSE b

Init ==
    /\ disk \in {0, 1}
    /\ cur = disk /\ issued = disk
    /\ dirty = FALSE /\ age = Clean /\ kick = FALSE
    /\ updater = [u \in Updaters |-> "idle"]
    /\ timer = Off /\ run = "select" /\ closer = "idle"
    /\ snap = [f \in Flushers |-> 0]
    /\ cancelled = FALSE /\ exited = FALSE
    /\ failures = 0 /\ crashes = 0

-----------------------------------------------------------------------------
(* Update: install a table under the lock, then offer the kick token.      *)

Update(u) ==
    /\ updater[u] = "idle" /\ ~exited
    /\ issued' = Smaller(issued + 1, MaxVersion)
    /\ cur' = issued'
    /\ dirty' = TRUE
    /\ age' = IF dirty THEN age ELSE 0
    /\ updater' = [updater EXCEPT ![u] = "kick"]
    /\ UNCHANGED <<kick, timer, run, closer, snap, cancelled, exited, disk,
                   failures, crashes>>

Kick(u) ==
    /\ updater[u] = "kick"
    /\ kick' = TRUE
    /\ updater' = [updater EXCEPT ![u] = "idle"]
    /\ UNCHANGED <<cur, issued, dirty, age, timer, run, closer, snap,
                   cancelled, exited, disk, failures, crashes>>

-----------------------------------------------------------------------------
(* Flush: copy and clear under the lock, save outside it.                  *)

\* The locked half of Flush, for flusher f, when there is something to do.
TakeSnapshot(f) ==
    /\ dirty
    /\ snap' = [snap EXCEPT ![f] = cur]
    /\ dirty' = FALSE /\ age' = Clean

\* Defect: Save truncates the state file in place, and may stop there.
SaveInPlace(f) ==
    /\ disk' \in {0, snap[f]}
    /\ UNCHANGED <<dirty, age, failures>>

\* Defect: a save that failed is not marked for another attempt.
SaveForgotten ==
    /\ failures < MaxFailures
    /\ failures' = failures + 1
    /\ UNCHANGED <<disk, dirty, age>>

\* Save returned: the rename replaced the file, or an error left it alone.
SaveOK(f) ==
    /\ disk' = snap[f]
    /\ UNCHANGED <<dirty, age, failures>>

SaveFailed ==
    /\ failures < MaxFailures
    /\ failures' = failures + 1
    /\ dirty' = TRUE
    /\ age' = IF age = Clean THEN 0 ELSE age
    /\ UNCHANGED disk

-----------------------------------------------------------------------------
(* Run: the debounced writer.                                              *)

\* Defect: every update restarts the whole debounce.
OnKickRestarts ==
    /\ run = "select" /\ kick
    /\ kick' = FALSE /\ timer' = Debounce
    /\ UNCHANGED <<cur, issued, dirty, age, updater, run, closer, snap,
                   cancelled, exited, disk, failures, crashes>>

\* The kick case: the debounce restarts, within what MaxDelay leaves.
OnKick ==
    /\ run = "select" /\ kick
    /\ kick' = FALSE
    /\ timer' = IF timer # Off /\ age >= MaxDelay THEN timer
                ELSE IF age = Clean THEN Debounce
                ELSE Smaller(Debounce, MaxDelay - age)
    /\ UNCHANGED <<cur, issued, dirty, age, updater, run, closer, snap,
                   cancelled, exited, disk, failures, crashes>>

\* The timer case.
OnTimer ==
    /\ run = "select" /\ timer = 0
    /\ timer' = Off
    /\ \/ TakeSnapshot("run") /\ run' = "saving"
       \/ ~dirty /\ UNCHANGED <<run, snap, dirty, age>>
    /\ UNCHANGED <<cur, issued, kick, updater, closer, cancelled, exited,
                   disk, failures, crashes>>

\* Defect: after a failed write nobody arms the timer.
OnTimerSavedOnce ==
    /\ run = "saving"
    /\ run' = "select"
    /\ SaveOK("run") \/ SaveFailed
    /\ UNCHANGED <<cur, issued, kick, timer, updater, closer, snap, cancelled,
                   exited, crashes>>

\* A failed write re-arms the timer for another debounce.
OnTimerSaved ==
    /\ run = "saving"
    /\ run' = "select"
    /\ \/ SaveOK("run") /\ UNCHANGED timer
       \/ SaveFailed /\ timer' = Debounce
    /\ UNCHANGED <<cur, issued, kick, updater, closer, snap, cancelled,
                   exited, crashes>>

\* The cancel case: one last flush, then Run returns.
OnCancel ==
    /\ run = "select" /\ cancelled
    /\ \/ TakeSnapshot("run") /\ run' = "final"
       \/ ~dirty /\ run' = "done" /\ UNCHANGED <<snap, dirty, age>>
    /\ UNCHANGED <<cur, issued, kick, updater, timer, closer, cancelled,
                   exited, disk, failures, crashes>>

OnCancelSaved ==
    /\ run = "final"
    /\ run' = "done"
    /\ SaveOK("run") \/ SaveFailed
    /\ UNCHANGED <<cur, issued, kick, updater, timer, closer, snap,
                   cancelled, exited, crashes>>

-----------------------------------------------------------------------------
(* Stopping: the signal, shutdown's own flush, and the end of the process. *)

Signal ==
    /\ ~cancelled
    /\ cancelled' = TRUE
    /\ UNCHANGED <<cur, issued, dirty, age, kick, updater, timer, run, closer,
                   snap, exited, disk, failures, crashes>>

\* The reconciling goroutines notice the cancelled context between runs.
UpdaterStops(u) ==
    /\ cancelled /\ updater[u] = "idle"
    /\ updater' = [updater EXCEPT ![u] = "stopped"]
    /\ UNCHANGED <<cur, issued, dirty, age, kick, timer, run, closer, snap,
                   cancelled, exited, disk, failures, crashes>>

CloserFlush ==
    /\ cancelled /\ closer = "idle" /\ ~exited
    /\ \/ TakeSnapshot("closer") /\ closer' = "saving"
       \/ ~dirty /\ closer' = "done" /\ UNCHANGED <<snap, dirty, age>>
    /\ UNCHANGED <<cur, issued, kick, updater, timer, run, cancelled, exited,
                   disk, failures, crashes>>

CloserSaved ==
    /\ closer = "saving" /\ ~exited
    /\ closer' = "done"
    /\ SaveOK("closer") \/ SaveFailed
    /\ UNCHANGED <<cur, issued, kick, updater, timer, run, snap, cancelled,
                   exited, crashes>>

\* run returns after shutdown and wg.Wait; shutdown gives up on its flush,
\* and on the providers it stops first, when its grace period expires.
Exit ==
    /\ cancelled /\ run = "done" /\ ~exited
    /\ \A u \in Updaters : updater[u] = "stopped"
    /\ exited' = TRUE
    /\ UNCHANGED <<cur, issued, dirty, age, kick, updater, timer, run, closer,
                   snap, cancelled, disk, failures, crashes>>

-----------------------------------------------------------------------------
(* The environment: time, and a crash followed by a restart.               *)

Elapse ==
    /\ ~exited
    /\ timer > 0 \/ age \in 0..(MaxDelay - 1)
    /\ timer' = IF timer > 0 THEN timer - 1 ELSE timer
    /\ age' = IF age \in 0..(MaxDelay - 1) THEN age + 1 ELSE age
    /\ UNCHANGED <<cur, issued, dirty, kick, updater, run, closer, snap,
                   cancelled, exited, disk, failures, crashes>>

\* The next process loads the file (Load, NewStore) and starts afresh.
Crash ==
    /\ crashes < MaxCrashes /\ ~exited
    /\ crashes' = crashes + 1
    /\ cur' = disk
    /\ dirty' = FALSE /\ age' = Clean /\ kick' = FALSE
    /\ updater' = [u \in Updaters |-> "idle"]
    /\ timer' = Off /\ run' = "select" /\ closer' = "idle"
    /\ snap' = [f \in Flushers |-> 0]
    /\ cancelled' = FALSE
    /\ UNCHANGED <<issued, exited, disk, failures>>

Writer == OnKick \/ OnTimer \/ OnTimerSaved \/ OnCancel \/ OnCancelSaved

Next ==
    \/ \E u \in Updaters : Update(u) \/ Kick(u) \/ UpdaterStops(u)
    \/ Writer
    \/ Signal \/ CloserFlush \/ CloserSaved \/ Exit
    \/ Elapse \/ Crash

Spec == Init /\ [][Next]_vars

(***************************************************************************)
(* Fairness: time passes, the goroutines that are ready to run are         *)
(* scheduled, and Update sends its token before it returns.  Nothing is    *)
(* assumed of the updates, the signal and the crashes themselves.          *)
(***************************************************************************)
Fairness ==
    /\ WF_vars(Elapse) /\ WF_vars(OnKick)
    /\ WF_vars(OnTimer) /\ WF_vars(OnTimerSaved)
    /\ \A u \in Updaters : WF_vars(Kick(u))

FairSpec == Spec /\ Fairness

-----------------------------------------------------------------------------
(* Properties.                                                             *)

\* The type of the store, its writer and shutdown.
TypeOK ==
    /\ cur \in 0..MaxVersion /\ issued \in 0..MaxVersion
    /\ disk \in 0..MaxVersion
    /\ snap \in [Flushers -> 0..MaxVersion]
    /\ dirty \in BOOLEAN /\ kick \in BOOLEAN
    /\ cancelled \in BOOLEAN /\ exited \in BOOLEAN
    /\ age \in Clean..MaxDelay
    /\ timer \in Off..MaxDelay
    /\ updater \in [Updaters -> {"idle", "kick", "stopped"}]
    /\ run \in {"select", "saving", "final", "done"}
    /\ closer \in {"idle", "saving", "done"}
    /\ failures \in 0..MaxFailures /\ crashes \in 0..MaxCrashes

\* No change is forgotten: until the process is asked to stop, a store that
\* is clean and has no write in flight has its table on disk, whatever
\* updates, failed saves and crashes interleave with the writer.
CleanIsDurable ==
    ~cancelled /\ ~dirty /\ run = "select" => disk = cur

\* A write never takes the file back to an older table while the process
\* is not stopping, so a restart resumes from the newest table written.
DiskForward == [][~cancelled => disk' >= disk]_vars

\* The store is a durable value with one copy in memory and one on disk:
\* its steps are installs, catching up, stopping, and resuming after a crash.
Durable == INSTANCE DurableState
               WITH mem <- cur, durable <- disk, closing <- cancelled
ImplementsDurableState == Durable!Spec

\* MaxDelay at work: continuous churn cannot keep a change from being
\* written, although every update restarts the debounce.
ChurnCannotStarve == dirty ~> (~dirty \/ cancelled)

\* Every table, or a newer one, reaches the disk, through failed saves and
\* retries, unless a crash loses it or the process is told to stop.
EventuallyDurable ==
    \A v \in 1..MaxVersion :
        cur = v ~> (disk >= v \/ cur < v \/ cancelled)

=============================================================================
