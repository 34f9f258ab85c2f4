---------------------------- MODULE DurableState ----------------------------
(***************************************************************************)
(* What internal/state promises: one value in memory, one durable copy.    *)
(* Values are numbered in the order they are installed.  The durable copy  *)
(* is never newer than memory, only moves forward until the process is     *)
(* asked to stop, and is what the next process resumes from.               *)
(***************************************************************************)
EXTENDS Naturals

VARIABLES mem, durable, closing

vars == <<mem, durable, closing>>

Init == mem = durable /\ durable \in Nat /\ closing = FALSE

\* A reconcile installs a newer state.
Install == mem' \in Nat /\ mem' > mem /\ UNCHANGED <<durable, closing>>

\* The durable copy catches up with a state installed since.  While the
\* process stops, two flushes race and the older one may land last.
Persist ==
    /\ durable' \in 0..mem
    /\ closing \/ durable' >= durable
    /\ UNCHANGED <<mem, closing>>

Close == closing' = TRUE /\ UNCHANGED <<mem, durable>>

\* The process dies and the next one loads the durable copy.
Resume == mem' = durable /\ closing' = FALSE /\ UNCHANGED durable

Next == Install \/ Persist \/ Close \/ Resume

Spec == Init /\ [][Next]_vars
=============================================================================
