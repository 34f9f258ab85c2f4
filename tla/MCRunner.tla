------------------------------ MODULE MCRunner ------------------------------
(* Small instances of the runner: two task keys, one destination that has  *)
(* two addresses, and a slot whose class changes.                          *)
EXTENDS Runner, TLC

Spec1(dst, params, label) == [dst |-> dst, params |-> params, label |-> label]

\* A host gets another address, and a layout change keeps the hosts of a slot
\* and gives it another class.
First  == ("k1" :> Spec1("x", "p", "l") @@ "k2" :> Spec1("y", "p", "l"))
Second == ("k1" :> Spec1("x", "p", "m") @@ "k2" :> Spec1("y", "q", "l"))

Changes == {First, Second}

TaskSymmetry == Permutations(Task) \cup Permutations(Caller)
=============================================================================
