---- MODULE MCProbe ----
(* Three packets, so that a duplicate can lie between two that are out of   *)
(* order, and two cycles, so that the first leaves a window of three ticks. *)
EXTENDS Probe
====
