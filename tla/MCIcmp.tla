------------------------------- MODULE MCIcmp -------------------------------
(* Successive probes of a task through a helper that may be replaced. *)
EXTENDS Icmp, TLC

Hellos == {"ready", "no permission"}
=============================================================================
