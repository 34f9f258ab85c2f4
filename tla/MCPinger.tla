---- MODULE MCPinger ----
(* Two requests of two packets and three sequence numbers, over raw sockets: *)
(* the second round of numbers meets what the first has left, and stray      *)
(* replies come under any number.  Every behaviour of a datagram socket is   *)
(* one without them.                                                         *)
EXTENDS Pinger, TLC

\* Request IDs are only compared, and no property of the run is a liveness one.
Symmetry == Permutations(Id)
====
