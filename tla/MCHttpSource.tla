---- MODULE MCHttpSource ----
(* Two URLs; the bounds let a server publish, go back, and a write be cut *)
(* short, before and after a change of the URL.                           *)
EXTENDS HttpSource
====
