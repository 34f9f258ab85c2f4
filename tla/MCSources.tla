----------------------------- MODULE MCSources -----------------------------
(* Small instances of discovery: two sources that may know the same host,  *)
(* changes of priorities and of other settings, a source that is disabled, *)
(* and one whose new configuration is rejected.                            *)
EXTENDS Sources, TLC

Conf(prio, tag, ok) == [prio |-> prio, tag |-> tag, ok |-> ok]
Both(x, y) == ("file" :> x @@ "http" :> y)

Default  == Both(Conf(1, "a", TRUE), Conf(2, "a", TRUE))
FileOnly == Both(Conf(2, "b", TRUE), Off)
\* The CA file of the HTTP source cannot be read any more.
Broken   == Both(Conf(1, "a", TRUE), Conf(2, "b", FALSE))

Reloads == {Default, FileOnly, Broken}

Polled == {{"h"}}

InstanceSymmetry == Permutations(Instance)
=============================================================================
