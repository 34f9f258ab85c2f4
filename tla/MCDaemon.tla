---- MODULE MCDaemon ----
(* Two configurations that compile, the second with another rule, another   *)
(* layout, other probe parameters and a limit that its pairings exceed; one *)
(* that is rejected and one that is accepted without compiling, with a      *)
(* higher limit; an inventory with hosts and the empty one; a state file    *)
(* with a table, or none.                                                   *)
EXTENDS Daemon

CONSTANTS z1, z2, s1, s2, p1, p2, empty, full

Setting(z, s, p, n) == [zone |-> z, slots |-> s, probes |-> p, max_pairings |-> n]

MCZone == {z1, z2}
MCSlots == {s1, s2}
MCProbes == {p1, p2}
Within == Setting(z1, s1, p1, 1)
Above == Setting(z2, s2, p2, 1)
MCRejected == {Setting(z1, s1, p1, 2)}
MCUncompilable == {Setting(z2, s1, p1, 2)}
MCConfig == {Within, Above} \cup MCRejected \cup MCUncompilable
MCInventory == {empty, full}
MCPairs == [zi \in MCZone \X MCInventory |->
               IF zi[2] = empty THEN 0 ELSE IF zi[1] = z1 THEN 1 ELSE 2]
MCFound == {None, [zone |-> z1, slots |-> s1, hosts |-> full]}
====
