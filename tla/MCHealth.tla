------------------------------ MODULE MCHealth ------------------------------
(* Constant values for model-checking Health.                              *)
EXTENDS Health

BaseConfig ==
    [unhealthyAfter |-> 2, healthyAfter |-> 2, releaseHold |-> 1,
     initialGrace |-> 3, missingGrace |-> 1, dnsGrace |-> 1,
     flapThreshold |-> 1, flapWindow |-> 1, flapCooldown |-> 3]

\* A reload that lengthens the hold and changes the streaks.
LongHold == [BaseConfig EXCEPT !.releaseHold = 2, !.healthyAfter = 1]

TwoConfigs == {BaseConfig, LongHold}
=============================================================================
