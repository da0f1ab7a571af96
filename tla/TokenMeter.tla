------------------------------ MODULE TokenMeter ------------------------------
(***************************************************************************)
(* What a token bucket promises: a level that rises with time up to a      *)
(* capacity, and from which a packet's cost is taken or not at all.        *)
(***************************************************************************)
EXTENDS Naturals

CONSTANTS Capacity, Cost, Rate   \* in token units; Rate per unit of time

VARIABLE level

AtMost(x, bound) == IF x < bound THEN x ELSE bound

Init == level = Capacity
Take == level >= Cost /\ level' = level - Cost
Rise == level' = AtMost(level + Rate, Capacity)

Next == Take \/ Rise
Spec == Init /\ [][Next]_level
==============================================================================
