----------------------------- MODULE MCGoalWork -----------------------------
(* Instances of GoalWork for TLC: the second item depends on the first. *)
EXTENDS GoalWork

CONSTANTS i1, i2

MCItems == {i1, i2}
MCDependsOn == [i \in MCItems |-> IF i = i2 THEN {i1} ELSE {}]
=============================================================================
