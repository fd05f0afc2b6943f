----------------------------- MODULE MCSpaceStep -----------------------------
(* Small worlds for TLC: the ground and two bodies.  Body d1 carries the      *)
(* shapes s1 and t1, the others one each.                                     *)
EXTENDS SpaceStep, TLC

CONSTANTS ground, d1, d2, s0, s1, t1, s2, j1

Owner == (s0 :> ground) @@ (s1 :> d1) @@ (t1 :> d1) @@ (s2 :> d2)
MCBody == {ground, d1, d2}
MCBodyOf == [s \in Shape |-> Owner[s]]
MCInitType == [b \in Body |-> IF b = ground THEN "static" ELSE "dynamic"]

\* d2 rests on d1, d1 on the ground
StackPair == {{s0, s1}, {s1, s2}}

\* d1 carries a sensor shape t1 that meets the ground
SensorPair == {{s0, t1}, {s1, s2}}

\* d1 and d2 next to each other on the ground
RowPair == {{s0, s1}, {s0, s2}}

\* d2 hangs from the ground
RigEnds == (j1 :> {ground, d2})
RigFirst == (j1 :> ground)
NoEnds == [j \in {} |-> {}]
===============================================================================
