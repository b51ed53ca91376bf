------------------------------- MODULE MCPlans -------------------------------
(***************************************************************************)
(* Instances of Plans for TLC: step b depends on step a and may be part of *)
(* the draft or added later.                                               *)
(***************************************************************************)
EXTENDS Plans, TLC

CONSTANTS p1, p2, a, b, c1, c2, w1, w2

DependsOn == [s \in Steps |-> IF s = b THEN {a} ELSE {}]
=============================================================================
