----------------------------- MODULE MCRunLedger -----------------------------
(***************************************************************************)
(* Instances of RunLedger for TLC: runs r1, r2 and r3, client c1.          *)
(***************************************************************************)
EXTENDS RunLedger, TLC

CONSTANTS r1, r2, r3, c1

RunSymmetry == Permutations(Runs)

=============================================================================
