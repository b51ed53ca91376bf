---------------------------- MODULE MCRunControl ----------------------------
(***************************************************************************)
(* Instances of RunControl for TLC: posts d1 and d2, the scheduled runs s1 *)
(* and s2, and cancellation requests c1 and c2.                            *)
(***************************************************************************)
EXTENDS RunControlInvariants

CONSTANTS d1, d2, s1, s2, c1, c2

=============================================================================
