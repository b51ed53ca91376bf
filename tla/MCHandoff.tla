------------------------------ MODULE MCHandoff ------------------------------
(***************************************************************************)
(* Instances of Handoff for TLC: one request, answers n1 and n2.           *)
(***************************************************************************)
EXTENDS Handoff

CONSTANTS h1, n1, n2

=============================================================================
