------------------------------ MODULE MCProbes ------------------------------
(* The instance of Probes. *)
EXTENDS Probes

CONSTANTS u1, u2, g1, g2
=============================================================================
