----------------------------- MODULE MCMonitors -----------------------------
(***************************************************************************)
(* Instances of Monitors for TLC.                                          *)
(***************************************************************************)
EXTENDS Monitors, TLC

CONSTANTS m1, e1, main, helper
=============================================================================
