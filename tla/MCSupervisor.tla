---------------------------- MODULE MCSupervisor ----------------------------
(* The instance of Supervisor that TLC checks.                              *)
EXTENDS Supervisor
=============================================================================
