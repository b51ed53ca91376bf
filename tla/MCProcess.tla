------------------------------ MODULE MCProcess ------------------------------
(***************************************************************************)
(* The instance of ProcessPersistence for TLC: two processes, a slot for   *)
(* each of them where saves succeed and one for both where they fail.      *)
(***************************************************************************)
EXTENDS ProcessProperties

MCCapacity == [sound |-> 2, failing |-> 1]

=============================================================================
