------------------------------ MODULE AgentSlot ------------------------------
(***************************************************************************)
(* What the run registry promises an agent: one turn holds the slot at a   *)
(* time; it gives the slot back exactly once, with a result or without;    *)
(* and from the moment a cancellation is accepted it can only end without. *)
(* RunControl is shown to implement this.                                  *)
(***************************************************************************)
CONSTANTS Turns,   \* identities of turns: a run and the how-manieth start of it
          NoTurn   \* none of them

VARIABLES holder,      \* the turn that has the slot, or NoTurn
          cancelling,  \* whether the holder's cancellation has been accepted
          answered,    \* turns that ended with a result
          ended        \* turns that ended without

slotVars == <<holder, cancelling, answered, ended>>

Init == holder = NoTurn /\ cancelling = FALSE /\ answered = {} /\ ended = {}

Acquire ==
  /\ holder = NoTurn
  /\ holder' \in Turns \ (answered \cup ended)
  /\ cancelling' = FALSE
  /\ UNCHANGED <<answered, ended>>

AcceptCancel ==
  /\ holder # NoTurn
  /\ cancelling' = TRUE
  /\ UNCHANGED <<holder, answered, ended>>

Release ==
  /\ holder # NoTurn
  /\ holder' = NoTurn
  /\ cancelling' = FALSE

Answer ==
  /\ ~ cancelling
  /\ Release
  /\ answered' = answered \cup {holder}
  /\ UNCHANGED ended

End ==
  /\ Release
  /\ ended' = ended \cup {holder}
  /\ UNCHANGED answered

Next == Acquire \/ AcceptCancel \/ Answer \/ End

Spec == Init /\ [][Next]_slotVars

=============================================================================
