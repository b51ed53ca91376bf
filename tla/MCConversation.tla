--------------------------- MODULE MCConversation ---------------------------
(***************************************************************************)
(* The instances of Conversation, of Page and of IdleHook that TLC checks  *)
(* in one run: the conversation of an agent on the server, the page it is  *)
(* shown on, and the idle hook of the project.  A behaviour is a behaviour *)
(* of one of the three, the others stay as they began; what joins the      *)
(* first two is the length of a history, which Page counts for itself, and *)
(* what joins the hook to them are the events it looks at.                 *)
(***************************************************************************)
EXTENDS Conversation, Page, IdleHook

CONSTANTS a1, a2

VARIABLE side   \* which of the three this behaviour is of

MCServes == [r \in RunIDs |-> a1]

\* The two runs are both of a1; they are interchangeable, and so are the goroutines.
MCSymmetry == Permutations(RunIDs) \cup Permutations(Workers)

MCInit == side \in {"conversation", "page", "hook"} /\ ConversationInit /\ PageInit /\ HookInit

MCNext ==
  /\ UNCHANGED side
  /\ \/ side = "conversation" /\ ConversationNext /\ UNCHANGED <<pageVars, hookVars>>
     \/ side = "page" /\ PageNext /\ UNCHANGED <<conversationVars, hookVars>>
     \/ side = "hook" /\ HookNext /\ UNCHANGED <<conversationVars, pageVars>>

MCSpec == MCInit /\ [][MCNext]_<<side, conversationVars, pageVars, hookVars>>

=============================================================================
