---------------------- MODULE MCConversationTurns ----------------------
(* The instance of ConversationTurns that TLC checks. *)
EXTENDS ConversationTurns
=============================================================================
