-------------------------- MODULE MCConversation --------------------------
(* Small instances of a conversation for TLC. *)
EXTENDS Conversation
===========================================================================
