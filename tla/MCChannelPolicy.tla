-------------------------- MODULE MCChannelPolicy ---------------------------
(* Small instances of a governed channel for TLC. *)
EXTENDS ChannelPolicy

MCUser == [d \in Devices |-> d]
MCName == [d \in Devices |-> "laptop"]
MCLeaves == 0..2
=============================================================================
