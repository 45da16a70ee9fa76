-------------------------- MODULE MCRaftUdpDelivery --------------------------
(* Instance of RaftUdpDelivery for TLC. *)
EXTENDS RaftUdpDelivery
=============================================================================
