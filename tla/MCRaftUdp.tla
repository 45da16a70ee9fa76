------------------------------ MODULE MCRaftUdp ------------------------------
(* Instance of RaftUdp for TLC. *)
EXTENDS RaftUdp

\* The values of two leaders are told apart.
ByServer == [n \in Node |-> {n}]
Numbers == Node
=============================================================================
