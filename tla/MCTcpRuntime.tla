---------------------------- MODULE MCTcpRuntime ----------------------------
(* Small instances of TcpRuntime for TLC. *)
EXTENDS TcpRuntime

MCPeer == 0..1
TwoFds == 1..2
=============================================================================
