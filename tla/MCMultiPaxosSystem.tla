------------------------- MODULE MCMultiPaxosSystem -------------------------
(* Instance of MultiPaxosSystem for TLC: rounds and instances up to a bound. *)
EXTENDS MultiPaxosSystem

CONSTANTS MaxRound, MaxInst

MCRound == 0 .. MaxRound
MCInst  == 0 .. MaxInst
=============================================================================
