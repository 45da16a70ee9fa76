------------------------------- MODULE MCRaft -------------------------------
(* Instance of Raft for TLC: terms and indices up to a bound. *)
EXTENDS Raft, TLC

CONSTANTS MaxTerm, MaxIndex

MCTerm  == 0 .. MaxTerm
MCIndex == 0 .. MaxIndex

\* Values are only copied and compared.
ValueSymmetry == Permutations(Value)
=============================================================================
