------------------------ MODULE MCMultiPaxosProtocol ------------------------
(* Instance of MultiPaxosProtocol for TLC: every majority is a quorum. *)
EXTENDS MultiPaxosProtocol, FiniteSets, TLC

CONSTANTS MaxRound, MaxInst

MCQuorum == {Q \in SUBSET Node : 2 * Cardinality(Q) > Cardinality(Node)}
MCRound  == 0 .. MaxRound
MCInst   == 0 .. MaxInst

NodeSymmetry == Permutations(Node)
=============================================================================
