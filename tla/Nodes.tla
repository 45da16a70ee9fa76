------------------------------- MODULE Nodes -------------------------------
(***************************************************************************)
(* Node sets with a majority test (nodes.ivy) and the rotation of leaders  *)
(* over rounds (leader_of and leader_fun in multi_paxos_system.ivy).       *)
(*                                                                         *)
(* nset.card counts the members of a set that the node iterator visits,    *)
(* and nset.all is the set of every node, so on sets of nodes card is the  *)
(* ordinary cardinality.  Nodes are the numbers 0 .. size - 1.             *)
(***************************************************************************)
EXTENDS Integers, FiniteSets

CONSTANT Size          \* node.size, the size of the cluster

ASSUME SizeAssumption == Size \in Nat \ {0}

Node == 0 .. Size - 1

all == Node

card(S) == Cardinality(S)

majority(S) == card(S) + card(S) > card(all)

\* The node sets that nset can represent and that pass the majority test.
Majorities == {S \in SUBSET Node : majority(S)}

none == 0

\* The node a round belongs to: round modulo the number of nodes.
leader_fun(r) == r % Size

leader_of(n, r) == r # none /\ n = leader_fun(r)
=============================================================================
