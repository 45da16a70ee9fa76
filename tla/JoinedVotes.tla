----------------------------- MODULE JoinedVotes -----------------------------
(***************************************************************************)
(* A round as its leader runs it in the generated program: the votes that  *)
(* come with each acknowledgement are merged (VoteMaps), then its sender   *)
(* enters the set of those who joined, and the majority is tested          *)
(* (NodeSets).  The thunks that count the set remember an earlier round.   *)
(***************************************************************************)
EXTENDS VoteMaps, FiniteSets

CONSTANTS
    Size,           \* the acceptors are 0 .. Size - 1
    MaxEarlier      \* bound: arrays remembered from the earlier round

ASSUME SizeAssumption == Size \in Nat \ {0}
ASSUME AcceptorsAssumption == Acceptor = 0 .. Size - 1

VARIABLES iter, all, card, joined_set, asked, answer

set_vars == <<iter, all, card, joined_set, asked, answer>>
round_vars == <<vars, set_vars>>

N == INSTANCE NodeSets WITH i <- iter, voters <- joined_set

\* Whom who names first does not matter.
RoundInit == Init /\ who = 0 /\ N!Init

\* The initialisation of the program, and the earlier round.
earlier ==
    /\ pc = "idle" /\ joined = {}
    /\ \/ N!build
       \/ N!clear
       \/ \E n \in N!Node : N!start(n) /\ joined_set = N!emptyset
       \/ \E n \in N!Node : N!vote(n) /\ joined_set # N!emptyset /\ ~N!member(n, joined_set)
                            /\ Cardinality(N!known \ {all}) < MaxEarlier
    /\ UNCHANGED vars

\* The new round: the leader joins it first, the others as their votes are merged.
joins ==
    \/ joined' = joined /\ UNCHANGED set_vars
    \/ joined = {} /\ joined' # {} /\ N!start(who)
    \/ joined # {} /\ joined' # joined /\ N!vote(who)

RoundNext == earlier \/ (N!ready /\ (joined = {} => joined_set = N!emptyset) /\ Next /\ joins)

RoundSpec == RoundInit /\ [][RoundNext]_round_vars
-----------------------------------------------------------------------------
\* The set of those who joined has each of them once, and the majority test that
\* activates the round says yes exactly when the merged votes are those of more
\* than half of the nodes, whatever the thunks remember.
ActivatedByMajority ==
    /\ joined # {} => Len(joined_set) = Cardinality(joined) /\ N!ToSet(joined_set) = joined
    /\ Cardinality(joined) > 1 => (answer <=> 2 * Cardinality(joined) > Size)

\* The set of all nodes, and a broadcast, have each node once.
EachNodeOnce == N!EachNodeOnce
=============================================================================
