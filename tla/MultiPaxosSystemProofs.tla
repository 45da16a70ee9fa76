------------------------ MODULE MultiPaxosSystemProofs ------------------------
(***************************************************************************)
(* The Multi-Paxos servers, for clusters of any size and any rounds,       *)
(* instances and commands: the invariants of multi_paxos_system.ivy, that  *)
(* the calls of the protocol the servers make are allowed ones, and that   *)
(* the servers with their adapters keep the promise of CommittedLog.       *)
(***************************************************************************)
EXTENDS MultiPaxosService, FiniteSetTheorems, WellFoundedInduction, TLAPS

\* The lemmas about the protocol, of the protocol the servers take part in.
PP == INSTANCE MultiPaxosProtocolProofs WITH Quorum <- Majorities

-----------------------------------------------------------------------------
(***************************************************************************)
(* The two properties the protocol takes from its environment.             *)
(***************************************************************************)

\* A cluster has finitely many nodes.
LEMMA NodeIsFinite == IsFiniteSet(Node)
<1>1. 0 \in Int /\ Size - 1 \in Int
  BY SizeAssumption
<1> QED
  BY <1>1, FS_Interval DEF Node

\* [majorities_intersect] of nset in nodes.ivy: two majorities share a node.
THEOREM MajoritiesIntersect == \A S, T \in Majorities : S \cap T # {}
<1> SUFFICES ASSUME NEW S \in SUBSET Node, NEW T \in SUBSET Node,
                    majority(S), majority(T)
             PROVE  S \cap T # {}
  BY DEF Majorities
<1>1. IsFiniteSet(S) /\ IsFiniteSet(T)
  BY NodeIsFinite, FS_Subset
<1>2. /\ Cardinality(S) \in Nat /\ Cardinality(T) \in Nat
      /\ Cardinality(Node) \in Nat
  BY <1>1, NodeIsFinite, FS_CardinalityType
<1>3. Cardinality(S) + Cardinality(T) > Cardinality(Node)
  BY <1>2 DEF majority, card, all
<1> QED
  BY <1>3, NodeIsFinite, FS_MajoritiesIntersect

\* [injectivity] of round_leader in multi_paxos_system.ivy, and that every round but
\* none has a leader.
THEOREM RoundHasOneLeader ==
  \A r \in Nat \ {none} :
     /\ \E n \in Node : leader_of(n, r)
     /\ \A n1, n2 \in Node : leader_of(n1, r) /\ leader_of(n2, r) => n1 = n2
<1> SUFFICES ASSUME NEW r \in Nat, r # none
             PROVE  r % Size \in 0 .. Size - 1
  BY DEF leader_of, leader_fun, Node
<1> QED
  BY SizeAssumption

USE DEF none

-----------------------------------------------------------------------------
(***************************************************************************)
(* Numbers.                                                                *)
(***************************************************************************)

\* Rounds, instances and bounds of segments are numbers.
LEMMA Numbers ==
  /\ Round \subseteq Nat /\ 0 \in Round
  /\ Inst \subseteq Nat /\ 0 \in Inst
  /\ P!Bound \subseteq Nat /\ Inst \subseteq P!Bound
  /\ \A i \in Inst : i + 1 \in P!Bound
<1>1. Round \subseteq Nat /\ 0 \in Round /\ Inst \subseteq Nat /\ 0 \in Inst
  BY RoundsAssumption, InstsAssumption
<1>2. P!Bound = Inst \cup {i + 1 : i \in Inst}
  BY DEF P!Bound
<1>3. \A b \in P!Bound : b \in Nat
  BY <1>1, <1>2
<1> QED
  BY <1>1, <1>2, <1>3

\* Nodes are the numbers below the size of the cluster.
LEMMA NodesAreNumbers == Node \subseteq Nat /\ no_leader \notin Node
  BY SizeAssumption DEF Node, no_leader

\* What is below an instance, or below a bound, is an instance.
LEMMA BelowIsInst ==
  /\ \A i \in Inst, j \in Nat : j <= i => j \in Inst
  /\ \A b \in P!Bound, j \in Nat : j < b => j \in Inst
<1>1. \A i \in Inst, j \in Nat : j <= i => j \in Inst
  <2> SUFFICES ASSUME NEW i \in Inst, NEW j \in Nat, j <= i
               PROVE  j \in Inst
    OBVIOUS
  <2>1. j \in 0 .. i
    BY Numbers
  <2> QED
    BY <2>1, InstsAssumption
<1>2. \A b \in P!Bound, j \in Nat : j < b => j \in Inst
  BY <1>1, Numbers DEF P!Bound
<1> QED
  BY <1>1, <1>2

\* Any set of numbers that is not empty has a least one.
Less == {ss \in Nat \X Nat : ss[1] < ss[2]}

LEMMA LeastNumber == \A T \in SUBSET Nat : T # {} => \E x \in T : \A y \in T : x <= y
<1> SUFFICES ASSUME NEW T \in SUBSET Nat, T # {}
             PROVE  \E x \in T : \A y \in T : x <= y
  OBVIOUS
<1>1. IsWellFoundedOn(Less, Nat)
  BY NatLessThanWellFounded DEF OpToRel, Less
<1>2. PICK x \in T : \A y \in T : ~(<<y, x>> \in Less)
  BY <1>1, WFMin
<1>3. \A y \in T : x <= y
  <2> SUFFICES ASSUME NEW y \in T, y < x
               PROVE  FALSE
    OBVIOUS
  <2>1. <<y, x>> \in Nat \X Nat /\ <<y, x>>[1] < <<y, x>>[2]
    OBVIOUS
  <2> QED
    BY <1>2, <2>1 DEF Less
<1> QED
  BY <1>3

\* ... and a greatest one, if there is a number above them all.
LEMMA GreatestNumber ==
  \A T \in SUBSET Nat, k \in Nat :
    T # {} /\ (\A y \in T : y <= k) => \E x \in T : \A y \in T : y <= x
<1> SUFFICES ASSUME NEW T \in SUBSET Nat, NEW k \in Nat, T # {}, \A y \in T : y <= k
             PROVE  \E x \in T : \A y \in T : y <= x
  OBVIOUS
<1> DEFINE U == {u \in Nat : \A y \in T : y <= u}
<1>1. PICK u \in U : \A w \in U : u <= w
  <2>1. U \in SUBSET Nat /\ k \in U
    OBVIOUS
  <2> QED
    BY <2>1, LeastNumber
<1>2. u \in Nat /\ \A y \in T : y <= u
  OBVIOUS
<1>3. u \in T
  <2> SUFFICES ASSUME u \notin T PROVE FALSE
    OBVIOUS
  <2>1. \A y \in T : y \in Nat /\ y < u
    BY <1>2
  <2>2. \A y \in T : y \in Nat /\ y <= u - 1
    BY <1>2, <2>1
  <2>3. u - 1 \in Nat
    <3>1. PICK y \in T : TRUE
      OBVIOUS
    <3> QED
      BY <1>2, <2>1, <3>1
  <2> QED
    BY <1>1, <1>2, <2>2, <2>3
<1> QED
  BY <1>2, <1>3

\* Min and Max of the community modules are what they should be.
LEMMA MinIsLeast ==
  \A T \in SUBSET Nat : T # {} => Min(T) \in T /\ \A y \in T : Min(T) <= y
  BY LeastNumber DEF Min

LEMMA MaxIsGreatest ==
  \A T \in SUBSET Nat, k \in Nat :
    T # {} /\ (\A y \in T : y <= k) => Max(T) \in T /\ \A y \in T : y <= Max(T)
<1> SUFFICES ASSUME NEW T \in SUBSET Nat, NEW k \in Nat, T # {}, \A y \in T : y <= k
             PROVE  Max(T) \in T /\ \A y \in T : y <= Max(T)
  OBVIOUS
<1>1. PICK x \in T : \A y \in T : y <= x
  BY GreatestNumber
<1>2. \E z \in T : \A y \in T : z >= y
  BY <1>1
<1>3. Max(T) \in T /\ \A y \in T : Max(T) >= y
  BY <1>2 DEF Max
<1> QED
  BY <1>3

LEMMA MaxOfTwo ==
  \A a, b \in Nat : /\ Max({a, b}) \in {a, b}
                    /\ a <= Max({a, b}) /\ b <= Max({a, b})
<1> SUFFICES ASSUME NEW a \in Nat, NEW b \in Nat
             PROVE  Max({a, b}) \in {a, b} /\ a <= Max({a, b}) /\ b <= Max({a, b})
  OBVIOUS
<1>1. {a, b} \in SUBSET Nat /\ {a, b} # {} /\ a + b \in Nat /\ \A y \in {a, b} : y <= a + b
  OBVIOUS
<1>2. Max({a, b}) \in {a, b} /\ \A y \in {a, b} : y <= Max({a, b})
  BY <1>1, MaxIsGreatest
<1> QED
  BY <1>2
-----------------------------------------------------------------------------
(***************************************************************************)
(* The invariant.                                                          *)
(***************************************************************************)

\* The round a server is in decides which rounds it has left; it has joined no
\* later round, and its own one.
LeftAreLower ==
    \A n \in Node, R \in Round :
        <<n, R>> \in left_round <=> (R < current_round[n] \/ R = none)
JoinedAreEntered ==
    \A n \in Node, R \in Round :
        <<n, R>> \in joined_round => R # none /\ R <= current_round[n]
OwnRoundIsJoined ==
    \A n \in Node : current_round[n] # none => <<n, current_round[n]>> \in joined_round

Rounds == LeftAreLower /\ JoinedAreEntered /\ OwnRoundIsJoined

\* A server follows the leader of its round.  Exactly the rounds that were
\* activated by their leader are active.
LeaderIsFollowed ==
    \A n \in Node : current_round[n] # none => leader_of(current_leader[n], current_round[n])
ActivatedByLeader ==
    \A r \in active : \E n \in Node :
        /\ leader_of(n, r)
        /\ r < current_round[n] \/ (r = current_round[n] /\ round_active[n])
LeadersAreActive ==
    \A n \in Node : round_active[n] =>
        current_round[n] \in active /\ leader_of(n, current_round[n])

Leaders == LeaderIsFollowed /\ ActivatedByLeader /\ LeadersAreActive

\* A server's votes are the last it cast, none in a later round than its own.
OwnVotesAreCast ==
    \A n \in Node, i \in Inst :
        my_votes[n][i].maxr # none =>
            <<n, i, my_votes[n][i].maxr, my_votes[n][i].maxv>> \in vote
OwnVotesAreLast ==
    \A w \in vote : w[3] <= my_votes[w[1]][w[2]].maxr /\ w[3] <= current_round[w[1]]

OwnVotes == OwnVotesAreCast /\ OwnVotesAreLast

\* m tells, from its first instance on, the last votes that the nodes of q cast
\* below r.
tells(m, q, r) ==
    \A i \in Inst : m.first <= i =>
        LET x == maxvote(m, i)
        IN  /\ x.maxr # none => \E p \in q : <<p, i, x.maxr, x.maxv>> \in vote
            /\ \A w \in vote : w[1] \in q /\ w[2] = i /\ w[3] < r => w[3] <= x.maxr

\* What a message of each kind says of the history.
leader_speaks(m) == leader_of(m.node, m.round) /\ m.round <= current_round[m.node]

truthful(m, d) ==
    /\ m.kind = "one_a" =>
         /\ leader_speaks(m)
         /\ m.round = current_round[m.node] => m.inst = joined_votes[m.node].first
    /\ m.kind = "one_b" =>
         /\ leader_of(d, m.round)
         /\ m.round <= current_round[d]
         /\ m.round = current_round[d] => m.votemap.first = joined_votes[d].first
         /\ <<m.node, m.round>> \in joined_round
         /\ tells(m.votemap, {m.node}, m.round)
    /\ m.kind = "two_a" => leader_speaks(m) /\ <<m.inst, m.round, m.value>> \in proposal
    /\ m.kind = "two_b" => <<m.node, m.inst, m.round, m.value>> \in vote
    /\ m.kind = "keep_alive" => leader_speaks(m)
    /\ m.kind = "decide" => <<m.inst, m.value>> \in decision
    /\ m.kind \in {"missing_two_a", "missing_decision"} => leader_of(d, m.round)

Messages == \A s \in sent : truthful(s[1], s[2])

\* Those a server has counted as joined have joined its round; a leader holds
\* their votes.
JoinedJoined == \A n \in Node : \A p \in joined[n] : <<p, current_round[n]>> \in joined_round
JoinedAreHeard ==
    \A n \in Node : leader_of(n, current_round[n]) =>
        tells(joined_votes[n], joined[n], current_round[n])
SegmentsAreOrdered == \A n \in Node : joined_votes[n].first <= joined_votes[n].upper

Joiners == JoinedJoined /\ JoinedAreHeard /\ SegmentsAreOrdered

\* A server is active at an instance for a proposal of its round.
StatusIsProposed ==
    \A n \in Node, i \in Inst :
        inst_status[n][i].active => <<i, current_round[n], inst_status[n][i].proposal>> \in proposal

\* From next_inst on, the round of an active leader is free.
FreeFromNext ==
    \A n \in Node : round_active[n] =>
        \A i \in Inst : next_inst[n] <= i => <<current_round[n], i>> \in available

\* Logs and reports hold decisions.
LogsAreDecided ==
    \A n \in Node, i \in Inst : my_log[n][i].present => <<i, my_log[n][i].decision>> \in decision
ReportsAreDecided == \A d \in decided : <<d[2], d[3]>> \in decision

\* Votes and logs end somewhere.
EndsAt(k) ==
    \A n \in Node, i \in Inst : k <= i => my_votes[n][i].maxr = none /\ ~my_log[n][i].present
End == \E k \in Nat : EndsAt(k)

\* The conjunction that every step preserves.
SysInv ==
    /\ TypeOK /\ P!Inv
    /\ Rounds /\ Leaders /\ OwnVotes /\ Messages /\ Joiners
    /\ StatusIsProposed /\ CountedVotesAreCurrent /\ FreeFromNext
    /\ LogsAreDecided /\ ReportsAreDecided
    /\ End /\ FirstUndecidedIsFirstHole
-----------------------------------------------------------------------------
(***************************************************************************)
(* Vote maps.                                                              *)
(***************************************************************************)

\* What the protocol's lemmas take for granted holds of the servers.
LEMMA QuorumsIntersect ==
  /\ Majorities \subseteq SUBSET Node
  /\ \A Q1, Q2 \in Majorities : Q1 \cap Q2 # {}
  BY MajoritiesIntersect DEF Majorities

LEMMA ProtocolData == Round \subseteq Nat /\ PP!none \in Round /\ Inst \subseteq Nat /\ no_op \in Value
  BY Numbers, CommandsAssumption DEF PP!none

\* No vote is a vote by type.
LEMMA NoVote == P!not_a_vote \in P!Vote /\ P!not_a_vote.maxr = none
  BY Numbers, CommandsAssumption DEF P!not_a_vote, P!Vote, P!none

\* A segment has its two bounds and a vote for each instance between them.
LEMMA SegmentHas ==
  \A m \in P!Segment :
    /\ m.first \in P!Bound /\ m.upper \in P!Bound
    /\ m.vote \in [m.first .. m.upper - 1 -> P!Vote]
<1> SUFFICES ASSUME NEW m \in P!Segment
             PROVE  /\ m.first \in P!Bound /\ m.upper \in P!Bound
                    /\ m.vote \in [m.first .. m.upper - 1 -> P!Vote]
  OBVIOUS
<1> DEFINE Of(f, u) == [first : {f}, upper : {u}, vote : [f .. u - 1 -> P!Vote]]
<1>1. m \in UNION {Of(f, u) : f \in P!Bound, u \in P!Bound}
  BY DEF P!Segment
<1> HIDE DEF Of
<1>2. PICK f \in P!Bound, u \in P!Bound : m \in Of(f, u)
  BY <1>1
<1> QED
  BY <1>2 DEF Of

\* ... and such a record is a segment.
LEMMA SegmentFrom ==
  \A f \in P!Bound, u \in P!Bound : \A g \in [f .. u - 1 -> P!Vote] :
     [first |-> f, upper |-> u, vote |-> g] \in P!Segment
<1> SUFFICES ASSUME NEW f \in P!Bound, NEW u \in P!Bound, NEW g \in [f .. u - 1 -> P!Vote]
             PROVE  [first |-> f, upper |-> u, vote |-> g] \in P!Segment
  OBVIOUS
<1> DEFINE Of(ff, uu) == [first : {ff}, upper : {uu}, vote : [ff .. uu - 1 -> P!Vote]]
<1>1. [first |-> f, upper |-> u, vote |-> g] \in Of(f, u)
  OBVIOUS
<1> HIDE DEF Of
<1>2. [first |-> f, upper |-> u, vote |-> g] \in UNION {Of(ff, uu) : ff \in P!Bound, uu \in P!Bound}
  BY <1>1
<1> QED
  BY <1>2 DEF P!Segment, Of

LEMMA MaxvoteIsVote == \A m \in P!Segment, i \in Inst : maxvote(m, i) \in P!Vote
<1> SUFFICES ASSUME NEW m \in P!Segment, NEW i \in Inst
             PROVE  maxvote(m, i) \in P!Vote
  OBVIOUS
<1>1. m.first \in Nat /\ m.upper \in Nat /\ i \in Nat
  BY SegmentHas, Numbers
<1>2. CASE m.first <= i /\ i < m.upper
  <2>1. i \in m.first .. m.upper - 1
    BY <1>1, <1>2
  <2> QED
    BY <1>2, <2>1, SegmentHas DEF maxvote, P!maxvote
<1>3. CASE ~(m.first <= i /\ i < m.upper)
  BY <1>3, NoVote DEF maxvote, P!maxvote
<1> QED
  BY <1>2, <1>3

\* zip_max keeps the first instance, ends where the longer segment ends, and
\* has the later of two votes at each instance.
LEMMA ZipMax ==
  \A m1, m2 \in P!Segment :
    /\ zip_max(m1, m2) \in P!Segment
    /\ zip_max(m1, m2).first = m1.first
    /\ m1.upper <= zip_max(m1, m2).upper
    /\ \A i \in Inst : m1.first <= i =>
         /\ maxvote(zip_max(m1, m2), i) \in {maxvote(m1, i), maxvote(m2, i)}
         /\ maxvote(m1, i).maxr <= maxvote(zip_max(m1, m2), i).maxr
         /\ maxvote(m2, i).maxr <= maxvote(zip_max(m1, m2), i).maxr
<1> SUFFICES ASSUME NEW m1 \in P!Segment, NEW m2 \in P!Segment
             PROVE  /\ zip_max(m1, m2) \in P!Segment
                    /\ zip_max(m1, m2).first = m1.first
                    /\ m1.upper <= zip_max(m1, m2).upper
                    /\ \A i \in Inst : m1.first <= i =>
                         /\ maxvote(zip_max(m1, m2), i) \in {maxvote(m1, i), maxvote(m2, i)}
                         /\ maxvote(m1, i).maxr <= maxvote(zip_max(m1, m2), i).maxr
                         /\ maxvote(m2, i).maxr <= maxvote(zip_max(m1, m2), i).maxr
  OBVIOUS
<1> DEFINE u == Max({m1.upper, m2.upper})
           later(i) == IF maxvote(m1, i).maxr < maxvote(m2, i).maxr
                       THEN maxvote(m2, i) ELSE maxvote(m1, i)
           g == [i \in m1.first .. u - 1 |-> later(i)]
           z == zip_max(m1, m2)
<1>1. z = [first |-> m1.first, upper |-> u, vote |-> g]
  BY DEF zip_max
<1>2. /\ m1.first \in Nat /\ m1.upper \in Nat /\ m2.upper \in Nat
      /\ m1.first \in P!Bound /\ m1.upper \in P!Bound /\ m2.upper \in P!Bound
  BY SegmentHas, Numbers
<1>3. u \in {m1.upper, m2.upper} /\ m1.upper <= u /\ m2.upper <= u
  BY <1>2, MaxOfTwo
<1>4. u \in P!Bound /\ u \in Nat
  BY <1>2, <1>3
<1> HIDE DEF u
<1>5. \A i \in Inst : /\ later(i) \in P!Vote /\ later(i) \in {maxvote(m1, i), maxvote(m2, i)}
                      /\ maxvote(m1, i).maxr <= later(i).maxr
                      /\ maxvote(m2, i).maxr <= later(i).maxr
  <2> SUFFICES ASSUME NEW i \in Inst
               PROVE  /\ later(i) \in P!Vote /\ later(i) \in {maxvote(m1, i), maxvote(m2, i)}
                      /\ maxvote(m1, i).maxr <= later(i).maxr
                      /\ maxvote(m2, i).maxr <= later(i).maxr
    OBVIOUS
  <2>1. /\ maxvote(m1, i) \in P!Vote /\ maxvote(m2, i) \in P!Vote
        /\ maxvote(m1, i).maxr \in Nat /\ maxvote(m2, i).maxr \in Nat
    BY MaxvoteIsVote, Numbers DEF P!Vote
  <2> QED
    BY <2>1
<1> HIDE DEF later
<1>6. \A i \in m1.first .. u - 1 : i \in Inst
  BY <1>2, <1>4, BelowIsInst
<1>7. g \in [m1.first .. u - 1 -> P!Vote]
  BY <1>5, <1>6
<1>8. z \in P!Segment
  BY <1>1, <1>2, <1>4, <1>7, SegmentFrom
<1>9. ASSUME NEW i \in Inst, m1.first <= i
      PROVE  /\ maxvote(z, i) \in {maxvote(m1, i), maxvote(m2, i)}
             /\ maxvote(m1, i).maxr <= maxvote(z, i).maxr
             /\ maxvote(m2, i).maxr <= maxvote(z, i).maxr
  <2>1. i \in Nat
    BY Numbers
  <2>2. CASE i < u
    <3>1. i \in m1.first .. u - 1
      BY <1>2, <1>4, <1>9, <2>1, <2>2
    <3>2. maxvote(z, i) = later(i)
      BY <1>1, <1>9, <2>2, <3>1 DEF maxvote, P!maxvote
    <3> QED
      BY <1>5, <3>2
  <2>3. CASE u <= i
    <3>1. ~(i < m1.upper) /\ ~(i < m2.upper) /\ ~(i < u)
      BY <1>2, <1>3, <1>4, <2>1, <2>3
    <3>2. /\ maxvote(z, i) = P!not_a_vote /\ maxvote(m1, i) = P!not_a_vote
          /\ maxvote(m2, i) = P!not_a_vote
      BY <1>1, <3>1 DEF maxvote, P!maxvote
    <3> QED
      BY <3>2, NoVote
  <2> QED
    BY <1>4, <2>1, <2>2, <2>3
<1> HIDE DEF z
<1> QED
  BY <1>1, <1>3, <1>8, <1>9 DEF z

\* The votes of a server end behind its last vote.
LEMMA VotesEnd ==
  my_votes \in [Node -> [Inst -> P!Vote]] /\ End =>
    \A n \in Node : /\ votes_end(n) \in P!Bound
                    /\ \A i \in Inst : votes_end(n) <= i => my_votes[n][i].maxr = none
<1> SUFFICES ASSUME my_votes \in [Node -> [Inst -> P!Vote]], End, NEW n \in Node
             PROVE  /\ votes_end(n) \in P!Bound
                    /\ \A i \in Inst : votes_end(n) <= i => my_votes[n][i].maxr = none
  OBVIOUS
<1> DEFINE V == {i \in Inst : my_votes[n][i].maxr # none}
           T == {0} \cup {i + 1 : i \in V}
<1>1. PICK k \in Nat : \A i \in Inst : k <= i => my_votes[n][i].maxr = none
  BY DEF End, EndsAt
<1>2. \A y \in T : y \in P!Bound /\ y \in Nat
  BY Numbers
<1>3. \A y \in T : y <= k
  <2>1. \A i \in V : i \in Nat /\ i < k
    BY <1>1, Numbers
  <2> QED
    BY <2>1
<1>4. Max(T) \in T /\ \A y \in T : y <= Max(T)
  <2>1. T \in SUBSET Nat /\ T # {}
    BY <1>2
  <2> HIDE DEF T
  <2> QED
    BY <1>3, <2>1, MaxIsGreatest
<1>5. votes_end(n) = Max(T)
  BY DEF votes_end
<1>6. ASSUME NEW i \in Inst, votes_end(n) <= i, my_votes[n][i].maxr # none
      PROVE  FALSE
  <2>1. i + 1 \in T /\ i \in Nat
    BY <1>6, Numbers
  <2> QED
    BY <1>2, <1>4, <1>5, <1>6, <2>1
<1> QED
  BY <1>2, <1>4, <1>5, <1>6

\* A server reports its own votes from the first instance asked for on.
LEMMA OwnVotesReport ==
  my_votes \in [Node -> [Inst -> P!Vote]] /\ End =>
    \A n \in Node, b \in P!Bound :
      /\ own_votes(n, b) \in P!Segment
      /\ own_votes(n, b).first = b
      /\ b <= own_votes(n, b).upper
      /\ \A i \in Inst : b <= i =>
           /\ maxvote(own_votes(n, b), i).maxr = my_votes[n][i].maxr
           /\ maxvote(own_votes(n, b), i).maxr # none =>
                maxvote(own_votes(n, b), i) = my_votes[n][i]
<1> SUFFICES ASSUME my_votes \in [Node -> [Inst -> P!Vote]], End,
                    NEW n \in Node, NEW b \in P!Bound
             PROVE  /\ own_votes(n, b) \in P!Segment
                    /\ own_votes(n, b).first = b
                    /\ b <= own_votes(n, b).upper
                    /\ \A i \in Inst : b <= i =>
                         /\ maxvote(own_votes(n, b), i).maxr = my_votes[n][i].maxr
                         /\ maxvote(own_votes(n, b), i).maxr # none =>
                              maxvote(own_votes(n, b), i) = my_votes[n][i]
  OBVIOUS
<1> DEFINE u == Max({b, votes_end(n)})
           g == [i \in b .. u - 1 |-> my_votes[n][i]]
           m == own_votes(n, b)
<1>1. m = [first |-> b, upper |-> u, vote |-> g]
  BY DEF own_votes, make
<1>2. votes_end(n) \in P!Bound /\ \A i \in Inst : votes_end(n) <= i => my_votes[n][i].maxr = none
  BY VotesEnd
<1>3. b \in Nat /\ votes_end(n) \in Nat
  BY <1>2, Numbers
<1>4. u \in P!Bound /\ u \in Nat /\ b <= u /\ votes_end(n) <= u
  BY <1>2, <1>3, MaxOfTwo
<1> HIDE DEF u
<1>5. \A i \in b .. u - 1 : i \in Inst
  BY <1>3, <1>4, BelowIsInst
<1>6. g \in [b .. u - 1 -> P!Vote]
  BY <1>5
<1>7. m \in P!Segment
  BY <1>1, <1>4, <1>6, SegmentFrom
<1>8. ASSUME NEW i \in Inst, b <= i
      PROVE  /\ maxvote(m, i).maxr = my_votes[n][i].maxr
             /\ maxvote(m, i).maxr # none => maxvote(m, i) = my_votes[n][i]
  <2>1. i \in Nat
    BY Numbers
  <2>2. CASE i < u
    <3>1. i \in b .. u - 1
      BY <1>3, <1>4, <1>8, <2>1, <2>2
    <3>2. maxvote(m, i) = my_votes[n][i]
      BY <1>1, <1>8, <2>2, <3>1 DEF maxvote, P!maxvote
    <3> QED
      BY <3>2
  <2>3. CASE u <= i
    <3>1. ~(i < u) /\ votes_end(n) <= i
      BY <1>3, <1>4, <2>1, <2>3
    <3>2. maxvote(m, i) = P!not_a_vote
      BY <1>1, <3>1 DEF maxvote, P!maxvote
    <3> QED
      BY <1>2, <3>1, <3>2, NoVote
  <2> QED
    BY <1>4, <2>1, <2>2, <2>3
<1> HIDE DEF m
<1> QED
  BY <1>1, <1>4, <1>7, <1>8 DEF m

\* The next hole of a log that ends: the least open instance behind i.
LEMMA NextHole ==
  \A S \in SUBSET Inst, i \in Inst, k \in Nat :
    (\A j \in Inst : k <= j => j \notin S) =>
      LET H == {j \in P!Bound : j > i /\ ~(j \in Inst /\ j \in S)}
      IN  /\ Min(H) \in P!Bound /\ i < Min(H) /\ Min(H) \notin S
          /\ \A j \in Nat : i < j /\ j < Min(H) => j \in S
<1> SUFFICES ASSUME NEW S \in SUBSET Inst, NEW i \in Inst, NEW k \in Nat,
                    \A j \in Inst : k <= j => j \notin S
             PROVE  LET H == {j \in P!Bound : j > i /\ ~(j \in Inst /\ j \in S)}
                    IN  /\ Min(H) \in P!Bound /\ i < Min(H) /\ Min(H) \notin S
                        /\ \A j \in Nat : i < j /\ j < Min(H) => j \in S
  OBVIOUS
<1> DEFINE H == {j \in P!Bound : j > i /\ ~(j \in Inst /\ j \in S)}
           U == {j \in Nat : j > i /\ j \notin S}
<1>1. i \in Nat /\ i + k + 1 \in Nat
  BY Numbers
<1>2. i + k + 1 \in U
  <2>1. i + k + 1 \notin S
    BY <1>1
  <2> QED
    BY <1>1, <2>1
<1>3. PICK h \in U : \A j \in U : h <= j
  <2>1. U \in SUBSET Nat /\ U # {}
    BY <1>2
  <2> HIDE DEF U
  <2> QED
    BY <2>1, LeastNumber
<1>4. h \in Nat /\ i < h /\ h \notin S
  BY <1>1, <1>3
<1>5. \A j \in Nat : i < j /\ j < h => j \in S
  BY <1>1, <1>3, <1>4
<1>6. h \in P!Bound
  <2>1. CASE h = i + 1
    BY <2>1, Numbers
  <2>2. CASE h # i + 1
    <3>1. h - 1 \in Nat /\ i < h - 1 /\ h - 1 < h
      BY <1>1, <1>4, <2>2
    <3>2. h - 1 \in Inst
      BY <1>5, <3>1
    <3>3. (h - 1) + 1 = h
      BY <1>4
    <3> QED
      BY <3>2, <3>3, Numbers
  <2> QED
    BY <2>1, <2>2
<1>7. h \in H
  BY <1>1, <1>4, <1>6
<1>8. \A j \in H : j \in U
  BY <1>1, Numbers
<1>9. Min(H) \in H /\ Min(H) <= h
  <2>1. H \in SUBSET Nat /\ H # {}
    BY <1>7, Numbers
  <2> HIDE DEF H
  <2> QED
    BY <1>7, <2>1, MinIsLeast
<1>10. Min(H) = h
  <2>1. Min(H) \in Nat /\ h <= Min(H)
    BY <1>3, <1>8, <1>9
  <2> HIDE DEF H
  <2> QED
    BY <1>4, <1>9, <2>1
<1> QED
  BY <1>4, <1>5, <1>6, <1>10
-----------------------------------------------------------------------------
(***************************************************************************)
(* The protocol.  A step of a server calls several of the protocol's       *)
(* actions or none; the invariant of the protocol survives each step.      *)
(***************************************************************************)

\* The protocol's invariant, in the words of its proofs.
LEMMA SameInv == P!Inv <=> PP!Inv
  BY DEF P!Inv, P!TypeOK, P!ProposedInActive, P!OneProposalPerRound, P!VotedIsProposed,
         P!NoneIsReserved, P!JoinedHasLeftLower, P!DecidedByQuorum, P!AvailableIsUnproposed,
         P!RuledOutIsNotChoosable, P!rules_out, P!chosen, P!none,
         PP!Inv, PP!TypeOK, PP!ProposedInActive, PP!OneProposalPerRound, PP!VotedIsProposed,
         PP!NoneIsReserved, PP!JoinedHasLeftLower, PP!DecidedByQuorum,
         PP!AvailableIsUnproposed, PP!RuledOutIsNotChoosable, PP!rules_out, PP!chosen,
         PP!none

LEMMA SameInvNext == P!Inv' <=> PP!Inv'
  BY SameInv, PTL

LEMMA SameType == P!TypeOK' <=> PP!TypeOK'
  BY DEF P!TypeOK, PP!TypeOK

LEMMA SameData ==
  /\ PP!Segment = P!Segment
  /\ \A m, i : PP!maxvote(m, i) = P!maxvote(m, i)
  /\ \A q, i, r, x : PP!safe_at(q, i, r, x) <=> P!safe_at(q, i, r, x)
  /\ \A r, m : PP!recovered(r, m) = P!recovered(r, m)
  BY DEF PP!Segment, P!Segment, PP!Vote, P!Vote, PP!Bound, P!Bound, PP!maxvote, P!maxvote,
         PP!not_a_vote, P!not_a_vote, PP!none, P!none, PP!safe_at, P!safe_at,
         PP!votes_between, P!votes_between, PP!recovered, P!recovered

LEMMA GhostInit == P!Init => P!Inv
<1>1. PP!Init => PP!Inv
  BY PP!InitInv, QuorumsIntersect, ProtocolData
<1>2. P!Init => PP!Init
  BY DEF P!Init, PP!Init, P!none, PP!none
<1> QED
  BY <1>1, <1>2, SameInv

LEMMA GhostJoinVote ==
  ASSUME P!Inv, P!TypeOK',
         NEW n \in Node, NEW r \in Round, r # none,
         \/ UNCHANGED <<left_round, joined_round>>
         \/ /\ left_round' = left_round \cup {<<n, R>> : R \in {R \in Round : R < r}}
            /\ joined_round' = joined_round \cup {<<n, r>>},
         <<n, r>> \notin left_round,
         \/ UNCHANGED vote
         \/ \E i \in Inst, v \in Value :
               <<i, r, v>> \in proposal /\ vote' = vote \cup {<<n, i, r, v>>},
         UNCHANGED <<proposal, decision, active, available>>
  PROVE  P!Inv'
<1>1. PP!Inv /\ PP!TypeOK' /\ r # PP!none
  BY SameInv, SameType DEF PP!none
<1>2. PP!Inv'
  BY <1>1, PP!JoinVoteInv, QuorumsIntersect, ProtocolData
<1> QED
  BY <1>2, SameInvNext

LEMMA GhostProposeVote ==
  ASSUME P!Inv, P!TypeOK',
         NEW n \in Node, NEW r \in Round, NEW i \in Inst, NEW v \in Value,
         r # none, <<n, r>> \notin left_round,
         r \in active, <<r, i>> \in available,
         available' = available \ {<<r, i>>},
         proposal' = proposal \cup {<<i, r, v>>},
         vote' = vote \cup {<<n, i, r, v>>},
         UNCHANGED <<left_round, joined_round, decision, active>>
  PROVE  P!Inv'
<1>1. PP!Inv /\ PP!TypeOK' /\ r # PP!none
  BY SameInv, SameType DEF PP!none
<1>2. PP!Inv'
  BY <1>1, PP!ProposeVoteInv, QuorumsIntersect, ProtocolData
<1> QED
  BY <1>2, SameInvNext

LEMMA GhostActivate ==
  ASSUME P!Inv, P!TypeOK', NEW r \in Round, NEW q \in Majorities, NEW m \in P!Segment,
         P!receive_join_acks(r, q, m)
  PROVE  P!Inv'
<1>1. PP!Inv /\ PP!TypeOK' /\ m \in PP!Segment
  BY SameInv, SameType, SameData
<1>2. PP!receive_join_acks(r, q, m)
  BY SameData DEF P!receive_join_acks, PP!receive_join_acks, P!none, PP!none
<1>3. PP!Inv'
  BY <1>1, <1>2, PP!ReceiveInv, QuorumsIntersect, ProtocolData
<1> QED
  BY <1>3, SameInvNext

LEMMA GhostDecide ==
  ASSUME P!Inv, P!TypeOK', NEW i \in Inst, NEW r \in Round, NEW v \in Value,
         NEW q \in Majorities, P!decide(i, r, v, q)
  PROVE  P!Inv'
<1>1. PP!Inv /\ PP!TypeOK' /\ PP!decide(i, r, v, q)
  BY SameInv, SameType DEF P!decide, PP!decide, P!none, PP!none
<1>2. PP!Inv'
  BY <1>1, PP!DecideInv, QuorumsIntersect, ProtocolData
<1> QED
  BY <1>2, SameInvNext

LEMMA GhostStutter ==
  P!Inv /\ UNCHANGED <<left_round, joined_round, proposal, vote, decision, active, available>>
    => P!Inv'
<1>1. PP!Inv /\ UNCHANGED PP!vars => PP!Inv'
  BY PP!StutterInv, QuorumsIntersect, ProtocolData
<1> QED
  BY <1>1, SameInv, SameInvNext DEF PP!vars

\* Consequences of the protocol's invariant.
LEMMA GhostAgreement ==
  P!Inv => \A i \in Inst, v1, v2 \in Value :
             <<i, v1>> \in decision /\ <<i, v2>> \in decision => v1 = v2
<1>1. PP!Inv => PP!Agreement
  BY PP!InvAgreement, QuorumsIntersect, ProtocolData
<1> QED
  BY <1>1, SameInv DEF PP!Agreement

LEMMA GhostAvailable ==
  P!Inv => \A a \in available, r \in Round, v \in Value : r < a[1] => ~P!chosen(a[2], r, v)
<1>1. PP!Inv => PP!AvailableIsNotChosen
  BY PP!InvAvailable, QuorumsIntersect, ProtocolData
<1> QED
  BY <1>1, SameInv DEF PP!AvailableIsNotChosen, PP!chosen, P!chosen
-----------------------------------------------------------------------------
(***************************************************************************)
(* Types.                                                                  *)
(***************************************************************************)
Times == [end : P!Bound, fresh : SUBSET Inst]

\* A message has the fields of its kind.
LEMMA MessageType ==
  \A m \in Message :
    /\ m.kind = "one_a" => m.round \in Round /\ m.node \in Node /\ m.inst \in P!Bound
    /\ m.kind = "one_b" => m.round \in Round /\ m.node \in Node /\ m.votemap \in P!Segment
    /\ m.kind \in {"two_a", "two_b"} =>
         m.round \in Round /\ m.node \in Node /\ m.inst \in Inst /\ m.value \in Value
    /\ m.kind = "decide" => m.inst \in Inst /\ m.value \in Value
    /\ m.kind = "keep_alive" => m.round \in Round /\ m.node \in Node
    /\ m.kind \in {"missing_two_a", "missing_decision"} =>
         m.round \in Round /\ m.node \in Node /\ m.inst \in Inst
  BY DEF Message, Bound

LEMMA MessagesOf ==
  \A n \in Node, r \in Round, i \in Inst, v \in Value :
    /\ build_proposal(n, r, i, v) \in Message
    /\ build_vote_msg(n, r, i, v) \in Message
    /\ build_decide_msg(i, v) \in Message
    /\ keep_alive(n, r) \in Message
    /\ \A a : missing(n, r, i, a) \in Message
  BY DEF build_proposal, build_vote_msg, build_decide_msg, keep_alive, missing, Message

LEMMA RoundMessagesOf ==
  \A n \in Node, r \in Round :
    /\ \A b \in P!Bound : one_a(n, r, b) \in Message
    /\ \A m \in P!Segment : one_b(n, r, m) \in Message
  BY DEF one_a, one_b, Message, Bound

LEMMA BcastType == \A m \in Message : bcast(m) \subseteq Message \X Node
  BY DEF bcast

LEMMA UnicastType == \A m \in Message, d \in Node : unicast(m, d) \subseteq Message \X Node
  BY DEF unicast

\* Entering a round keeps the types of what it changes.
LEMMA ChangeRoundType ==
  ASSUME TypeOK, NEW n \in Node, NEW r \in Round, NEW l \in Node, NEW J \in SUBSET Node,
         change_round(n, r, l, J)
  PROVE  /\ current_round' \in [Node -> Round]
         /\ current_leader' \in [Node -> Node \cup {no_leader}]
         /\ round_active' \in [Node -> BOOLEAN]
         /\ joined' \in [Node -> SUBSET Node]
         /\ heard' \in [Node -> 0 .. timeout]
         /\ started' \in [Node -> 0 .. timeout]
         /\ left_round' \subseteq Node \X Round
         /\ joined_round' \subseteq Node \X Round
<1>1. 0 \in 0 .. timeout
  BY TimeoutAssumption
<1>2. {<<n, R>> : R \in {R \in Round : R < r}} \subseteq Node \X Round
  OBVIOUS
<1>3. left_round' \subseteq Node \X Round /\ joined_round' \subseteq Node \X Round
  BY <1>2 DEF change_round, TypeOK, P!TypeOK
<1> QED
  BY <1>1, <1>3 DEF change_round, TypeOK

\* So do the timers.
LEMMA TimerType ==
  /\ \A k \in 0 .. timeout : second_later(k) \in 0 .. timeout
  /\ \A t \in Times : elapse(t) \in Times
  /\ \A t \in Times, n \in Node, i \in Inst : notify_two_a(t, n, i) \in Times
<1>1. \A k \in 0 .. timeout : second_later(k) \in 0 .. timeout
  BY TimeoutAssumption DEF second_later
<1>2. \A t \in Times : elapse(t) \in Times
  BY DEF Times, elapse
<1>3. ASSUME NEW t \in Times, NEW n \in Node, NEW i \in Inst
      PROVE  notify_two_a(t, n, i) \in Times
  <2>1. t.end \in P!Bound /\ t.end \in Nat /\ t.fresh \subseteq Inst /\ i \in Nat
    BY Numbers DEF Times
  <2>2. i + 1 \in P!Bound /\ i + 1 \in Nat
    BY Numbers
  <2>3. Max({t.end, i + 1}) \in P!Bound
    BY <2>1, <2>2, MaxOfTwo
  <2>4. \A j \in t.end .. i : j \in Inst
    BY <2>1, BelowIsInst
  <2> QED
    BY <2>1, <2>3, <2>4 DEF notify_two_a, Times
<1> QED
  BY <1>1, <1>2, <1>3

\* The status and the vote of a server in a round have their types.
LEMMA EmptyStatusType == empty_status \in ballot_status_array
  BY CommandsAssumption DEF empty_status, init_status, ballot_status_array

LEMMA CastType ==
  ASSUME TypeOK, NEW n \in Node, NEW r \in Round, NEW i \in Inst, NEW v \in Value,
         cast(n, r, i, v)
  PROVE  /\ my_votes' \in [Node -> [Inst -> P!Vote]]
         /\ inst_status' \in [Node -> ballot_status_array]
         /\ vote' \subseteq Node \X Inst \X Round \X Value
<1>1. [maxr |-> r, maxv |-> v] \in P!Vote
  BY DEF P!Vote
<1>2. my_votes' \in [Node -> [Inst -> P!Vote]]
  BY <1>1 DEF cast, TypeOK
<1>3. status_in(n, r) \in ballot_status_array
  BY EmptyStatusType DEF TypeOK, status_in
<1>4. inst_status' \in [Node -> ballot_status_array]
  <2> DEFINE s == status_in(n, r)
             e == [s[i] EXCEPT !.voters = @ \cup {n}, !.proposal = v, !.active = TRUE]
  <2>1. e \in [active : BOOLEAN, voters : SUBSET Node, proposal : Value, decided : BOOLEAN]
    BY <1>3 DEF ballot_status_array
  <2>2. inst_status' = [inst_status EXCEPT ![n] = [s EXCEPT ![i] = e]]
    BY DEF cast
  <2> HIDE DEF s, e
  <2> QED
    BY <1>3, <2>1, <2>2 DEF TypeOK, ballot_status_array, s
<1> QED
  BY <1>2, <1>4 DEF cast, TypeOK, P!TypeOK

\* What learning a decision changes: if it filled the first hole, the next one is
\* the least open instance behind it.
Learned(n, i, v) ==
    /\ my_log' \in [Node -> [Inst -> [present : BOOLEAN, decision : Value]]]
    /\ first_undecided' \in [Node -> P!Bound]
    /\ decided' \subseteq Node \X Inst \X Value
    /\ \A p \in Node, j \in Inst :
         /\ my_log'[p][j].present <=> my_log[p][j].present \/ (p = n /\ j = i)
         /\ my_log'[p][j] = IF p = n /\ j = i THEN [present |-> TRUE, decision |-> v]
                            ELSE my_log[p][j]
    /\ \A p \in Node : p # n => first_undecided'[p] = first_undecided[p]
    /\ i # first_undecided[n] => first_undecided'[n] = first_undecided[n]
    /\ i = first_undecided[n] =>
         /\ i < first_undecided'[n]
         /\ ~(first_undecided'[n] \in Inst /\ my_log'[n][first_undecided'[n]].present)
         /\ \A j \in Nat : i < j /\ j < first_undecided'[n] => is_decided(n, j)'

LEMMA LearnMoves ==
  ASSUME TypeOK, End, NEW n \in Node, NEW i \in Inst, NEW v \in Value, learn(n, i, v)
  PROVE  Learned(n, i, v)
<1> DEFINE S == {j \in Inst : my_log'[n][j].present}
           H == {j \in P!Bound : j > i /\ ~(j \in Inst /\ my_log'[n][j].present)}
           H2 == {j \in P!Bound : j > i /\ ~(j \in Inst /\ j \in S)}
<1>1. /\ my_log' = [my_log EXCEPT ![n][i] = [present |-> TRUE, decision |-> v]]
      /\ first_undecided' = [first_undecided EXCEPT ![n] =
            IF i = first_undecided[n] THEN Min(H) ELSE first_undecided[n]]
      /\ decided' = decided \cup {<<n, i, v>>}
  BY DEF learn, Bound
<1>2. my_log' \in [Node -> [Inst -> [present : BOOLEAN, decision : Value]]]
  BY <1>1 DEF TypeOK
<1>3. \A p \in Node, j \in Inst :
        /\ my_log'[p][j].present <=> my_log[p][j].present \/ (p = n /\ j = i)
        /\ my_log'[p][j] = IF p = n /\ j = i THEN [present |-> TRUE, decision |-> v]
                           ELSE my_log[p][j]
  BY <1>1 DEF TypeOK
<1>4. PICK k \in Nat : \A j \in Inst : k <= j => ~my_log[n][j].present
  BY DEF End, EndsAt
<1>5. i \in Nat /\ k + i + 1 \in Nat
  BY Numbers
<1>6. \A j \in Inst : k + i + 1 <= j => j \notin S
  <2> SUFFICES ASSUME NEW j \in Inst, k + i + 1 <= j
               PROVE  ~my_log'[n][j].present
    OBVIOUS
  <2>1. j \in Nat /\ k <= j /\ j # i
    BY <1>5, Numbers
  <2> QED
    BY <1>3, <1>4, <2>1
<1>7. H = H2
  OBVIOUS
<1>8. /\ Min(H) \in P!Bound /\ i < Min(H) /\ Min(H) \notin S
      /\ \A j \in Nat : i < j /\ j < Min(H) => j \in S
  <2>1. S \in SUBSET Inst
    OBVIOUS
  <2>2. /\ Min(H2) \in P!Bound /\ i < Min(H2) /\ Min(H2) \notin S
        /\ \A j \in Nat : i < j /\ j < Min(H2) => j \in S
    <3> HIDE DEF S
    <3> QED
      BY <1>5, <1>6, <2>1, NextHole
  <2> HIDE DEF H, H2, S
  <2> QED
    BY <1>7, <2>2
<1>9. Min(H) \in Inst => ~my_log'[n][Min(H)].present
  BY <1>8
<1>10. \A j \in Nat : i < j /\ j < Min(H) => j \in Inst /\ my_log'[n][j].present
  BY <1>8
<1> HIDE DEF H, S, H2
<1>11. first_undecided' \in [Node -> P!Bound]
  BY <1>1, <1>8 DEF TypeOK, Bound
<1>12. decided' \subseteq Node \X Inst \X Value
  BY <1>1 DEF TypeOK
<1>13. \A p \in Node : p # n => first_undecided'[p] = first_undecided[p]
  BY <1>1 DEF TypeOK
<1>14. i # first_undecided[n] => first_undecided'[n] = first_undecided[n]
  BY <1>1 DEF TypeOK
<1>15. i = first_undecided[n] => first_undecided'[n] = Min(H)
  BY <1>1 DEF TypeOK
<1>16. i = first_undecided[n] =>
          /\ i < first_undecided'[n]
          /\ ~(first_undecided'[n] \in Inst /\ my_log'[n][first_undecided'[n]].present)
          /\ \A j \in Nat : i < j /\ j < first_undecided'[n] => is_decided(n, j)'
  BY <1>8, <1>9, <1>10, <1>15 DEF is_decided
<1> QED
  BY <1>2, <1>3, <1>11, <1>12, <1>13, <1>14, <1>16 DEF Learned

\* first_undecided stays the first hole.
LEMMA LearnHole ==
  ASSUME TypeOK, End, FirstUndecidedIsFirstHole,
         NEW n \in Node, NEW i \in Inst, NEW v \in Value, learn(n, i, v)
  PROVE  FirstUndecidedIsFirstHole'
<1>0. Learned(n, i, v)
  BY LearnMoves
<1>1. ASSUME NEW p \in Node
      PROVE  /\ ~is_decided(p, first_undecided[p])'
             /\ \A j \in 0 .. first_undecided'[p] - 1 : is_decided(p, j)'
  <2>1. /\ \A j \in Inst : my_log'[p][j].present <=> my_log[p][j].present \/ (p = n /\ j = i)
        /\ first_undecided[p] \in Nat /\ first_undecided'[p] \in Nat /\ i \in Nat
    <3>1. first_undecided[p] \in P!Bound /\ first_undecided'[p] \in P!Bound
      BY <1>0 DEF Learned, TypeOK, Bound
    <3> QED
      BY <3>1, <1>0, Numbers DEF Learned
  <2>2. ~is_decided(p, first_undecided[p]) /\ \A j \in 0 .. first_undecided[p] - 1 : is_decided(p, j)
    BY DEF FirstUndecidedIsFirstHole
  <2>3. CASE p # n \/ i # first_undecided[n]
    <3>1. first_undecided'[p] = first_undecided[p]
      BY <2>3, <1>0 DEF Learned
    <3> QED
      BY <2>1, <2>2, <2>3, <3>1 DEF is_decided
  <2>4. CASE p = n /\ i = first_undecided[n]
    <3>1. /\ i < first_undecided'[n]
          /\ ~(first_undecided'[n] \in Inst /\ my_log'[n][first_undecided'[n]].present)
          /\ \A j \in Nat : i < j /\ j < first_undecided'[n] => is_decided(n, j)'
      BY <2>4, <1>0 DEF Learned
    <3>2. \A j \in 0 .. i - 1 : is_decided(n, j)'
      BY <2>1, <2>2, <2>4 DEF is_decided
    <3>3. is_decided(n, i)'
      BY <2>1, <2>4 DEF is_decided
    <3>4. \A j \in 0 .. first_undecided'[n] - 1 : j \in Nat /\ (j \in 0 .. i - 1 \/ j = i \/ (i < j /\ j < first_undecided'[n]))
      BY <2>1, <2>4
    <3>5. \A j \in 0 .. first_undecided'[n] - 1 : is_decided(n, j)'
      BY <3>1, <3>2, <3>3, <3>4
    <3>6. ~is_decided(n, first_undecided[n])'
      BY <3>1 DEF is_decided
    <3> QED
      BY <2>4, <3>5, <3>6
  <2> QED
    BY <2>3, <2>4
<1> QED
  BY <1>1 DEF FirstUndecidedIsFirstHole
-----------------------------------------------------------------------------
(***************************************************************************)
(* Each action keeps the types.                                            *)
(***************************************************************************)

\* The leader of a server that is in a round is a server.
LEMMA FollowedIsNode ==
  TypeOK /\ LeaderIsFollowed =>
    \A n \in Node : current_round[n] # none => current_leader[n] \in Node
<1> SUFFICES ASSUME TypeOK, LeaderIsFollowed, NEW n \in Node, current_round[n] # none
             PROVE  current_leader[n] \in Node
  OBVIOUS
<1>1. leader_of(current_leader[n], current_round[n])
  BY DEF LeaderIsFollowed
<1>2. current_round[n] \in Nat
  BY Numbers DEF TypeOK
<1>3. current_round[n] % Size \in 0 .. Size - 1
  BY <1>2, SizeAssumption
<1> QED
  BY <1>1, <1>3 DEF leader_of, leader_fun, Node

LEMMA StartRoundType ==
  ASSUME SysInv, NEW n \in Node, start_round(n),
         UNCHANGED <<next_inst, vote_vars, log_vars, proposal_vars, decision>>,
         resent' = [resent EXCEPT ![n] = elapse(@)],
         asked' = [asked EXCEPT ![n] = elapse(@)],
         ticked' = [ticked EXCEPT ![n] = TRUE]
  PROVE  TypeOK'
<1>0. TypeOK /\ End
  BY DEF SysInv
<1>1. PICK r \in Round :
        /\ change_round(n, r, n, {n})
        /\ inst_status' = [inst_status EXCEPT ![n] = empty_status]
        /\ joined_votes' = [joined_votes EXCEPT ![n] = own_votes(n, first_undecided[n])]
        /\ sent' = sent \cup bcast(one_a(n, r, first_undecided[n]))
  BY DEF start_round
<1>2. own_votes(n, first_undecided[n]) \in P!Segment
  BY <1>0, OwnVotesReport DEF TypeOK, Bound
<1>3. sent' \subseteq Message \X Node
  <2>1. one_a(n, r, first_undecided[n]) \in Message
    BY <1>0, RoundMessagesOf DEF TypeOK, Bound
  <2> QED
    BY <1>0, <1>1, <2>1, BcastType DEF TypeOK
<1>4. \A p \in Node : joined_votes'[p] \in P!Segment
  BY <1>0, <1>1, <1>2 DEF TypeOK
<1>5. resent' \in [Node -> Times] /\ asked' \in [Node -> Times]
  BY <1>0, TimerType DEF TypeOK, Times, Bound
<1>6. inst_status' \in [Node -> ballot_status_array]
  BY <1>0, <1>1, EmptyStatusType DEF TypeOK
<1>7. {n} \in SUBSET Node
  OBVIOUS
<1> QED
  BY <1>0, <1>1, <1>3, <1>4, <1>5, <1>6, <1>7, ChangeRoundType
     DEF TypeOK, P!TypeOK, Times, Bound, vote_vars, log_vars, proposal_vars

LEMMA OtherTicksType ==
  ASSUME SysInv, NEW n \in Node, catches_up(n) \/ awaits_votes(n) \/ leads(n),
         heard' = [heard EXCEPT ![n] = second_later(@)],
         started' = [started EXCEPT ![n] = second_later(@)],
         UNCHANGED <<round_vars, joined_votes, inst_status>>,
         UNCHANGED <<next_inst, vote_vars, log_vars, proposal_vars, decision>>,
         resent' = [resent EXCEPT ![n] = elapse(@)],
         asked' = [asked EXCEPT ![n] = elapse(@)],
         ticked' = [ticked EXCEPT ![n] = TRUE]
  PROVE  TypeOK'
<1>0. TypeOK /\ LeaderIsFollowed
  BY DEF SysInv, Leaders
<1>1. current_round[n] \in Round
  BY <1>0 DEF TypeOK
<1>2. sent' \subseteq Message \X Node
  <2>1. CASE catches_up(n)
    <3>1. current_leader[n] \in Node
      BY <1>0, <2>1, FollowedIsNode DEF catches_up, gives_up
    <3>2. ASSUME NEW i \in undecided_below(n, votes_end(n))
          PROVE  i \in Inst
      <4>1. i \in first_undecided[n] .. votes_end(n) - 1
        BY DEF undecided_below
      <4>2. votes_end(n) \in P!Bound
        <5>1. my_votes \in [Node -> [Inst -> P!Vote]] /\ End
          BY <1>0 DEF SysInv, TypeOK
        <5> QED
          BY <5>1, VotesEnd
      <4>3. first_undecided[n] \in Nat /\ votes_end(n) \in Nat
        BY <1>0, <4>2, Numbers DEF TypeOK, Bound
      <4>4. i \in Nat /\ i < votes_end(n)
        BY <4>1, <4>3
      <4> QED
        BY <4>2, <4>4, BelowIsInst
    <3>3. ASSUME NEW i \in undecided_below(n, votes_end(n))
          PROVE  unicast(missing(n, current_round[n], i, inst_status[n][i].active),
                         current_leader[n]) \subseteq Message \X Node
      <4>1. missing(n, current_round[n], i, inst_status[n][i].active) \in Message
        BY <1>1, <3>2, CommandsAssumption, MessagesOf
      <4> QED
        BY <3>1, <4>1, UnicastType
    <3> QED
      BY <1>0, <2>1, <3>3 DEF catches_up, TypeOK
  <2>2. CASE awaits_votes(n)
    BY <1>0, <2>2 DEF awaits_votes, TypeOK
  <2>3. CASE leads(n)
    <3>1. bcast(keep_alive(n, current_round[n])) \subseteq Message \X Node
      BY <1>1, Numbers, CommandsAssumption, MessagesOf, BcastType
    <3>2. \A i \in Inst : bcast(build_proposal(n, current_round[n], i, inst_status[n][i].proposal))
                             \subseteq Message \X Node
      <4>1. \A i \in Inst : inst_status[n][i].proposal \in Value
        BY <1>0 DEF TypeOK, ballot_status_array
      <4> QED
        BY <1>1, <4>1, MessagesOf, BcastType
    <3> QED
      BY <1>0, <2>3, <3>1, <3>2 DEF leads, TypeOK
  <2> QED
    BY <2>1, <2>2, <2>3
<1>3. resent' \in [Node -> Times] /\ asked' \in [Node -> Times]
  BY <1>0, TimerType DEF TypeOK, Times, Bound
<1>4. heard' \in [Node -> 0 .. timeout] /\ started' \in [Node -> 0 .. timeout]
  BY <1>0, TimerType DEF TypeOK
<1> QED
  BY <1>0, <1>2, <1>3, <1>4
     DEF TypeOK, P!TypeOK, Times, Bound, round_vars, vote_vars, log_vars, proposal_vars

LEMMA OneAType ==
  ASSUME SysInv, NEW n \in Node, NEW m \in Message, one_a_handler(n, m)
  PROVE  TypeOK'
<1>0. TypeOK /\ End
  BY DEF SysInv
<1>1. /\ m.round \in Round /\ m.node \in Node /\ m.inst \in P!Bound
      /\ change_round(n, m.round, m.node, {})
      /\ inst_status' = [inst_status EXCEPT ![n] = empty_status]
      /\ sent' = sent \cup unicast(one_b(n, m.round, own_votes(n, m.inst)), m.node)
      /\ UNCHANGED <<leader_vars, vote_vars, log_vars, resent, asked, ticked,
                     proposal_vars, decision>>
  BY MessageType DEF one_a_handler
<1>2. own_votes(n, m.inst) \in P!Segment
  BY <1>0, <1>1, OwnVotesReport DEF TypeOK
<1>3. sent' \subseteq Message \X Node
  BY <1>0, <1>1, <1>2, RoundMessagesOf, UnicastType DEF TypeOK
<1>4. inst_status' \in [Node -> ballot_status_array]
  BY <1>0, <1>1, EmptyStatusType DEF TypeOK
<1>5. {} \in SUBSET Node
  OBVIOUS
<1> QED
  BY <1>0, <1>1, <1>3, <1>4, <1>5, ChangeRoundType
     DEF TypeOK, P!TypeOK, leader_vars, vote_vars, log_vars, proposal_vars

LEMMA KeepAliveType ==
  ASSUME SysInv, NEW n \in Node, NEW m \in Message, keep_alive_handler(n, m)
  PROVE  TypeOK'
<1>0. TypeOK
  BY DEF SysInv
<1>1. /\ m.round \in Round /\ m.node \in Node
      /\ UNCHANGED <<leader_vars, vote_vars, log_vars, resent, asked, ticked, sent,
                     proposal_vars, decision>>
  BY MessageType DEF keep_alive_handler
<1>2. CASE /\ change_round(n, m.round, m.node, {})
           /\ inst_status' = [inst_status EXCEPT ![n] = empty_status]
  <2>1. inst_status' \in [Node -> ballot_status_array]
    BY <1>0, <1>2, EmptyStatusType DEF TypeOK
  <2>2. {} \in SUBSET Node
    OBVIOUS
  <2> QED
    BY <1>0, <1>1, <1>2, <2>1, <2>2, ChangeRoundType
       DEF TypeOK, P!TypeOK, leader_vars, vote_vars, log_vars, proposal_vars
<1>3. CASE /\ heard' = [heard EXCEPT ![n] = 0]
           /\ UNCHANGED <<round_vars, inst_status, started>>
  <2>1. 0 \in 0 .. timeout
    BY TimeoutAssumption
  <2> QED
    BY <1>0, <1>1, <1>3, <2>1
       DEF TypeOK, P!TypeOK, round_vars, leader_vars, vote_vars, log_vars, proposal_vars
<1> QED
  BY <1>2, <1>3 DEF keep_alive_handler

LEMMA ProposeType ==
  ASSUME SysInv, NEW n \in Node, NEW v \in Command, propose(n, v)
  PROVE  TypeOK'
<1> DEFINE r == current_round[n]
           i == next_inst[n]
<1>0. TypeOK
  BY DEF SysInv
<1>1. /\ i \in Inst
      /\ cast(n, r, i, v)
      /\ resent' = [resent EXCEPT ![n] = notify_two_a(resent[n], n, i)]
      /\ next_inst' = [next_inst EXCEPT ![n] = i + 1]
      /\ sent' = sent \cup bcast(build_proposal(n, r, i, v))
                      \cup unicast(build_vote_msg(n, r, i, v), n)
      /\ available' = available \ {<<r, i>>}
      /\ proposal' = proposal \cup {<<i, r, v>>}
      /\ UNCHANGED <<round_vars, joined_votes, log_vars, heard, started, asked,
                     ticked, active, decision>>
  BY DEF propose
<1>2. r \in Round /\ v \in Value
  BY <1>0, CommandsAssumption DEF TypeOK
<1>3. sent' \subseteq Message \X Node
  <2>1. build_proposal(n, r, i, v) \in Message /\ build_vote_msg(n, r, i, v) \in Message
    BY <1>1, <1>2, MessagesOf
  <2> QED
    BY <1>0, <1>1, <2>1, BcastType, UnicastType DEF TypeOK
<1>4. resent' \in [Node -> Times]
  BY <1>0, <1>1, TimerType DEF TypeOK, Times, Bound
<1>5. next_inst' \in [Node -> P!Bound]
  BY <1>0, <1>1, Numbers DEF TypeOK, Bound
<1>6. /\ my_votes' \in [Node -> [Inst -> P!Vote]]
      /\ inst_status' \in [Node -> ballot_status_array]
      /\ vote' \subseteq Node \X Inst \X Round \X Value
  BY <1>0, <1>1, <1>2, CastType
<1>7. /\ proposal' \subseteq Inst \X Round \X Value
      /\ available' \subseteq Round \X Inst
  BY <1>0, <1>1, <1>2 DEF TypeOK, P!TypeOK
<1> HIDE DEF r, i
<1> QED
  BY <1>0, <1>1, <1>3, <1>4, <1>5, <1>6, <1>7
     DEF TypeOK, P!TypeOK, Times, Bound, round_vars, log_vars

\* What the leader recovers from a segment are values.
LEMMA RecoveredIsValue ==
  \A n : joined_votes'[n] \in P!Segment =>
           /\ \A i \in Inst : recovered(n, i) \in Value
           /\ \A i \in recovering(n) : i \in Inst
<1> SUFFICES ASSUME NEW n, joined_votes'[n] \in P!Segment
             PROVE  /\ \A i \in Inst : recovered(n, i) \in Value
                    /\ \A i \in recovering(n) : i \in Inst
  OBVIOUS
<1>1. \A i \in Inst : recovered(n, i) \in Value
  BY MaxvoteIsVote, CommandsAssumption DEF recovered, P!Vote
<1>2. joined_votes'[n].first \in P!Bound /\ joined_votes'[n].upper \in P!Bound
  BY SegmentHas
<1>3. \A i \in recovering(n) : i \in Nat /\ i < joined_votes'[n].upper
  <2>1. joined_votes'[n].first \in Nat /\ joined_votes'[n].upper \in Nat
    BY <1>2, Numbers
  <2> QED
    BY <2>1 DEF recovering
<1> QED
  BY <1>1, <1>2, <1>3, BelowIsInst

LEMMA OneBType ==
  ASSUME SysInv, NEW n \in Node, NEW m \in Message, one_b_handler(n, m)
  PROVE  TypeOK'
<1>0. TypeOK
  BY DEF SysInv
<1>1. /\ m.round \in Round /\ m.node \in Node /\ m.votemap \in P!Segment
      /\ joined' = [joined EXCEPT ![n] = joined[n] \cup {m.node}]
      /\ joined_votes' = [joined_votes EXCEPT ![n] = zip_max(joined_votes[n], m.votemap)]
      /\ UNCHANGED <<current_round, current_leader, left_round, joined_round, vote_vars,
                     inst_status, log_vars, timer_vars, decision>>
  BY MessageType DEF one_b_handler
<1>2. joined' \in [Node -> SUBSET Node]
  BY <1>0, <1>1 DEF TypeOK
<1>3. /\ joined_votes' \in [Node -> P!Segment]
      /\ joined_votes'[n] \in P!Segment
  BY <1>0, <1>1, ZipMax DEF TypeOK
<1>4. CASE activate(n, m.round)
  <2>1. /\ round_active' = [round_active EXCEPT ![n] = TRUE]
        /\ next_inst' = [next_inst EXCEPT ![n] = joined_votes'[n].upper]
        /\ sent' = sent \cup UNION {bcast(build_proposal(n, m.round, i, recovered(n, i))) :
                                      i \in {i \in recovering(n) : ~is_decided(n, i)}}
        /\ active' = active \cup {m.round}
        /\ available' = available \cup {<<m.round, i>> : i \in {i \in Inst : next_inst'[n] <= i}}
        /\ proposal' = proposal \cup {<<i, m.round, recovered(n, i)>> : i \in recovering(n)}
    BY <1>4 DEF activate
  <2>2. /\ \A i \in Inst : recovered(n, i) \in Value
        /\ \A i \in recovering(n) : i \in Inst
    BY <1>3, RecoveredIsValue
  <2>3. \A i \in recovering(n) :
          bcast(build_proposal(n, m.round, i, recovered(n, i))) \subseteq Message \X Node
    BY <1>1, <2>2, MessagesOf, BcastType
  <2>4. sent' \subseteq Message \X Node
    BY <1>0, <2>1, <2>3 DEF TypeOK
  <2>5. {<<m.round, i>> : i \in {i \in Inst : next_inst'[n] <= i}} \subseteq Round \X Inst
    BY <1>1
  <2>6. {<<i, m.round, recovered(n, i)>> : i \in recovering(n)} \subseteq Inst \X Round \X Value
    BY <1>1, <2>2
  <2>7. /\ available' \subseteq Round \X Inst
        /\ proposal' \subseteq Inst \X Round \X Value
        /\ active' \subseteq Round
    BY <1>0, <1>1, <2>1, <2>5, <2>6 DEF TypeOK, P!TypeOK
  <2>8. next_inst' \in [Node -> P!Bound]
    BY <1>0, <1>3, <2>1, SegmentHas DEF TypeOK, Bound
  <2>9. round_active' \in [Node -> BOOLEAN]
    BY <1>0, <2>1 DEF TypeOK
  <2> QED
    BY <1>0, <1>1, <1>2, <1>3, <2>4, <2>7, <2>8, <2>9
       DEF TypeOK, P!TypeOK, Bound, vote_vars, log_vars, timer_vars
<1>5. CASE UNCHANGED <<round_active, next_inst, sent, proposal_vars>>
  BY <1>0, <1>1, <1>2, <1>3, <1>5
     DEF TypeOK, P!TypeOK, Bound, vote_vars, log_vars, timer_vars, proposal_vars
<1> QED
  BY <1>4, <1>5 DEF one_b_handler

\* A server that learns of a message's round has its types still; the leader it
\* follows then is a server.
LEMMA EnterRoundType ==
  ASSUME SysInv, NEW n \in Node, NEW m \in Message, m.round \in Round, m.node \in Node,
         current_round[n] <= m.round, m.round # none, enter_round(n, m)
  PROVE  /\ current_round' \in [Node -> Round]
         /\ current_leader' \in [Node -> Node \cup {no_leader}]
         /\ current_leader'[n] \in Node
         /\ round_active' \in [Node -> BOOLEAN]
         /\ joined' \in [Node -> SUBSET Node]
         /\ heard' \in [Node -> 0 .. timeout]
         /\ started' \in [Node -> 0 .. timeout]
         /\ left_round' \subseteq Node \X Round
         /\ joined_round' \subseteq Node \X Round
         /\ current_round'[n] = m.round
<1>0. TypeOK /\ LeaderIsFollowed
  BY DEF SysInv, Leaders
<1>1. current_round[n] \in Nat /\ m.round \in Nat
  BY <1>0, Numbers DEF TypeOK
<1>2. CASE change_round(n, m.round, m.node, {})
  <2>1. {} \in SUBSET Node
    OBVIOUS
  <2>2. current_leader'[n] \in Node /\ current_round'[n] = m.round
    BY <1>0, <1>2 DEF change_round, TypeOK
  <2> QED
    BY <1>0, <1>2, <2>1, <2>2, ChangeRoundType
<1>3. CASE current_round[n] >= m.round /\ UNCHANGED <<round_vars, heard, started>>
  <2>1. current_round[n] = m.round
    BY <1>1, <1>3
  <2>2. current_leader[n] \in Node
    BY <1>0, <2>1, FollowedIsNode
  <2> QED
    BY <1>0, <1>3, <2>1, <2>2 DEF TypeOK, P!TypeOK, round_vars
<1> QED
  BY <1>2, <1>3 DEF enter_round

LEMMA TwoAType ==
  ASSUME SysInv, NEW n \in Node, NEW m \in Message, m.kind = "two_a" => m.round # none,
         two_a_handler(n, m)
  PROVE  TypeOK'
<1> DEFINE hole == IF first_undecided[n] < m.inst THEN ask_for_retransmission(n, m.inst) ELSE {}
           reply == IF m.node # n
                    THEN unicast(build_decide_msg(m.inst, my_log[n][m.inst].decision), m.node)
                    ELSE {}
<1>0. TypeOK
  BY DEF SysInv
<1>1. /\ m.round \in Round /\ m.node \in Node /\ m.inst \in Inst /\ m.value \in Value
      /\ m.round # none
      /\ current_round[n] <= m.round
      /\ enter_round(n, m)
      /\ UNCHANGED <<leader_vars, log_vars, resent, ticked, proposal_vars, decision>>
  BY MessageType DEF two_a_handler
<1>2. /\ current_round' \in [Node -> Round]
      /\ current_leader' \in [Node -> Node \cup {no_leader}]
      /\ current_leader'[n] \in Node
      /\ round_active' \in [Node -> BOOLEAN]
      /\ joined' \in [Node -> SUBSET Node]
      /\ heard' \in [Node -> 0 .. timeout]
      /\ started' \in [Node -> 0 .. timeout]
      /\ left_round' \subseteq Node \X Round
      /\ joined_round' \subseteq Node \X Round
  BY <1>1, EnterRoundType
<1>3. hole \subseteq Message \X Node
  <2>1. \A a : missing(n, current_round'[n], m.inst, a) \in Message
    BY <1>1, <1>2, MessagesOf
  <2> QED
    BY <1>2, <2>1, UnicastType DEF ask_for_retransmission
<1>4. CASE /\ cast(n, m.round, m.inst, m.value)
           /\ asked' = [asked EXCEPT ![n] = notify_two_a(asked[n], n, m.inst)]
           /\ sent' = sent \cup hole
                  \cup unicast(build_vote_msg(n, m.round, m.inst, m.value), m.node)
  <2>1. /\ my_votes' \in [Node -> [Inst -> P!Vote]]
        /\ inst_status' \in [Node -> ballot_status_array]
        /\ vote' \subseteq Node \X Inst \X Round \X Value
    BY <1>0, <1>1, <1>4, CastType
  <2>2. asked' \in [Node -> Times]
    BY <1>0, <1>1, <1>4, TimerType DEF TypeOK, Times, Bound
  <2>3. sent' \subseteq Message \X Node
    BY <1>0, <1>1, <1>3, <1>4, MessagesOf, UnicastType DEF TypeOK
  <2> QED
    BY <1>0, <1>1, <1>2, <2>1, <2>2, <2>3
       DEF TypeOK, P!TypeOK, Times, Bound, leader_vars, log_vars, proposal_vars
<1>5. CASE /\ inst_status' = [inst_status EXCEPT ![n] = status_in(n, m.round)]
           /\ sent' = sent \cup hole \cup reply
           /\ UNCHANGED <<vote_vars, asked>>
  <2>1. inst_status' \in [Node -> ballot_status_array]
    BY <1>0, <1>5, EmptyStatusType DEF TypeOK, status_in
  <2>2. reply \subseteq Message \X Node
    <3>1. my_log[n][m.inst].decision \in Value
      BY <1>0, <1>1 DEF TypeOK
    <3>2. build_decide_msg(m.inst, my_log[n][m.inst].decision) \in Message
      BY <1>1, <3>1, MessagesOf
    <3> QED
      BY <1>1, <3>2, UnicastType
  <2>3. sent' \subseteq Message \X Node
    BY <1>0, <1>3, <1>5, <2>2 DEF TypeOK
  <2> QED
    BY <1>0, <1>1, <1>2, <1>5, <2>1, <2>3
       DEF TypeOK, P!TypeOK, Bound, leader_vars, vote_vars, log_vars, proposal_vars
<1> QED
  BY <1>4, <1>5 DEF two_a_handler

LEMMA TwoBType ==
  ASSUME SysInv, NEW n \in Node, NEW m \in Message, two_b_handler(n, m)
  PROVE  TypeOK'
<1> DEFINE s == inst_status[n][m.inst]
           voters == s.voters \cup {m.node}
           counted == [s EXCEPT !.voters = voters, !.proposal = m.value,
                                !.decided = majority(voters)]
<1>0. TypeOK /\ End
  BY DEF SysInv
<1>1. /\ m.round \in Round /\ m.node \in Node /\ m.inst \in Inst /\ m.value \in Value
      /\ inst_status' = [inst_status EXCEPT ![n][m.inst] = counted]
      /\ UNCHANGED <<round_vars, leader_vars, vote_vars, timer_vars, proposal_vars>>
  BY MessageType DEF two_b_handler
<1>2. counted \in [active : BOOLEAN, voters : SUBSET Node, proposal : Value, decided : BOOLEAN]
  <2>1. s \in [active : BOOLEAN, voters : SUBSET Node, proposal : Value, decided : BOOLEAN]
    BY <1>0, <1>1 DEF TypeOK, ballot_status_array
  <2>2. majority(voters) \in BOOLEAN
    BY DEF majority
  <2> QED
    BY <1>1, <2>1, <2>2
<1>3. inst_status' \in [Node -> ballot_status_array]
  <2> HIDE DEF counted
  <2> QED
    BY <1>0, <1>1, <1>2 DEF TypeOK, ballot_status_array
<1>4. CASE /\ learn(n, m.inst, m.value)
           /\ sent' = sent \cup bcast(build_decide_msg(m.inst, m.value))
           /\ decision' = decision \cup {<<m.inst, m.value>>}
  <2>1. Learned(n, m.inst, m.value)
    BY <1>0, <1>1, <1>4, LearnMoves
  <2>2. sent' \subseteq Message \X Node
    <3>1. build_decide_msg(m.inst, m.value) \in Message
      BY <1>1, MessagesOf
    <3> QED
      BY <1>0, <1>4, <3>1, BcastType DEF TypeOK
  <2>3. decision' \subseteq Inst \X Value
    BY <1>0, <1>1, <1>4 DEF TypeOK, P!TypeOK
  <2> HIDE DEF counted
  <2> QED
    BY <1>0, <1>1, <1>3, <2>1, <2>2, <2>3
       DEF TypeOK, P!TypeOK, Learned, Bound, round_vars, leader_vars, vote_vars, timer_vars,
           proposal_vars
<1>5. CASE UNCHANGED <<log_vars, sent, decision>>
  <2> HIDE DEF counted
  <2> QED
    BY <1>0, <1>1, <1>3, <1>5
       DEF TypeOK, P!TypeOK, round_vars, leader_vars, vote_vars, timer_vars, proposal_vars,
           log_vars
<1> QED
  BY <1>4, <1>5 DEF two_b_handler

LEMMA DecideType ==
  ASSUME SysInv, NEW n \in Node, NEW m \in Message, decide_handler(n, m)
  PROVE  TypeOK'
<1>0. TypeOK /\ End
  BY DEF SysInv
<1>1. /\ m.inst \in Inst /\ m.value \in Value
      /\ learn(n, m.inst, m.value)
      /\ inst_status' = [inst_status EXCEPT ![n][m.inst].decided = TRUE]
      /\ UNCHANGED <<round_vars, leader_vars, vote_vars, timer_vars, sent, proposal_vars,
                     decision>>
  BY MessageType DEF decide_handler
<1>2. Learned(n, m.inst, m.value)
  BY <1>0, <1>1, LearnMoves
<1>3. inst_status' \in [Node -> ballot_status_array]
  <2> DEFINE e == [inst_status[n][m.inst] EXCEPT !.decided = TRUE]
  <2>1. m.inst \in Inst /\ inst_status' = [inst_status EXCEPT ![n][m.inst] = e]
    BY <1>1
  <2>2. inst_status[n][m.inst] \in
          [active : BOOLEAN, voters : SUBSET Node, proposal : Value, decided : BOOLEAN]
    BY <1>0, <2>1 DEF TypeOK, ballot_status_array
  <2>3. e \in [active : BOOLEAN, voters : SUBSET Node, proposal : Value, decided : BOOLEAN]
    BY <2>2
  <2> HIDE DEF e
  <2> QED
    BY <1>0, <2>1, <2>3 DEF TypeOK, ballot_status_array
<1> QED
  BY <1>0, <1>1, <1>2, <1>3
     DEF TypeOK, P!TypeOK, Learned, Bound, round_vars, leader_vars, vote_vars, timer_vars,
         proposal_vars

LEMMA MissingType ==
  ASSUME SysInv, NEW n \in Node, NEW m \in Message,
         missing_two_a_handler(n, m) \/ missing_decision_handler(n, m)
  PROVE  TypeOK'
<1>0. TypeOK
  BY DEF SysInv
<1>1. /\ m.round \in Round /\ m.node \in Node /\ m.inst \in Inst
      /\ send_decision(n, m) \/ resend_proposal(n, m)
      /\ UNCHANGED <<round_vars, leader_vars, vote_vars, inst_status, log_vars,
                     heard, started, asked, ticked, proposal_vars, decision>>
  BY MessageType DEF missing_two_a_handler, missing_decision_handler
<1>2. sent' \subseteq Message \X Node /\ resent' \in [Node -> Times]
  <2>1. CASE send_decision(n, m)
    <3>1. my_log[n][m.inst].decision \in Value
      BY <1>0, <1>1 DEF TypeOK
    <3>2. build_decide_msg(m.inst, my_log[n][m.inst].decision) \in Message
      BY <1>1, <3>1, MessagesOf
    <3> QED
      BY <1>0, <1>1, <2>1, <3>2, UnicastType DEF send_decision, TypeOK, Times, Bound
  <2>2. CASE resend_proposal(n, m)
    <3>1. inst_status[n][m.inst].proposal \in Value
      BY <1>0, <1>1 DEF TypeOK, ballot_status_array
    <3>2. build_proposal(n, m.round, m.inst, inst_status[n][m.inst].proposal) \in Message
      BY <1>1, <3>1, MessagesOf
    <3>3. resent' \in [Node -> Times]
      BY <1>0, <1>1, <2>2, TimerType DEF resend_proposal, TypeOK, Times, Bound
    <3> QED
      BY <1>0, <1>1, <2>2, <3>2, <3>3, UnicastType DEF resend_proposal, TypeOK
  <2> QED
    BY <1>1, <2>1, <2>2
<1> QED
  BY <1>0, <1>1, <1>2
     DEF TypeOK, P!TypeOK, Times, Bound, round_vars, leader_vars, vote_vars, proposal_vars,
         log_vars

LEMMA InitType == Init => TypeOK
<1> SUFFICES ASSUME Init PROVE TypeOK
  OBVIOUS
<1>1. [first |-> 0, upper |-> 0, vote |-> <<>>] \in P!Segment
  <2>1. 0 \in P!Bound /\ <<>> \in [0 .. 0 - 1 -> P!Vote]
    BY Numbers
  <2> QED
    BY <2>1, SegmentFrom
<1>2. 0 \in 0 .. timeout
  BY TimeoutAssumption
<1>3. no_times \in Times
  BY Numbers DEF no_times, Times
<1>4. no_decision \in [present : BOOLEAN, decision : Value]
  BY CommandsAssumption DEF no_decision
<1>5. P!TypeOK
  BY Numbers DEF Init, P!Init, P!TypeOK, P!none
<1> QED
  BY <1>1, <1>2, <1>3, <1>4, <1>5, Numbers, NoVote, EmptyStatusType DEF Init, TypeOK, Times, Bound

\* The types are kept by every step of a state in which the invariant holds.
LEMMA TypeStep == SysInv /\ [Next]_vars => TypeOK'
<1> SUFFICES ASSUME SysInv, [Next]_vars
             PROVE  TypeOK'
  OBVIOUS
<1>1. ASSUME NEW n \in Node, NEW v \in Command, propose(n, v)
      PROVE  TypeOK'
  BY <1>1, ProposeType
<1>2. ASSUME NEW n \in Node, timer(n)
      PROVE  TypeOK'
  <2>1. CASE times_out(n)
    BY <1>2, <2>1, StartRoundType DEF timer, times_out
  <2>2. CASE ~times_out(n)
    BY <1>2, <2>2, OtherTicksType DEF timer
  <2> QED
    BY <2>1, <2>2
<1>3. ASSUME NEW s \in sent, recv(s[2], s[1])
      PROVE  TypeOK'
  <2> DEFINE m == s[1]
             n == s[2]
  <2>1. m \in Message /\ n \in Node
    BY DEF SysInv, TypeOK
  <2>2. m.kind = "two_a" => m.round # none
    BY DEF SysInv, Messages, truthful, leader_speaks, leader_of
  <2>3. \/ one_a_handler(n, m) \/ one_b_handler(n, m) \/ two_a_handler(n, m)
        \/ two_b_handler(n, m) \/ decide_handler(n, m) \/ keep_alive_handler(n, m)
        \/ missing_two_a_handler(n, m) \/ missing_decision_handler(n, m)
    BY <1>3 DEF recv
  <2> HIDE DEF m, n
  <2> QED
    BY <2>1, <2>2, <2>3, OneAType, OneBType, TwoAType, TwoBType, DecideType, KeepAliveType,
       MissingType
<1>4. CASE UNCHANGED vars
  BY <1>4 DEF SysInv, TypeOK, P!TypeOK, vars, round_vars, leader_vars, vote_vars, log_vars,
              timer_vars, proposal_vars
<1> QED
  BY <1>1, <1>2, <1>3, <1>4 DEF Next
-----------------------------------------------------------------------------
(***************************************************************************)
(* What a step may do to each part of the invariant.                       *)
(***************************************************************************)

\* The history only grows; a vote is cast in the round the voter is in then; a
\* leader collects votes from the same instance on as long as its round lasts.
Grows ==
    /\ \A n \in Node : current_round[n] <= current_round'[n]
    /\ \A n \in Node : current_round'[n] = current_round[n] =>
                          joined_votes'[n].first = joined_votes[n].first
    /\ joined_round \subseteq joined_round'
    /\ proposal \subseteq proposal'
    /\ vote \subseteq vote'
    /\ decision \subseteq decision'
    /\ \A w \in vote' : w \in vote \/ w[3] = current_round'[w[1]]

\* A server enters a later round, led by l.
Enters(n, r, l, J) == current_round[n] < r /\ leader_of(l, r) /\ change_round(n, r, l, J)

\* What entering a round sets.
Entered(n, r, l, J) ==
    /\ \A p \in Node :
         /\ current_round'[p] = (IF p = n THEN r ELSE current_round[p])
         /\ current_leader'[p] = (IF p = n THEN l ELSE current_leader[p])
         /\ round_active'[p] = (IF p = n THEN FALSE ELSE round_active[p])
         /\ joined'[p] = (IF p = n THEN J ELSE joined[p])
    /\ left_round' = left_round \cup {<<n, R>> : R \in {R \in Round : R < r}}
    /\ joined_round' = joined_round \cup {<<n, r>>}
    /\ r # none /\ r \in Nat /\ current_round[n] \in Nat
    /\ \A p \in Node : current_round[p] <= current_round'[p]

LEMMA EntersRound ==
  ASSUME TypeOK, NEW n \in Node, NEW r \in Round, NEW l \in Node, NEW J \in SUBSET Node,
         Enters(n, r, l, J)
  PROVE  Entered(n, r, l, J)
<1>1. \A p \in Node : /\ current_round'[p] = IF p = n THEN r ELSE current_round[p]
                      /\ current_leader'[p] = IF p = n THEN l ELSE current_leader[p]
                      /\ round_active'[p] = IF p = n THEN FALSE ELSE round_active[p]
                      /\ joined'[p] = IF p = n THEN J ELSE joined[p]
  BY DEF Enters, change_round, TypeOK
<1>2. \A p \in Node : current_round[p] \in Nat
  BY Numbers DEF TypeOK
<1>3. r \in Nat /\ r # none /\ current_round[n] < r
  <2>1. leader_of(l, r) /\ current_round[n] < r
    BY DEF Enters
  <2> QED
    BY <2>1, Numbers DEF leader_of
<1>4. \A p \in Node : current_round[p] <= current_round'[p]
  <2> TAKE p \in Node
  <2>1. current_round'[p] = (IF p = n THEN r ELSE current_round[p])
    BY <1>1
  <2>2. current_round[p] \in Nat
    BY <1>2
  <2> QED
    BY <1>3, <2>1, <2>2
<1> QED
  BY <1>1, <1>2, <1>3, <1>4 DEF Enters, Entered, change_round

LEMMA RoundsEntered ==
  ASSUME TypeOK, Rounds, NEW n \in Node, NEW r \in Round, NEW l \in Node, NEW J \in SUBSET Node,
         Enters(n, r, l, J)
  PROVE  Rounds'
<1>0. Entered(n, r, l, J)
  BY EntersRound
<1>1. /\ \A p \in Node : current_round'[p] = IF p = n THEN r ELSE current_round[p]
      /\ left_round' = left_round \cup {<<n, R>> : R \in {R \in Round : R < r}}
      /\ joined_round' = joined_round \cup {<<n, r>>}
      /\ r # none /\ r \in Nat /\ current_round[n] \in Nat
  BY <1>0 DEF Entered
<1>2. \A p \in Node, R \in Round : R \in Nat /\ current_round[p] \in Nat
  BY Numbers DEF TypeOK
<1>6. current_round[n] < r
  BY DEF Enters
<1>3. LeftAreLower'
  <2> SUFFICES ASSUME NEW p \in Node, NEW R \in Round
               PROVE  (<<p, R>> \in left_round') <=> (R < current_round'[p] \/ R = none)
    BY DEF LeftAreLower
  <2>1. (<<p, R>> \in left_round') <=> (<<p, R>> \in left_round \/ (p = n /\ R < r))
    BY <1>1
  <2>2. (<<p, R>> \in left_round) <=> (R < current_round[p] \/ R = none)
    BY DEF Rounds, LeftAreLower
  <2>3. R \in Nat /\ current_round[p] \in Nat
    BY <1>2
  <2>4. CASE p = n
    <3>1. current_round'[p] = r
      BY <1>1, <2>4
    <3>2. R < current_round[p] => R < r
      BY <1>1, <1>6, <2>3, <2>4
    <3>3. R = none => R < r
      BY <1>1, <2>3 DEF none
    <3> QED
      BY <2>1, <2>2, <2>4, <3>1, <3>2, <3>3
  <2>5. CASE p # n
    BY <1>1, <2>1, <2>2, <2>5
  <2> QED
    BY <2>4, <2>5
<1>4. JoinedAreEntered'
  <2> SUFFICES ASSUME NEW p \in Node, NEW R \in Round, <<p, R>> \in joined_round'
               PROVE  R # none /\ R <= current_round'[p]
    BY DEF JoinedAreEntered
  <2>1. CASE p = n /\ R = r
    BY <1>1, <2>1
  <2>2. CASE <<p, R>> \in joined_round
    <3>1. R # none /\ R <= current_round[p]
      BY <2>2 DEF Rounds, JoinedAreEntered
    <3>2. R \in Nat /\ current_round[p] \in Nat
      BY <1>2
    <3>3. current_round'[p] = current_round[p] \/ (p = n /\ current_round'[p] = r)
      BY <1>1
    <3> QED
      BY <1>1, <1>6, <3>1, <3>2, <3>3
  <2> QED
    BY <1>1, <2>1, <2>2
<1>5. OwnRoundIsJoined'
  BY <1>1 DEF Rounds, OwnRoundIsJoined
<1> QED
  BY <1>3, <1>4, <1>5 DEF Rounds

LEMMA LeadersEntered ==
  ASSUME TypeOK, Leaders, NEW n \in Node, NEW r \in Round, NEW l \in Node, NEW J \in SUBSET Node,
         Enters(n, r, l, J), UNCHANGED active
  PROVE  Leaders'
<1>0. Entered(n, r, l, J)
  BY EntersRound
<1>1. /\ \A p \in Node : /\ current_round'[p] = IF p = n THEN r ELSE current_round[p]
                         /\ current_leader'[p] = IF p = n THEN l ELSE current_leader[p]
                         /\ round_active'[p] = IF p = n THEN FALSE ELSE round_active[p]
      /\ current_round[n] \in Nat /\ r \in Nat
  BY <1>0 DEF Entered
<1>5. current_round[n] < r /\ leader_of(l, r)
  BY DEF Enters
<1>2. LeaderIsFollowed'
  BY <1>1, <1>5 DEF Leaders, LeaderIsFollowed, leader_of
<1>3. ActivatedByLeader'
  <2> SUFFICES ASSUME NEW R \in active
               PROVE  \E p \in Node :
                        /\ leader_of(p, R)
                        /\ R < current_round'[p] \/ (R = current_round'[p] /\ round_active'[p])
    BY DEF ActivatedByLeader, leader_of
  <2>1. PICK p \in Node :
          /\ leader_of(p, R)
          /\ R < current_round[p] \/ (R = current_round[p] /\ round_active[p])
    BY DEF Leaders, ActivatedByLeader
  <2>2. R \in Nat
    BY Numbers DEF TypeOK, P!TypeOK
  <2>3. CASE p = n
    <3>1. R <= current_round[n]
      BY <1>1, <2>1, <2>2, <2>3
    <3>2. R < r
      BY <1>1, <1>5, <2>2, <3>1
    <3> QED
      BY <1>1, <2>1, <2>3, <3>2
  <2>4. CASE p # n
    BY <1>1, <2>1, <2>4
  <2> QED
    BY <2>3, <2>4
<1>4. LeadersAreActive'
  BY <1>1 DEF Leaders, LeadersAreActive, leader_of
<1> QED
  BY <1>2, <1>3, <1>4 DEF Leaders

\* A vote is the last one of its server.
LEMMA OwnVotesCast ==
  ASSUME TypeOK, OwnVotes, NEW n \in Node, NEW r \in Round, NEW i \in Inst, NEW v \in Value,
         cast(n, r, i, v), current_round'[n] = r, r # none,
         \A p \in Node : current_round[p] <= current_round'[p],
         \A p \in Node : current_round'[p] \in Round
  PROVE  OwnVotes'
<1>1. /\ \A p \in Node, j \in Inst :
           my_votes'[p][j] = IF p = n /\ j = i THEN [maxr |-> r, maxv |-> v] ELSE my_votes[p][j]
      /\ vote' = vote \cup {<<n, i, r, v>>}
  BY DEF cast, TypeOK
<1>2. OwnVotesAreCast'
  BY <1>1 DEF OwnVotes, OwnVotesAreCast
<1>3. OwnVotesAreLast'
  <2> SUFFICES ASSUME NEW p \in Node, NEW j \in Inst, NEW R \in Round, NEW u \in Value,
                      <<p, j, R, u>> \in vote'
               PROVE  R <= my_votes'[p][j].maxr /\ R <= current_round'[p]
    <3>1. vote' \subseteq Node \X Inst \X Round \X Value
      BY <1>1 DEF TypeOK, P!TypeOK
    <3> QED
      BY <3>1 DEF OwnVotesAreLast
  <2>1. /\ R \in Nat /\ r \in Nat /\ my_votes[p][j].maxr \in Nat
        /\ current_round[p] \in Nat /\ current_round'[p] \in Nat
    <3>1. current_round[p] \in Round /\ my_votes[p][j] \in P!Vote
      BY DEF TypeOK
    <3>2. my_votes[p][j].maxr \in Round
      BY <3>1 DEF P!Vote
    <3> QED
      BY <3>1, <3>2, Numbers
  <2>4. current_round[n] <= r
    OBVIOUS
  <2>2. CASE <<p, j, R, u>> \in vote
    <3>1. R <= my_votes[p][j].maxr /\ R <= current_round[p]
      BY <2>2 DEF OwnVotes, OwnVotesAreLast
    <3>2. current_round[p] <= current_round'[p]
      OBVIOUS
    <3>3. R <= current_round'[p]
      BY <2>1, <3>1, <3>2
    <3>4. my_votes'[p][j].maxr = my_votes[p][j].maxr \/ (p = n /\ my_votes'[p][j].maxr = r)
      BY <1>1
    <3> QED
      BY <2>1, <2>4, <3>1, <3>3, <3>4
  <2>3. CASE p = n /\ j = i /\ R = r
    BY <1>1, <2>1, <2>3
  <2> QED
    BY <1>1, <2>2, <2>3
<1> QED
  BY <1>2, <1>3 DEF OwnVotes

LEMMA OwnVotesKept ==
  ASSUME TypeOK, OwnVotes, UNCHANGED vote_vars,
         \A p \in Node : current_round[p] <= current_round'[p],
         \A p \in Node : current_round'[p] \in Round
  PROVE  OwnVotes'
<1>1. OwnVotesAreCast'
  BY DEF OwnVotes, OwnVotesAreCast, vote_vars
<1>2. OwnVotesAreLast'
  <2> SUFFICES ASSUME NEW w \in vote
               PROVE  w[3] <= my_votes[w[1]][w[2]].maxr /\ w[3] <= current_round'[w[1]]
    BY DEF OwnVotesAreLast, vote_vars
  <2>1. w[1] \in Node /\ w[3] \in Nat /\ current_round[w[1]] \in Nat /\ current_round'[w[1]] \in Nat
    BY Numbers DEF TypeOK, P!TypeOK
  <2>2. w[3] <= my_votes[w[1]][w[2]].maxr /\ w[3] <= current_round[w[1]]
    BY DEF OwnVotes, OwnVotesAreLast
  <2>3. current_round[w[1]] <= current_round'[w[1]]
    BY <2>1
  <2> QED
    BY <2>1, <2>2, <2>3
<1> QED
  BY <1>1, <1>2 DEF OwnVotes

\* A round has one leader.
LEMMA OneLeader ==
  \A r \in Round, p, q \in Node : leader_of(p, r) /\ leader_of(q, r) => p = q
  BY DEF leader_of

\* What was true of the history of a message stays true.
LEMMA TellsKept ==
  ASSUME TypeOK, TypeOK', Rounds, Grows,
         NEW m \in P!Segment, NEW q \in SUBSET Node, NEW r \in Round,
         \A p \in q : <<p, r>> \in joined_round,
         tells(m, q, r)
  PROVE  tells(m, q, r)'
<1> SUFFICES ASSUME NEW i \in Inst, m.first <= i
             PROVE  /\ maxvote(m, i).maxr # none =>
                         \E p \in q : <<p, i, maxvote(m, i).maxr, maxvote(m, i).maxv>> \in vote'
                    /\ \A w \in vote' : w[1] \in q /\ w[2] = i /\ w[3] < r
                                           => w[3] <= maxvote(m, i).maxr
  BY DEF tells, maxvote, P!maxvote, P!not_a_vote
<1>1. /\ maxvote(m, i).maxr # none =>
           \E p \in q : <<p, i, maxvote(m, i).maxr, maxvote(m, i).maxv>> \in vote
      /\ \A w \in vote : w[1] \in q /\ w[2] = i /\ w[3] < r => w[3] <= maxvote(m, i).maxr
  BY DEF tells
<1>2. ASSUME NEW w \in vote', w[1] \in q, w[3] < r
      PROVE  w \in vote
  <2>1. w[1] \in Node /\ w[3] \in Nat
    BY Numbers DEF TypeOK, P!TypeOK
  <2>2. r <= current_round[w[1]]
    BY <1>2, <2>1 DEF Rounds, JoinedAreEntered
  <2>3. current_round[w[1]] <= current_round'[w[1]]
    BY <2>1 DEF Grows
  <2>4. current_round[w[1]] \in Nat /\ current_round'[w[1]] \in Nat /\ r \in Nat
    BY <2>1, Numbers DEF TypeOK
  <2>5. w[3] # current_round'[w[1]]
    BY <1>2, <2>1, <2>2, <2>3, <2>4
  <2> QED
    BY <2>5 DEF Grows
<1>3. vote \subseteq vote'
  BY DEF Grows
<1> QED
  BY <1>1, <1>2, <1>3

LEMMA SpeaksKept ==
  ASSUME TypeOK, TypeOK', Grows, NEW p \in Node, NEW r \in Round, r <= current_round[p]
  PROVE  /\ r <= current_round'[p]
         /\ r = current_round'[p] =>
              r = current_round[p] /\ joined_votes'[p].first = joined_votes[p].first
<1>1. r \in Nat /\ current_round[p] \in Nat /\ current_round'[p] \in Nat
  BY Numbers DEF TypeOK
<1>2. current_round[p] <= current_round'[p]
  BY DEF Grows
<1>3. r <= current_round'[p]
  BY <1>1, <1>2
<1>4. r = current_round'[p] => current_round'[p] = current_round[p]
  BY <1>1, <1>2
<1> QED
  BY <1>3, <1>4 DEF Grows

LEMMA MessageKept ==
  ASSUME TypeOK, TypeOK', Rounds, Grows,
         NEW m \in Message, NEW d \in Node, truthful(m, d)
  PROVE  truthful(m, d)'
<1>1. CASE m.kind = "one_a"
  <2>1. m.round \in Round /\ m.node \in Node
    BY <1>1, MessageType
  <2>2. leader_of(m.node, m.round) /\ m.round <= current_round[m.node]
        /\ (m.round = current_round[m.node] => m.inst = joined_votes[m.node].first)
    BY <1>1 DEF truthful, leader_speaks
  <2>3. /\ m.round <= current_round'[m.node]
        /\ m.round = current_round'[m.node] => m.inst = joined_votes'[m.node].first
    BY <2>1, <2>2, SpeaksKept
  <2> QED
    BY <1>1, <2>2, <2>3 DEF truthful, leader_speaks
<1>2. CASE m.kind = "one_b"
  <2>1. m.round \in Round /\ m.node \in Node /\ m.votemap \in P!Segment
    BY <1>2, MessageType
  <2>2. leader_of(d, m.round) /\ m.round <= current_round[d]
        /\ (m.round = current_round[d] => m.votemap.first = joined_votes[d].first)
        /\ <<m.node, m.round>> \in joined_round /\ tells(m.votemap, {m.node}, m.round)
    BY <1>2 DEF truthful
  <2>3. /\ m.round <= current_round'[d]
        /\ m.round = current_round'[d] => m.votemap.first = joined_votes'[d].first
    BY <2>1, <2>2, SpeaksKept
  <2>4. {m.node} \in SUBSET Node
    BY <2>1
  <2>5. tells(m.votemap, {m.node}, m.round)'
    BY <2>1, <2>2, <2>4, TellsKept
  <2>6. <<m.node, m.round>> \in joined_round'
    BY <2>2 DEF Grows
  <2> QED
    BY <1>2, <2>2, <2>3, <2>5, <2>6 DEF truthful
<1>3. CASE m.kind \in {"two_a", "keep_alive"}
  <2>1. m.round \in Round /\ m.node \in Node
    BY <1>3, MessageType
  <2>2. leader_of(m.node, m.round) /\ m.round <= current_round[m.node]
        /\ (m.kind = "two_a" => <<m.inst, m.round, m.value>> \in proposal)
    BY <1>3 DEF truthful, leader_speaks
  <2>3. m.round <= current_round'[m.node]
    BY <2>1, <2>2, SpeaksKept
  <2>4. proposal \subseteq proposal'
    BY DEF Grows
  <2> QED
    BY <1>3, <2>2, <2>3, <2>4 DEF truthful, leader_speaks
<1>4. CASE m.kind \notin {"one_a", "one_b", "two_a", "keep_alive"}
  BY <1>4 DEF truthful, Grows
<1> QED
  BY <1>1, <1>2, <1>3, <1>4

\* All messages are truthful after a step whose new messages are.
LEMMA MessagesKept ==
  ASSUME TypeOK, TypeOK', Rounds, Messages, Grows,
         \A s \in sent' : s \in sent \/ truthful(s[1], s[2])'
  PROVE  Messages'
<1> SUFFICES ASSUME NEW s \in sent', s \in sent
             PROVE  truthful(s[1], s[2])'
  BY DEF Messages
<1>1. s[1] \in Message /\ s[2] \in Node /\ truthful(s[1], s[2])
  BY DEF Messages, TypeOK
<1> QED
  BY <1>1, MessageKept

\* What holds of the votes one server has collected.
JoinersOf(n) ==
    /\ \A p \in joined[n] : <<p, current_round[n]>> \in joined_round
    /\ leader_of(n, current_round[n]) => tells(joined_votes[n], joined[n], current_round[n])
    /\ joined_votes[n].first <= joined_votes[n].upper

LEMMA JoinersOfAll == Joiners <=> \A n \in Node : JoinersOf(n)
  BY DEF Joiners, JoinersOf, JoinedJoined, JoinedAreHeard, SegmentsAreOrdered

LEMMA JoinersOfAllNext == Joiners' <=> \A n \in Node : JoinersOf(n)'
  BY DEF Joiners, JoinersOf, JoinedJoined, JoinedAreHeard, SegmentsAreOrdered

LEMMA JoinersKept ==
  ASSUME TypeOK, TypeOK', Rounds, Grows, NEW p \in Node, JoinersOf(p),
         current_round'[p] = current_round[p], joined'[p] = joined[p],
         joined_votes'[p] = joined_votes[p]
  PROVE  JoinersOf(p)'
<1>1. /\ \A q \in joined[p] : <<q, current_round[p]>> \in joined_round
      /\ joined[p] \in SUBSET Node /\ current_round[p] \in Round
      /\ joined_votes[p] \in P!Segment
  BY DEF JoinersOf, TypeOK
<1>2. \A q \in joined'[p] : <<q, current_round'[p]>> \in joined_round'
  BY <1>1 DEF Grows
<1>3. leader_of(p, current_round'[p]) => tells(joined_votes[p], joined[p], current_round[p])'
  <2>1. PICK m \in P!Segment, q \in SUBSET Node, r \in Round :
               m = joined_votes[p] /\ q = joined[p] /\ r = current_round[p]
    BY <1>1
  <2>2. \A x \in q : <<x, r>> \in joined_round
    BY <1>1, <2>1
  <2>3. leader_of(p, r) => tells(m, q, r)
    BY <2>1 DEF JoinersOf
  <2>4. leader_of(p, r) => tells(m, q, r)'
    BY <2>2, <2>3, TellsKept
  <2>5. m = joined_votes'[p] /\ q = joined'[p] /\ r = current_round'[p]
    BY <2>1
  <2> QED
    BY <2>4, <2>5
<1>4. joined_votes'[p].first <= joined_votes'[p].upper
  BY DEF JoinersOf
<1> QED
  BY <1>2, <1>3, <1>4 DEF JoinersOf

\* A server that enters the round of another one starts from nothing.
LEMMA JoinersEntered ==
  ASSUME TypeOK, NEW n \in Node, NEW r \in Round, NEW l \in Node, Enters(n, r, l, {}), n # l,
         JoinersOf(n), joined_votes'[n] = joined_votes[n]
  PROVE  JoinersOf(n)'
<1>1. {} \in SUBSET Node
  OBVIOUS
<1>5. Entered(n, r, l, {})
  BY <1>1, EntersRound
<1>2. current_round'[n] = r /\ joined'[n] = {}
  BY <1>5 DEF Entered
<1>3. ~leader_of(n, r)
  BY OneLeader DEF Enters
<1>4. joined_votes'[n].first <= joined_votes'[n].upper
  BY DEF JoinersOf
<1> QED
  BY <1>2, <1>3, <1>4 DEF JoinersOf
-----------------------------------------------------------------------------
\* What holds of the status one server keeps.
StatusOf(n) ==
    \A i \in Inst :
        /\ inst_status[n][i].active =>
              <<i, current_round[n], inst_status[n][i].proposal>> \in proposal
        /\ \A p \in inst_status[n][i].voters :
              <<p, i, current_round[n], inst_status[n][i].proposal>> \in vote

LEMMA StatusOfAll == StatusIsProposed /\ CountedVotesAreCurrent <=> \A n \in Node : StatusOf(n)
  BY DEF StatusIsProposed, CountedVotesAreCurrent, StatusOf

LEMMA StatusOfAllNext ==
  StatusIsProposed' /\ CountedVotesAreCurrent' <=> \A n \in Node : StatusOf(n)'
  BY DEF StatusIsProposed, CountedVotesAreCurrent, StatusOf

LEMMA StatusKept ==
  ASSUME Grows, NEW p \in Node, StatusOf(p), current_round'[p] = current_round[p],
         inst_status'[p] = inst_status[p]
  PROVE  StatusOf(p)'
  BY DEF StatusOf, Grows

LEMMA StatusEmptied ==
  ASSUME NEW p \in Node, inst_status'[p] = empty_status
  PROVE  StatusOf(p)'
  BY DEF StatusOf, empty_status, init_status

\* Logs and reports when nothing is learnt, and when a decision is.
LogsHold == LogsAreDecided /\ ReportsAreDecided /\ FirstUndecidedIsFirstHole

LEMMA LogsKept ==
  LogsHold /\ UNCHANGED log_vars /\ decision \subseteq decision' => LogsHold'
  BY DEF LogsHold, LogsAreDecided, ReportsAreDecided, FirstUndecidedIsFirstHole, is_decided,
         log_vars

LEMMA LearnedLog ==
  ASSUME NEW n, NEW i, NEW v, Learned(n, i, v)
  PROVE  \A p \in Node, j \in Inst :
           my_log'[p][j] = IF p = n /\ j = i THEN [present |-> TRUE, decision |-> v]
                           ELSE my_log[p][j]
  BY DEF Learned

LEMMA LogsLearned ==
  ASSUME TypeOK, End, LogsHold, NEW n \in Node, NEW i \in Inst, NEW v \in Value, learn(n, i, v),
         decision \subseteq decision', <<i, v>> \in decision'
  PROVE  LogsHold'
<1>1. Learned(n, i, v) /\ decided' = decided \cup {<<n, i, v>>}
  BY LearnMoves DEF learn
<1>5. \A p \in Node, j \in Inst :
        my_log'[p][j] = IF p = n /\ j = i THEN [present |-> TRUE, decision |-> v]
                        ELSE my_log[p][j]
  BY <1>1, LearnedLog
<1>6. \A p \in Node, j \in Inst :
        my_log[p][j].present => <<j, my_log[p][j].decision>> \in decision'
  BY DEF LogsHold, LogsAreDecided
<1>2. LogsAreDecided'
  BY <1>5, <1>6 DEF LogsAreDecided
<1>3. ReportsAreDecided'
  <2> SUFFICES ASSUME NEW d \in decided'
               PROVE  <<d[2], d[3]>> \in decision'
    BY DEF ReportsAreDecided
  <2>1. CASE d \in decided
    <3>1. <<d[2], d[3]>> \in decision
      BY <2>1 DEF LogsHold, ReportsAreDecided
    <3> QED
      BY <3>1
  <2>2. CASE d = <<n, i, v>>
    <3>1. d[2] = i /\ d[3] = v
      BY <2>2
    <3> QED
      BY <3>1
  <2> QED
    BY <1>1, <2>1, <2>2
<1>4. FirstUndecidedIsFirstHole'
  BY LearnHole DEF LogsHold
<1> QED
  BY <1>2, <1>3, <1>4 DEF LogsHold

\* A step that votes or learns at one instance leaves an end.
LEMMA EndKept ==
  ASSUME End, NEW i \in Inst,
         \A n \in Node, j \in Inst : j # i =>
            my_votes'[n][j] = my_votes[n][j] /\ my_log'[n][j] = my_log[n][j]
  PROVE  End'
<1>1. PICK k \in Nat : EndsAt(k)
  BY DEF End
<1>2. PICK k2 \in Nat : k <= k2 /\ i < k2
  <2>1. i \in Nat
    BY Numbers
  <2>2. k + i + 1 \in Nat /\ k <= k + i + 1 /\ i < k + i + 1
    BY <2>1
  <2> QED
    BY <2>2
<1>3. EndsAt(k2)'
  <2> SUFFICES ASSUME NEW n \in Node, NEW j \in Inst, k2 <= j
               PROVE  my_votes'[n][j].maxr = none /\ ~my_log'[n][j].present
    BY DEF EndsAt
  <2>1. j \in Nat /\ i \in Nat
    BY Numbers
  <2>2. k <= j /\ j # i
    BY <1>2, <2>1
  <2> QED
    BY <1>1, <2>2 DEF EndsAt
<1> QED
  BY <1>3 DEF End

LEMMA EndSame == End /\ UNCHANGED <<my_votes, my_log>> => End'
  BY DEF End, EndsAt
-----------------------------------------------------------------------------
(***************************************************************************)
(* The invariant survives each step.                                       *)
(***************************************************************************)

\* A round a server is in or ahead of is one it has not left.
LEMMA NotLeft ==
  ASSUME TypeOK, Rounds, NEW n \in Node, NEW r \in Round, current_round[n] <= r, r # none
  PROVE  <<n, r>> \notin left_round
<1>1. r \in Nat /\ current_round[n] \in Nat
  BY Numbers DEF TypeOK
<1>2. ~(r < current_round[n])
  BY <1>1
<1> QED
  BY <1>2 DEF Rounds, LeftAreLower

LEMMA RoundsSame == Rounds /\ UNCHANGED <<current_round, left_round, joined_round>> => Rounds'
  BY DEF Rounds, LeftAreLower, JoinedAreEntered, OwnRoundIsJoined

LEMMA LeadersSame ==
  Leaders /\ UNCHANGED <<current_round, current_leader, round_active, active>> => Leaders'
  BY DEF Leaders, LeaderIsFollowed, ActivatedByLeader, LeadersAreActive

LEMMA FreeSame ==
  FreeFromNext /\ UNCHANGED <<current_round, round_active, next_inst, available>> => FreeFromNext'
  BY DEF FreeFromNext

\* A step that changes no round, no vote and no proposal lets the history grow.
LEMMA GrowsInRounds ==
  ASSUME TypeOK, UNCHANGED <<current_round, joined_round, joined_votes, vote>>,
         proposal \subseteq proposal', decision \subseteq decision'
  PROVE  Grows
<1>1. \A p \in Node : current_round[p] \in Nat
  BY Numbers DEF TypeOK
<1>2. \A p \in Node : current_round[p] <= current_round'[p]
  BY <1>1
<1> QED
  BY <1>2 DEF Grows

\* Steps that only send.
LEMMA QuietStep ==
  ASSUME SysInv, TypeOK',
         UNCHANGED <<round_vars, leader_vars, vote_vars, inst_status, log_vars, proposal_vars,
                     decision>>,
         \A s \in sent' : s \in sent \/ truthful(s[1], s[2])'
  PROVE  SysInv'
<1>0. /\ TypeOK /\ P!Inv /\ Rounds /\ Leaders /\ OwnVotes /\ Messages /\ Joiners
      /\ StatusIsProposed /\ CountedVotesAreCurrent /\ FreeFromNext /\ End
  BY DEF SysInv
<1>1. /\ UNCHANGED <<current_round, current_leader, round_active, joined, left_round,
                     joined_round, joined_votes, next_inst, my_votes, vote, inst_status,
                     my_log, first_undecided, decided, proposal, active, available, decision>>
      /\ UNCHANGED vote_vars /\ UNCHANGED log_vars
  BY DEF round_vars, leader_vars, vote_vars, log_vars, proposal_vars
<1>2. Grows
  BY <1>0, <1>1, GrowsInRounds
<1>3. P!Inv'
  BY <1>0, <1>1, GhostStutter
<1>4. Rounds' /\ Leaders' /\ FreeFromNext' /\ End'
  BY <1>0, <1>1, RoundsSame, LeadersSame, FreeSame, EndSame
<1>5. OwnVotes'
  BY <1>0, <1>1, <1>2, OwnVotesKept DEF Grows, TypeOK
<1>6. Messages'
  BY <1>0, <1>2, MessagesKept
<1>7. Joiners'
  BY <1>0, <1>1, <1>2, JoinersOfAll, JoinersOfAllNext, JoinersKept
<1>8. StatusIsProposed' /\ CountedVotesAreCurrent'
  BY <1>0, <1>1, <1>2, StatusOfAll, StatusOfAllNext, StatusKept
<1>9. LogsHold'
  BY <1>1, LogsKept DEF SysInv, LogsHold
<1> QED
  BY <1>3, <1>4, <1>5, <1>6, <1>7, <1>8, <1>9 DEF SysInv, LogsHold

\* Entering a later round lets the history grow.
LEMMA EntersGrows ==
  ASSUME TypeOK, NEW n \in Node, NEW r \in Round, NEW l \in Node, NEW J \in SUBSET Node,
         Enters(n, r, l, J),
         \A p \in Node : p # n => joined_votes'[p] = joined_votes[p],
         proposal \subseteq proposal', vote \subseteq vote', decision \subseteq decision',
         \A w \in vote' : w \in vote \/ w[3] = current_round'[w[1]]
  PROVE  Grows
<1>0. Entered(n, r, l, J)
  BY EntersRound
<1>1. /\ \A p \in Node : current_round'[p] = IF p = n THEN r ELSE current_round[p]
      /\ joined_round' = joined_round \cup {<<n, r>>}
      /\ \A p \in Node : current_round[p] <= current_round'[p]
  BY <1>0 DEF Entered
<1>2. current_round[n] \in Nat /\ r \in Nat /\ current_round[n] < r
  <2>1. current_round[n] \in Round /\ current_round[n] < r
    BY DEF Enters, TypeOK
  <2> QED
    BY <2>1, Numbers
<1>3. current_round'[n] # current_round[n]
  BY <1>1, <1>2
<1>4. \A p \in Node : current_round'[p] = current_round[p] =>
                          joined_votes'[p].first = joined_votes[p].first
  BY <1>3
<1> QED
  BY <1>1, <1>4 DEF Grows

LEMMA EnteringStep ==
  ASSUME SysInv, TypeOK',
         NEW n \in Node, NEW r \in Round, NEW l \in Node, NEW J \in SUBSET Node,
         Enters(n, r, l, J),
         UNCHANGED <<next_inst, vote_vars, log_vars, proposal_vars, decision>>,
         inst_status' = [inst_status EXCEPT ![n] = empty_status],
         \A p \in Node : p # n => joined_votes'[p] = joined_votes[p],
         JoinersOf(n)',
         \A s \in sent' : s \in sent \/ truthful(s[1], s[2])'
  PROVE  SysInv'
<1>0. /\ TypeOK /\ P!Inv /\ Rounds /\ Leaders /\ OwnVotes /\ Messages /\ Joiners
      /\ StatusIsProposed /\ CountedVotesAreCurrent /\ FreeFromNext /\ End
  BY DEF SysInv
<1>1. /\ UNCHANGED <<next_inst, my_votes, vote, my_log, first_undecided, decided,
                     proposal, active, available, decision>>
      /\ UNCHANGED vote_vars /\ UNCHANGED log_vars
  BY DEF vote_vars, log_vars, proposal_vars
<1>2. Grows
  BY <1>0, <1>1, EntersGrows
<1>F. Entered(n, r, l, J)
  BY <1>0, EntersRound
<1>E. /\ \A p \in Node : /\ current_round'[p] = IF p = n THEN r ELSE current_round[p]
                         /\ round_active'[p] = IF p = n THEN FALSE ELSE round_active[p]
                         /\ joined'[p] = IF p = n THEN J ELSE joined[p]
      /\ left_round' = left_round \cup {<<n, R>> : R \in {R \in Round : R < r}}
      /\ joined_round' = joined_round \cup {<<n, r>>}
      /\ r # none /\ r \in Nat /\ current_round[n] \in Nat
  BY <1>F DEF Entered
<1>3. P!Inv'
  <2>1. current_round[n] <= r
    <3>1. current_round[n] < r
      BY DEF Enters
    <3> QED
      BY <1>E, <3>1
  <2>2. <<n, r>> \notin left_round
    BY <1>0, <1>E, <2>1, NotLeft
  <2>3. P!TypeOK'
    BY DEF TypeOK
  <2> QED
    BY <1>0, <1>1, <1>E, <2>2, <2>3, GhostJoinVote
<1>4. Rounds' /\ Leaders' /\ End'
  BY <1>0, <1>1, RoundsEntered, LeadersEntered, EndSame
<1>5. OwnVotes'
  BY <1>0, <1>1, <1>2, OwnVotesKept DEF Grows, TypeOK
<1>6. Messages'
  BY <1>0, <1>2, MessagesKept
<1>7. Joiners'
  <2> SUFFICES ASSUME NEW p \in Node, p # n
               PROVE  JoinersOf(p)'
    BY JoinersOfAllNext
  <2>1. current_round'[p] = current_round[p] /\ joined'[p] = joined[p]
        /\ joined_votes'[p] = joined_votes[p]
    BY <1>E
  <2> QED
    BY <1>0, <1>2, <2>1, JoinersOfAll, JoinersKept
<1>8. StatusIsProposed' /\ CountedVotesAreCurrent'
  <2> SUFFICES ASSUME NEW p \in Node
               PROVE  StatusOf(p)'
    BY StatusOfAllNext
  <2>1. inst_status'[n] = empty_status /\ (p # n => inst_status'[p] = inst_status[p])
    BY <1>0 DEF TypeOK
  <2>2. CASE p = n
    BY <2>1, <2>2, StatusEmptied
  <2>3. CASE p # n
    BY <1>0, <1>2, <1>E, <2>1, <2>3, StatusOfAll, StatusKept
  <2> QED
    BY <2>2, <2>3
<1>9. LogsHold'
  BY <1>1, LogsKept DEF SysInv, LogsHold
<1>10. FreeFromNext'
  BY <1>0, <1>1, <1>E DEF FreeFromNext
<1> QED
  BY <1>3, <1>4, <1>5, <1>6, <1>7, <1>8, <1>9, <1>10 DEF SysInv, LogsHold

\* Steps that vote.
LEMMA VotingStatus ==
  ASSUME TypeOK, P!Inv', NEW n \in Node, StatusOf(n), NEW r \in Round, NEW i \in Inst, NEW v \in Value,
         cast(n, r, i, v), <<i, r, v>> \in proposal', proposal \subseteq proposal',
         current_round'[n] = r,
         current_round[n] < r \/ current_round[n] = r
  PROVE  StatusOf(n)'
<1> DEFINE s == status_in(n, r)
           voted == [s[i] EXCEPT !.voters = s[i].voters \cup {n}, !.proposal = v, !.active = TRUE]
<1>1. /\ inst_status' = [inst_status EXCEPT ![n] = [s EXCEPT ![i] = voted]]
      /\ vote' = vote \cup {<<n, i, r, v>>}
  BY DEF cast
<1>2. s \in ballot_status_array /\ inst_status \in [Node -> ballot_status_array]
  BY EmptyStatusType DEF TypeOK, status_in
<1>3. \A j \in Inst :
        /\ s[j].active => <<j, r, s[j].proposal>> \in proposal
        /\ \A p \in s[j].voters : <<p, j, r, s[j].proposal>> \in vote
  <2>1. CASE current_round[n] < r
    BY <2>1 DEF status_in, empty_status, init_status
  <2>2. CASE current_round[n] = r /\ ~(current_round[n] < r)
    BY <2>2 DEF status_in, StatusOf
  <2> QED
    BY <2>1, <2>2
<1>4. inst_status'[n] = [s EXCEPT ![i] = voted]
  BY <1>1, <1>2
<1>5. \A j \in Inst : j # i => inst_status'[n][j] = s[j]
  BY <1>2, <1>4 DEF ballot_status_array
<1>6. /\ inst_status'[n][i].proposal = v
      /\ inst_status'[n][i].voters = s[i].voters \cup {n}
  <2>1. inst_status'[n][i] = voted
    BY <1>2, <1>4 DEF ballot_status_array
  <2>2. s[i] \in [active : BOOLEAN, voters : SUBSET Node, proposal : Value, decided : BOOLEAN]
    BY <1>2 DEF ballot_status_array
  <2> HIDE DEF s
  <2> QED
    BY <2>1, <2>2
<1>7. ASSUME NEW p \in s[i].voters
      PROVE  <<p, i, r, v>> \in vote'
  <2>1. s[i].proposal \in Value /\ s[i].voters \subseteq Node
    BY <1>2 DEF ballot_status_array
  <2>2. <<p, i, r, s[i].proposal>> \in vote'
    BY <1>1, <1>3, <1>7
  <2>3. PICK u \in Value : u = s[i].proposal
    BY <2>1
  <2>4. p \in Node
    BY <2>1
  <2>5. <<i, r, u>> \in proposal'
    BY <2>2, <2>3, <2>4 DEF P!Inv, P!VotedIsProposed
  <2>6. u = v
    BY <2>5 DEF P!Inv, P!OneProposalPerRound
  <2> QED
    BY <2>2, <2>3, <2>6
<1> HIDE DEF s, voted
<1>8. \A j \in Inst :
        /\ inst_status'[n][j].active =>
              <<j, r, inst_status'[n][j].proposal>> \in proposal'
        /\ \A p \in inst_status'[n][j].voters : <<p, j, r, inst_status'[n][j].proposal>> \in vote'
  <2> TAKE j \in Inst
  <2>1. CASE j = i
    BY <1>1, <1>6, <1>7, <2>1
  <2>2. CASE j # i
    BY <1>1, <1>3, <1>5, <2>2
  <2> QED
    BY <2>1, <2>2
<1> QED
  BY <1>8 DEF StatusOf

LEMMA VotingStep ==
  ASSUME SysInv, TypeOK', P!Inv',
         NEW n \in Node, NEW r \in Round, NEW i \in Inst, NEW v \in Value, NEW l \in Node,
         r # none, cast(n, r, i, v), <<i, r, v>> \in proposal', proposal \subseteq proposal',
         UNCHANGED <<log_vars, decision, active, joined_votes>>,
         \/ Enters(n, r, l, {}) /\ n # l
         \/ UNCHANGED round_vars /\ current_round[n] = r,
         FreeFromNext',
         \A s \in sent' : s \in sent \/ truthful(s[1], s[2])'
  PROVE  SysInv'
<1>0. /\ TypeOK /\ P!Inv /\ Rounds /\ Leaders /\ OwnVotes /\ Messages /\ Joiners
      /\ StatusIsProposed /\ CountedVotesAreCurrent /\ End
  BY DEF SysInv
<1>1. /\ UNCHANGED <<my_log, first_undecided, decided, active, decision, joined_votes>>
      /\ UNCHANGED log_vars
  BY DEF log_vars
<1>2. /\ vote' = vote \cup {<<n, i, r, v>>}
      /\ \A p \in Node, j \in Inst : ~(p = n /\ j = i) => my_votes'[p][j] = my_votes[p][j]
      /\ \A p \in Node : p # n => inst_status'[p] = inst_status[p]
  BY <1>0 DEF cast, TypeOK
<1>3. {} \in SUBSET Node
  OBVIOUS
<1>4. /\ current_round'[n] = r
      /\ current_round[n] < r \/ current_round[n] = r
      /\ \A p \in Node : p # n => /\ current_round'[p] = current_round[p]
                                  /\ joined'[p] = joined[p]
  <2>1. CASE Enters(n, r, l, {})
    <3>1. \A p \in Node : /\ current_round'[p] = IF p = n THEN r ELSE current_round[p]
                          /\ joined'[p] = IF p = n THEN {} ELSE joined[p]
      <4>1. Entered(n, r, l, {})
        BY <1>0, <1>3, <2>1, EntersRound
      <4> QED
        BY <4>1 DEF Entered
    <3>2. current_round[n] < r
      BY <2>1 DEF Enters
    <3> QED
      BY <3>1, <3>2
  <2>2. CASE UNCHANGED round_vars /\ current_round[n] = r
    BY <2>2 DEF round_vars
  <2> QED
    BY <2>1, <2>2
<1>5. Grows
  <2>1. vote \subseteq vote' /\ decision \subseteq decision'
        /\ \A w \in vote' : w \in vote \/ w[3] = current_round'[w[1]]
    BY <1>1, <1>2, <1>4
  <2>2. CASE Enters(n, r, l, {})
    BY <1>0, <1>1, <1>3, <2>1, <2>2, EntersGrows
  <2>3. CASE UNCHANGED round_vars
    <3>1. \A p \in Node : current_round[p] <= current_round'[p]
      <4>1. \A p \in Node : current_round[p] \in Nat
        BY <1>0, Numbers DEF TypeOK
      <4> QED
        BY <2>3, <4>1 DEF round_vars
    <3>2. UNCHANGED <<current_round, joined_round, joined_votes>>
      BY <1>1, <2>3 DEF round_vars
    <3> QED
      BY <2>1, <3>1, <3>2 DEF Grows
  <2> QED
    BY <2>2, <2>3
<1>6. Rounds' /\ Leaders'
  <2>1. CASE Enters(n, r, l, {})
    BY <1>0, <1>1, <1>3, <2>1, RoundsEntered, LeadersEntered
  <2>2. CASE UNCHANGED round_vars
    BY <1>0, <1>1, <2>2, RoundsSame, LeadersSame DEF round_vars
  <2> QED
    BY <2>1, <2>2
<1>7. OwnVotes'
  <2>1. \A p \in Node : current_round'[p] \in Round
    BY DEF TypeOK
  <2>2. \A p \in Node : current_round[p] <= current_round'[p]
    BY <1>5 DEF Grows
  <2> QED
    BY <1>0, <1>4, <2>1, <2>2, OwnVotesCast
<1>8. Messages'
  BY <1>0, <1>5, MessagesKept
<1>9. Joiners'
  <2> SUFFICES ASSUME NEW p \in Node
               PROVE  JoinersOf(p)'
    BY JoinersOfAllNext
  <2>1. JoinersOf(p) /\ JoinersOf(n)
    BY <1>0, JoinersOfAll
  <2>2. CASE p # n
    BY <1>0, <1>1, <1>4, <1>5, <2>1, <2>2, JoinersKept
  <2>3. CASE p = n /\ Enters(n, r, l, {}) /\ n # l
    <3>1. joined_votes'[n] = joined_votes[n]
      BY <1>1
    <3>2. JoinersOf(n)'
      BY <1>0, <2>1, <2>3, <3>1, JoinersEntered
    <3> QED
      BY <2>3, <3>2
  <2>4. CASE UNCHANGED round_vars
    <3>1. UNCHANGED <<current_round, joined, joined_votes>>
      BY <1>1, <2>4 DEF round_vars
    <3> QED
      BY <1>0, <1>5, <2>1, <3>1, JoinersKept
  <2> QED
    BY <2>2, <2>3, <2>4
<1>10. StatusIsProposed' /\ CountedVotesAreCurrent'
  <2>1. \A p \in Node : StatusOf(p)
    BY <1>0, StatusOfAll
  <2>2. StatusOf(n)'
    BY <1>0, <1>4, <2>1, VotingStatus
  <2>3. \A p \in Node : p # n => StatusOf(p)'
    BY <1>2, <1>4, <1>5, <2>1, StatusKept
  <2> QED
    BY <2>2, <2>3, StatusOfAllNext
<1>11. LogsHold'
  BY <1>1, LogsKept DEF SysInv, LogsHold
<1>12. End'
  <2>1. \A p \in Node, j \in Inst : j # i =>
            my_votes'[p][j] = my_votes[p][j] /\ my_log'[p][j] = my_log[p][j]
    BY <1>1, <1>2
  <2> QED
    BY <1>0, <2>1, EndKept
<1> QED
  BY <1>6, <1>7, <1>8, <1>9, <1>10, <1>11, <1>12 DEF SysInv, LogsHold

\* Steps that count votes or learn decisions.
LEMMA LearningStep ==
  ASSUME SysInv, TypeOK', P!Inv',
         UNCHANGED <<round_vars, leader_vars, vote_vars, proposal_vars>>,
         decision \subseteq decision', LogsHold', End',
         \A p \in Node : StatusOf(p)',
         \A s \in sent' : s \in sent \/ truthful(s[1], s[2])'
  PROVE  SysInv'
<1>0. /\ TypeOK /\ Rounds /\ Leaders /\ OwnVotes /\ Messages /\ Joiners /\ FreeFromNext
  BY DEF SysInv
<1>1. /\ UNCHANGED <<current_round, current_leader, round_active, joined, left_round,
                     joined_round, joined_votes, next_inst, my_votes, vote,
                     proposal, active, available>>
      /\ UNCHANGED vote_vars
  BY DEF round_vars, leader_vars, vote_vars, proposal_vars
<1>2. Grows
  BY <1>0, <1>1, GrowsInRounds
<1>3. Rounds' /\ Leaders' /\ FreeFromNext'
  BY <1>0, <1>1, RoundsSame, LeadersSame, FreeSame
<1>4. OwnVotes'
  BY <1>0, <1>1, <1>2, OwnVotesKept DEF Grows, TypeOK
<1>5. Messages'
  BY <1>0, <1>2, MessagesKept
<1>6. Joiners'
  BY <1>0, <1>1, <1>2, JoinersOfAll, JoinersOfAllNext, JoinersKept
<1>7. StatusIsProposed' /\ CountedVotesAreCurrent'
  BY StatusOfAllNext
<1> QED
  BY <1>3, <1>4, <1>5, <1>6, <1>7 DEF SysInv, LogsHold
-----------------------------------------------------------------------------
\* What is to be checked of a message when it is sent.
LEMMA Said ==
  /\ \A m, s : s \in bcast(m) => s[1] = m /\ s[2] \in Node
  /\ \A m, d, s : s \in unicast(m, d) => s[1] = m /\ s[2] = d
  BY DEF bcast, unicast

LEMMA SayOneA ==
  ASSUME NEW n, NEW r, NEW i, NEW d, leader_of(n, r), r <= current_round'[n],
         r = current_round'[n] => i = joined_votes'[n].first
  PROVE  truthful(one_a(n, r, i), d)'
  BY DEF truthful, one_a, leader_speaks

LEMMA SayOneB ==
  ASSUME NEW n, NEW r, NEW g, NEW d, leader_of(d, r), r <= current_round'[d],
         r = current_round'[d] => g.first = joined_votes'[d].first,
         <<n, r>> \in joined_round', tells(g, {n}, r)'
  PROVE  truthful(one_b(n, r, g), d)'
  BY DEF truthful, one_b

LEMMA SayProposal ==
  ASSUME NEW n, NEW r, NEW i, NEW v, NEW d, leader_of(n, r), r <= current_round'[n],
         <<i, r, v>> \in proposal'
  PROVE  truthful(build_proposal(n, r, i, v), d)'
  BY DEF truthful, build_proposal, leader_speaks

LEMMA SayVote ==
  ASSUME NEW n, NEW r, NEW i, NEW v, NEW d, <<n, i, r, v>> \in vote'
  PROVE  truthful(build_vote_msg(n, r, i, v), d)'
  BY DEF truthful, build_vote_msg

LEMMA SayDecision ==
  ASSUME NEW i, NEW v, NEW d, <<i, v>> \in decision'
  PROVE  truthful(build_decide_msg(i, v), d)'
  BY DEF truthful, build_decide_msg

LEMMA SayKeepAlive ==
  ASSUME NEW n, NEW r, NEW d, leader_of(n, r), r <= current_round'[n]
  PROVE  truthful(keep_alive(n, r), d)'
  BY DEF truthful, keep_alive, leader_speaks

LEMMA SayMissing ==
  ASSUME NEW n, NEW r, NEW i, NEW a, NEW d, leader_of(d, r)
  PROVE  truthful(missing(n, r, i, a), d)'
  BY DEF truthful, missing

LEMMA TellsSame ==
  ASSUME NEW g, NEW q, NEW r, tells(g, q, r), vote' = vote
  PROVE  tells(g, q, r)'
  BY DEF tells, maxvote, P!maxvote, P!not_a_vote

\* What a server reports of its own votes is all it voted for.
LEMMA OwnVotesTell ==
  ASSUME TypeOK, OwnVotes, End, NEW n \in Node, NEW b \in P!Bound, NEW r \in Round
  PROVE  tells(own_votes(n, b), {n}, r)
<1>1. PICK g \in P!Segment : g = own_votes(n, b)
  BY OwnVotesReport DEF TypeOK
<1>2. /\ g.first = b
      /\ \A i \in Inst : b <= i =>
           /\ maxvote(g, i).maxr = my_votes[n][i].maxr
           /\ maxvote(g, i).maxr # none => maxvote(g, i) = my_votes[n][i]
  BY <1>1, OwnVotesReport DEF TypeOK
<1>3. ASSUME NEW i \in Inst, g.first <= i
      PROVE  /\ maxvote(g, i).maxr # none =>
                  \E p \in {n} : <<p, i, maxvote(g, i).maxr, maxvote(g, i).maxv>> \in vote
             /\ \A w \in vote : w[1] \in {n} /\ w[2] = i /\ w[3] < r => w[3] <= maxvote(g, i).maxr
  <2>1. /\ maxvote(g, i).maxr = my_votes[n][i].maxr
        /\ maxvote(g, i).maxr # none => maxvote(g, i) = my_votes[n][i]
    BY <1>2, <1>3
  <2>2. maxvote(g, i).maxr # none =>
          <<n, i, maxvote(g, i).maxr, maxvote(g, i).maxv>> \in vote
    BY <2>1 DEF OwnVotes, OwnVotesAreCast
  <2>3. \A w \in vote : w[1] = n /\ w[2] = i => w[3] <= maxvote(g, i).maxr
    BY <2>1 DEF OwnVotes, OwnVotesAreLast
  <2> QED
    BY <2>2, <2>3
<1>4. tells(g, {n}, r)
  BY <1>3 DEF tells
<1> QED
  BY <1>1, <1>4
-----------------------------------------------------------------------------
\* The next own round.
LEMMA StartStep ==
  ASSUME SysInv, TypeOK', NEW n \in Node, start_round(n),
         UNCHANGED <<next_inst, vote_vars, log_vars, proposal_vars, decision>>
  PROVE  SysInv'
<1>0. TypeOK /\ OwnVotes /\ End
  BY DEF SysInv
<1>1. PICK r \in Round :
        /\ next_self_leader_round(n, r)
        /\ change_round(n, r, n, {n})
        /\ inst_status' = [inst_status EXCEPT ![n] = empty_status]
        /\ joined_votes' = [joined_votes EXCEPT ![n] = own_votes(n, first_undecided[n])]
        /\ sent' = sent \cup bcast(one_a(n, r, first_undecided[n]))
  BY DEF start_round
<1>2. Enters(n, r, n, {n}) /\ {n} \in SUBSET Node /\ leader_of(n, r)
  BY <1>1 DEF next_self_leader_round, Enters
<1>3. Entered(n, r, n, {n})
  BY <1>0, <1>2, EntersRound
<1>4. /\ current_round'[n] = r /\ joined'[n] = {n}
      /\ joined_round' = joined_round \cup {<<n, r>>} /\ r \in Nat
  BY <1>3 DEF Entered
<1>5. PICK b \in P!Bound : b = first_undecided[n]
  BY <1>0 DEF TypeOK, Bound
<1>6. PICK g \in P!Segment : g = own_votes(n, b)
  BY <1>0, OwnVotesReport DEF TypeOK
<1>7. g.first = b /\ b <= g.upper
  BY <1>0, <1>6, OwnVotesReport DEF TypeOK
<1>8. joined_votes'[n] = g /\ \A p \in Node : p # n => joined_votes'[p] = joined_votes[p]
  BY <1>0, <1>1, <1>5, <1>6 DEF TypeOK
<1>9. tells(g, {n}, r)'
  <2>1. tells(g, {n}, r)
    BY <1>0, <1>6, OwnVotesTell
  <2> QED
    BY <2>1, TellsSame DEF vote_vars
<1>10. JoinersOf(n)'
  <2>1. tells(joined_votes[n], joined[n], current_round[n])'
    BY <1>4, <1>8, <1>9
  <2>2. joined_votes'[n].first <= joined_votes'[n].upper
    BY <1>7, <1>8
  <2>3. \A p \in joined'[n] : <<p, current_round'[n]>> \in joined_round'
    BY <1>4
  <2> QED
    BY <2>1, <2>2, <2>3 DEF JoinersOf
<1>11. \A s \in sent' : s \in sent \/ truthful(s[1], s[2])'
  <2> SUFFICES ASSUME NEW s, s \in bcast(one_a(n, r, b))
               PROVE  truthful(s[1], s[2])'
    BY <1>1, <1>5
  <2>1. PICK d \in Node : s[1] = one_a(n, r, b) /\ s[2] = d
    BY Said
  <2>2. r <= current_round'[n] /\ b = joined_votes'[n].first
    BY <1>4, <1>7, <1>8
  <2>3. truthful(one_a(n, r, b), d)'
    BY <1>2, <2>2, SayOneA
  <2> QED
    BY <2>1, <2>3
<1> QED
  BY <1>1, <1>2, <1>8, <1>10, <1>11, EnteringStep

\* A promise to another server's round.
LEMMA OneAStep ==
  ASSUME SysInv, TypeOK', NEW n \in Node, NEW m \in Message, truthful(m, n), one_a_handler(n, m)
  PROVE  SysInv'
<1>0. TypeOK /\ OwnVotes /\ End /\ Joiners
  BY DEF SysInv
<1>1. /\ m.kind = "one_a" /\ current_round[n] < m.round
      /\ change_round(n, m.round, m.node, {})
      /\ inst_status' = [inst_status EXCEPT ![n] = empty_status]
      /\ sent' = sent \cup unicast(one_b(n, m.round, own_votes(n, m.inst)), m.node)
      /\ UNCHANGED <<leader_vars, vote_vars, log_vars, resent, asked, ticked,
                     proposal_vars, decision>>
  BY DEF one_a_handler
<1>2. PICK r \in Round, l \in Node, b \in P!Bound : r = m.round /\ l = m.node /\ b = m.inst
  BY <1>1, MessageType
<1>3. /\ leader_of(l, r) /\ r <= current_round[l]
      /\ r = current_round[l] => b = joined_votes[l].first
  BY <1>1, <1>2 DEF truthful, leader_speaks
<1>4. /\ current_round[n] < r /\ r \in Nat /\ current_round[n] \in Nat
      /\ current_round[l] \in Nat /\ {} \in SUBSET Node
  <2>1. current_round[n] \in Round /\ current_round[l] \in Round
    BY <1>0 DEF TypeOK
  <2> QED
    BY <1>1, <1>2, <2>1, Numbers
<1>5. n # l
  BY <1>3, <1>4
<1>6. Enters(n, r, l, {})
  BY <1>1, <1>2, <1>3, <1>4 DEF Enters
<1>7. Entered(n, r, l, {})
  BY <1>0, <1>4, <1>6, EntersRound
<1>8. /\ current_round'[l] = current_round[l]
      /\ joined_round' = joined_round \cup {<<n, r>>}
  BY <1>5, <1>7 DEF Entered
<1>9. PICK g \in P!Segment : g = own_votes(n, b)
  BY <1>0, OwnVotesReport DEF TypeOK
<1>10. g.first = b
  BY <1>0, <1>9, OwnVotesReport DEF TypeOK
<1>11. tells(g, {n}, r)'
  <2>1. tells(g, {n}, r)
    BY <1>0, <1>9, OwnVotesTell
  <2> QED
    BY <1>1, <2>1, TellsSame DEF vote_vars
<1>12. UNCHANGED joined_votes
  BY <1>1 DEF leader_vars
<1>13. JoinersOf(n)'
  BY <1>0, <1>5, <1>6, <1>12, JoinersOfAll, JoinersEntered
<1>14. \A s \in sent' : s \in sent \/ truthful(s[1], s[2])'
  <2> SUFFICES ASSUME NEW s, s \in unicast(one_b(n, r, g), l)
               PROVE  truthful(s[1], s[2])'
    BY <1>1, <1>2, <1>9
  <2>1. s[1] = one_b(n, r, g) /\ s[2] = l
    BY Said
  <2>2. /\ r <= current_round'[l]
        /\ r = current_round'[l] => g.first = joined_votes'[l].first
        /\ <<n, r>> \in joined_round'
    BY <1>3, <1>8, <1>10, <1>12
  <2>3. truthful(one_b(n, r, g), l)'
    BY <1>3, <1>11, <2>2, SayOneB
  <2> QED
    BY <2>1, <2>3
<1>15. UNCHANGED <<next_inst, vote_vars, log_vars, proposal_vars, decision>>
  BY <1>1 DEF leader_vars
<1> QED
  BY <1>1, <1>4, <1>6, <1>12, <1>13, <1>14, <1>15, EnteringStep

\* A keep-alive.
LEMMA KeepAliveStep ==
  ASSUME SysInv, TypeOK', NEW n \in Node, NEW m \in Message, truthful(m, n),
         keep_alive_handler(n, m)
  PROVE  SysInv'
<1>0. TypeOK /\ Joiners
  BY DEF SysInv
<1>1. /\ m.kind = "keep_alive"
      /\ UNCHANGED <<leader_vars, vote_vars, log_vars, resent, asked, ticked, sent,
                     proposal_vars, decision>>
  BY DEF keep_alive_handler
<1>2. PICK r \in Round, l \in Node : r = m.round /\ l = m.node
  BY <1>1, MessageType
<1>3. leader_of(l, r) /\ r <= current_round[l]
  BY <1>1, <1>2 DEF truthful, leader_speaks
<1>4. UNCHANGED <<next_inst, joined_votes>>
  BY <1>1 DEF leader_vars
<1>5. CASE /\ current_round[n] < m.round
           /\ change_round(n, m.round, m.node, {})
           /\ inst_status' = [inst_status EXCEPT ![n] = empty_status]
  <2>1. /\ r \in Nat /\ current_round[n] \in Nat /\ current_round[l] \in Nat
        /\ {} \in SUBSET Node
    <3>1. current_round[n] \in Round /\ current_round[l] \in Round
      BY <1>0 DEF TypeOK
    <3> QED
      BY <3>1, Numbers
  <2>2. n # l
    BY <1>2, <1>3, <1>5, <2>1
  <2>3. Enters(n, r, l, {})
    BY <1>2, <1>3, <1>5 DEF Enters
  <2>4. JoinersOf(n)'
    BY <1>0, <1>4, <2>2, <2>3, JoinersOfAll, JoinersEntered
  <2> QED
    BY <1>1, <1>4, <1>5, <2>1, <2>3, <2>4, EnteringStep
<1>6. CASE UNCHANGED <<round_vars, inst_status, started>>
  BY <1>1, <1>6, QuietStep
<1> QED
  BY <1>5, <1>6 DEF keep_alive_handler

\* What the leader of an active round may rely on when it appends.
LEMMA AppendingIsFree ==
  ASSUME SysInv, NEW n \in Node, round_active[n], next_inst[n] \in Inst
  PROVE  /\ current_round[n] \in active /\ leader_of(n, current_round[n])
         /\ <<current_round[n], next_inst[n]>> \in available
<1>1. next_inst[n] <= next_inst[n]
  <2>1. next_inst[n] \in Nat
    BY Numbers
  <2> QED
    BY <2>1
<1> QED
  BY <1>1 DEF SysInv, FreeFromNext, Leaders, LeadersAreActive

\* A client's command at the leader.
LEMMA ProposeStep ==
  ASSUME SysInv, TypeOK', NEW n \in Node, NEW v \in Command, propose(n, v)
  PROVE  SysInv'
<1>0. TypeOK /\ P!Inv /\ Rounds /\ FreeFromNext
  BY DEF SysInv
<1>1. v \in Value
  BY CommandsAssumption
<1>2. PICK r \in Round, i \in Inst : r = current_round[n] /\ i = next_inst[n]
  BY <1>0 DEF TypeOK, propose
<1>3. /\ leader_of(n, r) /\ round_active[n]
      /\ cast(n, r, i, v)
      /\ next_inst' = [next_inst EXCEPT ![n] = i + 1]
      /\ sent' = sent \cup bcast(build_proposal(n, r, i, v))
                      \cup unicast(build_vote_msg(n, r, i, v), n)
      /\ available' = available \ {<<r, i>>}
      /\ proposal' = proposal \cup {<<i, r, v>>}
      /\ UNCHANGED <<round_vars, joined_votes, log_vars, active, decision>>
  BY <1>2 DEF propose
<1>4. /\ UNCHANGED <<current_round, round_active, left_round, joined_round>>
      /\ r # none /\ vote' = vote \cup {<<n, i, r, v>>}
  BY <1>3 DEF round_vars, leader_of, cast
<1>5. r \in active /\ <<r, i>> \in available
  BY <1>2, <1>3, AppendingIsFree
<1>6. r \in Nat /\ current_round[n] <= r
  BY <1>2, Numbers
<1>7. <<n, r>> \notin left_round
  BY <1>0, <1>4, <1>6, NotLeft
<1>8. P!Inv'
  <2>1. P!TypeOK'
    BY DEF TypeOK
  <2> QED
    BY <1>0, <1>1, <1>3, <1>4, <1>5, <1>7, <2>1, GhostProposeVote
<1>9. FreeFromNext'
  <2> SUFFICES ASSUME NEW p \in Node, round_active[p], NEW j \in Inst, next_inst'[p] <= j
               PROVE  <<current_round[p], j>> \in available'
    BY <1>4 DEF FreeFromNext
  <2>1. j \in Nat /\ i \in Nat /\ i + 1 \in Nat
    BY Numbers
  <2>2. CASE p = n
    <3>1. next_inst'[n] = i + 1
      BY <1>0, <1>3 DEF TypeOK
    <3>2. i <= j /\ j # i
      BY <2>1, <2>2, <3>1
    <3>3. <<current_round[p], j>> \in available
      BY <1>0, <1>2, <2>2, <3>2 DEF FreeFromNext
    <3> QED
      BY <1>3, <3>2, <3>3
  <2>3. CASE p # n
    <3>1. next_inst'[p] = next_inst[p]
      BY <1>0, <1>3, <2>3 DEF TypeOK
    <3>2. <<current_round[p], j>> \in available
      BY <1>0, <3>1 DEF FreeFromNext
    <3>3. leader_of(p, current_round[p])
      BY DEF SysInv, Leaders, LeadersAreActive
    <3>4. current_round[p] # r
      BY <1>3, <2>3, <3>3, OneLeader
    <3> QED
      BY <1>3, <3>2, <3>4
  <2> QED
    BY <2>2, <2>3
<1>10. \A s \in sent' : s \in sent \/ truthful(s[1], s[2])'
  <2>1. <<i, r, v>> \in proposal' /\ <<n, i, r, v>> \in vote' /\ r <= current_round'[n]
    BY <1>2, <1>3, <1>4, <1>6
  <2>2. ASSUME NEW s, s \in bcast(build_proposal(n, r, i, v))
        PROVE  truthful(s[1], s[2])'
    <3>1. PICK d \in Node : s[1] = build_proposal(n, r, i, v) /\ s[2] = d
      BY <2>2, Said
    <3>2. truthful(build_proposal(n, r, i, v), d)'
      BY <1>3, <2>1, SayProposal
    <3> QED
      BY <3>1, <3>2
  <2>3. ASSUME NEW s, s \in unicast(build_vote_msg(n, r, i, v), n)
        PROVE  truthful(s[1], s[2])'
    <3>1. s[1] = build_vote_msg(n, r, i, v) /\ s[2] = n
      BY <2>3, Said
    <3>2. truthful(build_vote_msg(n, r, i, v), n)'
      BY <2>1, SayVote
    <3> QED
      BY <3>1, <3>2
  <2> QED
    BY <1>3, <2>2, <2>3
<1>11. <<i, r, v>> \in proposal' /\ proposal \subseteq proposal'
  BY <1>3
<1>12. UNCHANGED <<log_vars, decision, active, joined_votes>> /\ UNCHANGED round_vars
  BY <1>3
<1>13. n \in Node /\ r = current_round[n] /\ r # none
  BY <1>2, <1>4
<1> QED
  BY <1>1, <1>3, <1>8, <1>9, <1>10, <1>11, <1>12, <1>13, VotingStep

\* The messages a two_a may be answered with.
LEMMA TwoAStep ==
  ASSUME SysInv, TypeOK', NEW n \in Node, NEW m \in Message, truthful(m, n), two_a_handler(n, m)
  PROVE  SysInv'
<1>0. TypeOK /\ P!Inv /\ Rounds /\ Leaders /\ Joiners /\ FreeFromNext
  BY DEF SysInv
<1> DEFINE hole == IF first_undecided[n] < m.inst THEN ask_for_retransmission(n, m.inst) ELSE {}
           reply == IF m.node # n
                    THEN unicast(build_decide_msg(m.inst, my_log[n][m.inst].decision), m.node)
                    ELSE {}
<1>1. /\ m.kind = "two_a" /\ current_round[n] <= m.round /\ enter_round(n, m)
      /\ \/ /\ cast(n, m.round, m.inst, m.value)
            /\ sent' = sent \cup hole
                   \cup unicast(build_vote_msg(n, m.round, m.inst, m.value), m.node)
         \/ /\ is_decided(n, m.inst)
            /\ inst_status' = [inst_status EXCEPT ![n] = status_in(n, m.round)]
            /\ sent' = sent \cup hole \cup reply
            /\ UNCHANGED vote_vars
      /\ UNCHANGED <<leader_vars, log_vars, proposal_vars, decision>>
  BY DEF two_a_handler
<1>2. PICK r \in Round, l \in Node, i \in Inst, v \in Value :
         r = m.round /\ l = m.node /\ i = m.inst /\ v = m.value
  BY <1>1, MessageType
<1>3. leader_of(l, r) /\ r <= current_round[l] /\ <<i, r, v>> \in proposal
  BY <1>1, <1>2 DEF truthful, leader_speaks
<1>4. /\ r \in Nat /\ current_round[n] \in Nat /\ current_round[l] \in Nat
      /\ r # none /\ {} \in SUBSET Node
  <2>1. current_round[n] \in Round /\ current_round[l] \in Round
    BY <1>0 DEF TypeOK
  <2> QED
    BY <1>3, <2>1, Numbers DEF leader_of
<1>5. \/ Enters(n, r, l, {}) /\ n # l
      \/ UNCHANGED round_vars /\ current_round[n] = r
  <2>1. CASE current_round[n] < m.round /\ change_round(n, m.round, m.node, {})
    BY <1>2, <1>3, <1>4, <2>1 DEF Enters
  <2>2. CASE current_round[n] >= m.round /\ UNCHANGED round_vars
    <3>1. current_round[n] = r
      BY <1>1, <1>2, <1>4, <2>2
    <3> QED
      BY <2>2, <3>1
  <2> QED
    BY <1>1, <2>1, <2>2 DEF enter_round
<1>6. current_round'[n] = r /\ leader_of(current_leader'[n], r)
  <2>1. CASE Enters(n, r, l, {})
    <3>1. Entered(n, r, l, {})
      BY <1>0, <1>4, <2>1, EntersRound
    <3> QED
      BY <1>3, <3>1 DEF Entered
  <2>2. CASE UNCHANGED round_vars /\ current_round[n] = r
    BY <1>0, <1>4, <2>2 DEF round_vars, Leaders, LeaderIsFollowed
  <2> QED
    BY <1>5, <2>1, <2>2
<1>7. ASSUME NEW s, s \in hole
      PROVE  truthful(s[1], s[2])'
  <2>1. PICK a, d : d = current_leader'[n] /\ s \in unicast(missing(n, r, i, a), d)
    BY <1>2, <1>6, <1>7 DEF ask_for_retransmission
  <2>2. s[1] = missing(n, r, i, a) /\ s[2] = d
    BY <2>1, Said
  <2>3. truthful(missing(n, r, i, a), d)'
    BY <1>6, <2>1, SayMissing
  <2> QED
    BY <2>2, <2>3
<1> HIDE DEF hole
<1>8. UNCHANGED <<next_inst, joined_votes, available, active, proposal>>
  BY <1>1 DEF leader_vars, proposal_vars
<1>9. CASE /\ cast(n, m.round, m.inst, m.value)
           /\ sent' = sent \cup hole
                   \cup unicast(build_vote_msg(n, m.round, m.inst, m.value), m.node)
  <2>1. cast(n, r, i, v) /\ vote' = vote \cup {<<n, i, r, v>>}
    BY <1>2, <1>9 DEF cast
  <2>2. FreeFromNext'
    <3>1. CASE Enters(n, r, l, {})
      <4>1. Entered(n, r, l, {})
        BY <1>0, <1>4, <3>1, EntersRound
      <4>2. \A p \in Node : /\ current_round'[p] = (IF p = n THEN r ELSE current_round[p])
                            /\ round_active'[p] = (IF p = n THEN FALSE ELSE round_active[p])
        BY <4>1 DEF Entered
      <4> QED
        BY <1>0, <1>8, <4>2 DEF FreeFromNext
    <3>2. CASE UNCHANGED round_vars
      BY <1>0, <1>8, <3>2, FreeSame DEF round_vars
    <3> QED
      BY <1>5, <3>1, <3>2
  <2>3. P!Inv'
    <3>1. P!TypeOK'
      BY DEF TypeOK
    <3>2. <<n, r>> \notin left_round
      <4>1. current_round[n] <= r
        BY <1>1, <1>2
      <4> QED
        BY <1>0, <1>4, <4>1, NotLeft
    <3>3. \/ UNCHANGED <<left_round, joined_round>>
          \/ /\ left_round' = left_round \cup {<<n, R>> : R \in {R \in Round : R < r}}
             /\ joined_round' = joined_round \cup {<<n, r>>}
      <4>1. CASE Enters(n, r, l, {})
        BY <4>1 DEF Enters, change_round
      <4>2. CASE UNCHANGED round_vars
        BY <4>2 DEF round_vars
      <4> QED
        BY <1>5, <4>1, <4>2
    <3>4. \E j \in Inst, u \in Value : <<j, r, u>> \in proposal /\ vote' = vote \cup {<<n, j, r, u>>}
      BY <1>3, <2>1
    <3> QED
      BY <1>0, <1>1, <1>4, <1>8, <3>1, <3>2, <3>3, <3>4, GhostJoinVote
  <2>4. \A s \in sent' : s \in sent \/ truthful(s[1], s[2])'
    <3>1. ASSUME NEW s, s \in unicast(build_vote_msg(n, r, i, v), l)
          PROVE  truthful(s[1], s[2])'
      <4>1. s[1] = build_vote_msg(n, r, i, v) /\ s[2] = l
        BY <3>1, Said
      <4>2. <<n, i, r, v>> \in vote'
        BY <2>1
      <4>3. truthful(build_vote_msg(n, r, i, v), l)'
        BY <4>2, SayVote
      <4> QED
        BY <4>1, <4>3
    <3> QED
      BY <1>2, <1>7, <1>9, <3>1
  <2>5. <<i, r, v>> \in proposal' /\ proposal \subseteq proposal'
    BY <1>3, <1>8
  <2>6. UNCHANGED <<log_vars, decision, active, joined_votes>>
    BY <1>1, <1>8
  <2> QED
    BY <1>4, <1>5, <2>1, <2>2, <2>3, <2>4, <2>5, <2>6, VotingStep
<1>10. CASE /\ is_decided(n, m.inst)
            /\ inst_status' = [inst_status EXCEPT ![n] = status_in(n, m.round)]
            /\ sent' = sent \cup hole \cup reply
            /\ UNCHANGED vote_vars
  <2>1. \A s \in sent' : s \in sent \/ truthful(s[1], s[2])'
    <3>1. ASSUME NEW s, s \in reply
          PROVE  truthful(s[1], s[2])'
      <4>1. PICK u : u = my_log[n][i].decision
        OBVIOUS
      <4>2. s \in unicast(build_decide_msg(i, u), l)
        BY <1>2, <3>1, <4>1
      <4>3. s[1] = build_decide_msg(i, u) /\ s[2] = l
        BY <4>2, Said
      <4>4. <<i, u>> \in decision
        BY <1>2, <1>10, <4>1 DEF SysInv, LogsAreDecided, is_decided
      <4>5. <<i, u>> \in decision'
        BY <1>1, <4>4
      <4>6. truthful(build_decide_msg(i, u), l)'
        BY <4>5, SayDecision
      <4> QED
        BY <4>3, <4>6
    <3> HIDE DEF reply
    <3> QED
      BY <1>7, <1>10, <3>1
  <2>2. CASE Enters(n, r, l, {}) /\ n # l
    <3>1. inst_status' = [inst_status EXCEPT ![n] = empty_status]
      <4>1. current_round[n] < r
        BY <2>2 DEF Enters
      <4> QED
        BY <1>2, <1>10, <4>1 DEF status_in
    <3>2. JoinersOf(n)'
      BY <1>0, <1>8, <2>2, JoinersOfAll, JoinersEntered
    <3>3. UNCHANGED <<next_inst, vote_vars, log_vars, proposal_vars, decision>>
      BY <1>1, <1>8, <1>10
    <3> QED
      BY <1>4, <1>8, <2>1, <2>2, <3>1, <3>2, <3>3, EnteringStep
  <2>3. CASE UNCHANGED round_vars /\ current_round[n] = r
    <3>1. ~(current_round[n] < r)
      BY <1>4, <2>3
    <3>2. inst_status' = [inst_status EXCEPT ![n] = inst_status[n]]
      BY <1>2, <1>10, <3>1 DEF status_in
    <3>3. inst_status' = inst_status
      BY <1>0, <3>2 DEF TypeOK
    <3> QED
      BY <1>1, <1>10, <2>1, <2>3, <3>3, QuietStep
  <2> QED
    BY <1>5, <2>2, <2>3
<1> QED
  BY <1>1, <1>9, <1>10

\* A vote that reaches the leader and counts.
LEMMA CountedStatus ==
  ASSUME TypeOK, P!Inv, UNCHANGED <<current_round, proposal, vote>>,
         NEW n \in Node, StatusOf(n), NEW q \in Node, NEW i \in Inst, NEW v \in Value,
         <<q, i, current_round[n], v>> \in vote, inst_status[n][i].active,
         NEW dec,
         inst_status' = [inst_status EXCEPT ![n][i] =
            [inst_status[n][i] EXCEPT !.voters = inst_status[n][i].voters \cup {q},
                                      !.proposal = v, !.decided = dec]]
  PROVE  StatusOf(n)' /\ \A p \in inst_status'[n][i].voters : <<p, i, current_round[n], v>> \in vote
<1>1. PICK r \in Round : r = current_round[n]
  BY DEF TypeOK
<1>2. PICK s \in [active : BOOLEAN, voters : SUBSET Node, proposal : Value, decided : BOOLEAN] :
         s = inst_status[n][i]
  BY DEF TypeOK, ballot_status_array
<1>3. <<i, r, v>> \in proposal
  BY <1>1 DEF P!Inv, P!VotedIsProposed
<1>4. s.proposal = v
  <2>1. <<i, r, s.proposal>> \in proposal /\ s.proposal \in Value
    BY <1>1, <1>2 DEF StatusOf
  <2>2. PICK u \in Value : u = s.proposal
    BY <2>1
  <2>3. u = v
    BY <1>3, <2>1, <2>2 DEF P!Inv, P!OneProposalPerRound
  <2> QED
    BY <2>2, <2>3
<1>5. /\ inst_status'[n][i] = [s EXCEPT !.voters = s.voters \cup {q}, !.proposal = v,
                                        !.decided = dec]
      /\ \A j \in Inst : j # i => inst_status'[n][j] = inst_status[n][j]
  BY <1>2 DEF TypeOK, ballot_status_array
<1>6. inst_status'[n][i].voters = s.voters \cup {q} /\ inst_status'[n][i].proposal = v
  <2>1. PICK V : V = s.voters \cup {q}
    OBVIOUS
  <2>2. /\ [s EXCEPT !.voters = V, !.proposal = v, !.decided = dec].voters = V
        /\ [s EXCEPT !.voters = V, !.proposal = v, !.decided = dec].proposal = v
    BY <1>2
  <2> QED
    BY <1>5, <2>1, <2>2
<1>7. \A p \in s.voters : <<p, i, r, v>> \in vote
  BY <1>1, <1>2, <1>4 DEF StatusOf
<1>8. \A p \in inst_status'[n][i].voters : <<p, i, r, v>> \in vote
  BY <1>1, <1>6, <1>7
<1>9. \A j \in Inst : /\ inst_status'[n][j].active => <<j, r, inst_status'[n][j].proposal>> \in proposal
                      /\ \A p \in inst_status'[n][j].voters :
                            <<p, j, r, inst_status'[n][j].proposal>> \in vote
  <2> TAKE j \in Inst
  <2>1. CASE j = i
    BY <1>3, <1>6, <1>8, <2>1
  <2>2. CASE j # i
    BY <1>1, <1>5, <2>2 DEF StatusOf
  <2> QED
    BY <2>1, <2>2
<1> QED
  BY <1>1, <1>8, <1>9 DEF StatusOf

LEMMA TwoBStep ==
  ASSUME SysInv, TypeOK', NEW n \in Node, NEW m \in Message, truthful(m, n), two_b_handler(n, m)
  PROVE  SysInv'
<1>0. /\ TypeOK /\ P!Inv /\ End /\ LogsHold
      /\ \A p \in Node : StatusOf(p)
  BY StatusOfAll DEF SysInv, LogsHold
<1>1. PICK q \in Node, i \in Inst, v \in Value : q = m.node /\ i = m.inst /\ v = m.value
  BY MessageType DEF two_b_handler
<1> DEFINE voters == inst_status[n][i].voters \cup {q}
<1>2. /\ m.kind = "two_b" /\ m.round = current_round[n]
      /\ inst_status[n][i].active
      /\ inst_status' = [inst_status EXCEPT ![n][i] =
            [inst_status[n][i] EXCEPT !.voters = voters, !.proposal = v,
                                      !.decided = majority(voters)]]
      /\ \/ /\ majority(voters)
            /\ learn(n, i, v)
            /\ sent' = sent \cup bcast(build_decide_msg(i, v))
            /\ decision' = decision \cup {<<i, v>>}
         \/ /\ ~majority(voters)
            /\ UNCHANGED <<log_vars, sent, decision>>
      /\ UNCHANGED <<round_vars, leader_vars, vote_vars, timer_vars, proposal_vars>>
  BY <1>1 DEF two_b_handler
<1>3. <<q, i, current_round[n], v>> \in vote
  BY <1>1, <1>2 DEF truthful
<1>4. UNCHANGED <<current_round, my_votes, left_round, joined_round, proposal, vote, active, available>>
  BY <1>2 DEF round_vars, vote_vars, proposal_vars
<1>5. /\ StatusOf(n)'
      /\ \A p \in inst_status'[n][i].voters : <<p, i, current_round[n], v>> \in vote
  <2>1. PICK dec : dec = majority(voters)
    OBVIOUS
  <2> QED
    BY <1>0, <1>2, <1>3, <1>4, <2>1, CountedStatus
<1>6. inst_status'[n][i].voters = voters /\ voters \subseteq Node
  <2>1. PICK s \in [active : BOOLEAN, voters : SUBSET Node, proposal : Value, decided : BOOLEAN] :
           s = inst_status[n][i]
    BY <1>0 DEF TypeOK, ballot_status_array
  <2>2. inst_status'[n][i] = [s EXCEPT !.voters = voters, !.proposal = v,
                                       !.decided = majority(voters)]
    BY <1>0, <1>2, <2>1 DEF TypeOK, ballot_status_array
  <2> HIDE DEF voters
  <2>3. inst_status'[n][i].voters = voters
    BY <2>1, <2>2
  <2>4. voters \subseteq Node
    BY <2>1 DEF voters
  <2> QED
    BY <2>3, <2>4
<1> HIDE DEF voters
<1>7. \A p \in Node : StatusOf(p)'
  <2> SUFFICES ASSUME NEW p \in Node, p # n
               PROVE  StatusOf(p)'
    BY <1>5
  <2>1. inst_status'[p] = inst_status[p]
    BY <1>0, <1>2 DEF TypeOK
  <2> QED
    BY <1>0, <1>4, <2>1 DEF StatusOf
<1>8. End'
  <2>1. CASE learn(n, i, v)
    <3>1. \A p \in Node, j \in Inst :
            my_log'[p][j] = IF p = n /\ j = i THEN [present |-> TRUE, decision |-> v]
                            ELSE my_log[p][j]
      BY <1>0, <2>1, LearnMoves, LearnedLog
    <3>2. \A p \in Node, j \in Inst : j # i =>
            my_votes'[p][j] = my_votes[p][j] /\ my_log'[p][j] = my_log[p][j]
      BY <1>4, <3>1
    <3> QED
      BY <1>0, <3>2, EndKept
  <2>2. CASE UNCHANGED log_vars
    BY <1>0, <1>4, <2>2, EndSame DEF log_vars
  <2> QED
    BY <1>2, <2>1, <2>2
<1>9. CASE /\ majority(voters)
           /\ learn(n, i, v)
           /\ sent' = sent \cup bcast(build_decide_msg(i, v))
           /\ decision' = decision \cup {<<i, v>>}
  <2>1. P!Inv'
    <3>1. PICK r \in Round, Q \in Majorities : r = current_round[n] /\ Q = voters
      BY <1>0, <1>6, <1>9 DEF TypeOK, Majorities
    <3>2. \A p \in Q : <<p, i, r, v>> \in vote
      BY <1>5, <1>6, <3>1
    <3>3. r # none
      BY <1>0, <1>3, <3>1 DEF P!Inv, P!NoneIsReserved, P!none, none
    <3>4. P!decide(i, r, v, Q)
      BY <1>4, <1>9, <3>2, <3>3 DEF P!decide, P!none, none
    <3>5. P!TypeOK'
      BY DEF TypeOK
    <3> QED
      BY <1>0, <3>4, <3>5, GhostDecide
  <2>2. LogsHold'
    BY <1>0, <1>9, LogsLearned
  <2>3. \A s \in sent' : s \in sent \/ truthful(s[1], s[2])'
    <3> SUFFICES ASSUME NEW s, s \in bcast(build_decide_msg(i, v))
                 PROVE  truthful(s[1], s[2])'
      BY <1>9
    <3>1. PICK d \in Node : s[1] = build_decide_msg(i, v) /\ s[2] = d
      BY Said
    <3>2. truthful(build_decide_msg(i, v), d)'
      BY <1>9, SayDecision
    <3> QED
      BY <3>1, <3>2
  <2>4. decision \subseteq decision'
    BY <1>9
  <2> QED
    BY <1>2, <1>7, <1>8, <2>1, <2>2, <2>3, <2>4, LearningStep
<1>10. CASE UNCHANGED <<log_vars, sent, decision>>
  <2>1. P!Inv'
    BY <1>0, <1>4, <1>10, GhostStutter
  <2>2. LogsHold'
    BY <1>0, <1>10, LogsKept
  <2> QED
    BY <1>2, <1>7, <1>8, <1>10, <2>1, <2>2, LearningStep
<1> QED
  BY <1>2, <1>9, <1>10

LEMMA DecideStep ==
  ASSUME SysInv, TypeOK', NEW n \in Node, NEW m \in Message, truthful(m, n), decide_handler(n, m)
  PROVE  SysInv'
<1>0. /\ TypeOK /\ P!Inv /\ End /\ LogsHold
      /\ \A p \in Node : StatusOf(p)
  BY StatusOfAll DEF SysInv, LogsHold
<1>1. PICK i \in Inst, v \in Value : i = m.inst /\ v = m.value
  BY MessageType DEF decide_handler
<1>2. /\ m.kind = "decide"
      /\ learn(n, i, v)
      /\ inst_status' = [inst_status EXCEPT ![n][i].decided = TRUE]
      /\ UNCHANGED <<round_vars, leader_vars, vote_vars, timer_vars, sent, proposal_vars,
                     decision>>
  BY <1>1 DEF decide_handler
<1>3. <<i, v>> \in decision
  BY <1>1, <1>2 DEF truthful
<1>4. UNCHANGED <<current_round, my_votes, left_round, joined_round, proposal, vote, active, available,
                  decision, sent>>
  BY <1>2 DEF round_vars, vote_vars, proposal_vars
<1>5. \A p \in Node : StatusOf(p)'
  <2> TAKE p \in Node
  <2>1. \A j \in Inst : /\ inst_status'[p][j].active = inst_status[p][j].active
                        /\ inst_status'[p][j].voters = inst_status[p][j].voters
                        /\ inst_status'[p][j].proposal = inst_status[p][j].proposal
    BY <1>0, <1>2 DEF TypeOK, ballot_status_array
  <2> QED
    BY <1>0, <1>4, <2>1 DEF StatusOf
<1>6. End'
  <2>1. \A p \in Node, j \in Inst :
          my_log'[p][j] = IF p = n /\ j = i THEN [present |-> TRUE, decision |-> v]
                          ELSE my_log[p][j]
    BY <1>0, <1>2, LearnMoves, LearnedLog
  <2>2. \A p \in Node, j \in Inst : j # i =>
          my_votes'[p][j] = my_votes[p][j] /\ my_log'[p][j] = my_log[p][j]
    BY <1>4, <2>1
  <2> QED
    BY <1>0, <2>2, EndKept
<1>7. P!Inv'
  BY <1>0, <1>4, GhostStutter
<1>8. LogsHold'
  BY <1>0, <1>2, <1>3, <1>4, LogsLearned
<1> QED
  BY <1>2, <1>4, <1>5, <1>6, <1>7, <1>8, LearningStep

\* A request for a retransmission.
LEMMA MissingStep ==
  ASSUME SysInv, TypeOK', NEW n \in Node, NEW m \in Message,
         missing_two_a_handler(n, m) \/ missing_decision_handler(n, m)
  PROVE  SysInv'
<1>0. TypeOK /\ LogsAreDecided /\ StatusIsProposed
  BY DEF SysInv
<1>1. /\ answers(n, m)
      /\ send_decision(n, m) \/ resend_proposal(n, m)
      /\ UNCHANGED <<round_vars, leader_vars, vote_vars, inst_status, log_vars, proposal_vars,
                     decision>>
  BY DEF missing_two_a_handler, missing_decision_handler
<1>2. PICK r \in Round, l \in Node, i \in Inst : r = m.round /\ l = m.node /\ i = m.inst
  BY MessageType DEF missing_two_a_handler, missing_decision_handler
<1>3. r = current_round[n] /\ leader_of(n, r)
  BY <1>1, <1>2 DEF answers
<1>4. UNCHANGED <<current_round, proposal, decision>>
  BY <1>1 DEF round_vars, proposal_vars
<1>5. \A s \in sent' : s \in sent \/ truthful(s[1], s[2])'
  <2>1. CASE send_decision(n, m)
    <3>1. PICK u : u = my_log[n][i].decision
      OBVIOUS
    <3>2. sent' = sent \cup unicast(build_decide_msg(i, u), l) /\ <<i, u>> \in decision
      BY <1>0, <1>2, <2>1, <3>1 DEF send_decision, is_decided, LogsAreDecided
    <3>3. truthful(build_decide_msg(i, u), l)'
      BY <1>4, <3>2, SayDecision
    <3>4. ASSUME NEW s, s \in unicast(build_decide_msg(i, u), l)
          PROVE  truthful(s[1], s[2])'
      <4>1. s[1] = build_decide_msg(i, u) /\ s[2] = l
        BY <3>4, Said
      <4> QED
        BY <3>3, <4>1
    <3> QED
      BY <3>2, <3>4
  <2>2. CASE resend_proposal(n, m)
    <3>1. PICK u : u = inst_status[n][i].proposal
      OBVIOUS
    <3>2. sent' = sent \cup unicast(build_proposal(n, r, i, u), l) /\ <<i, r, u>> \in proposal
      BY <1>0, <1>2, <1>3, <2>2, <3>1 DEF resend_proposal, StatusIsProposed
    <3>3. r <= current_round'[n]
      <4>1. r \in Nat
        BY Numbers
      <4> QED
        BY <1>3, <1>4, <4>1
    <3>4. truthful(build_proposal(n, r, i, u), l)'
      BY <1>3, <1>4, <3>2, <3>3, SayProposal
    <3>5. ASSUME NEW s, s \in unicast(build_proposal(n, r, i, u), l)
          PROVE  truthful(s[1], s[2])'
      <4>1. s[1] = build_proposal(n, r, i, u) /\ s[2] = l
        BY <3>5, Said
      <4> QED
        BY <3>4, <4>1
    <3> QED
      BY <3>2, <3>5
  <2> QED
    BY <1>1, <2>1, <2>2
<1> QED
  BY <1>1, <1>5, QuietStep

\* The timer of a server that does not start a round.
LEMMA TickStep ==
  ASSUME SysInv, TypeOK', NEW n \in Node, catches_up(n) \/ awaits_votes(n) \/ leads(n),
         UNCHANGED <<round_vars, joined_votes, inst_status>>,
         UNCHANGED <<next_inst, vote_vars, log_vars, proposal_vars, decision>>
  PROVE  SysInv'
<1>0. TypeOK /\ LeaderIsFollowed /\ StatusIsProposed
  BY DEF SysInv, Leaders
<1>1. PICK r \in Round : r = current_round[n]
  BY <1>0 DEF TypeOK
<1>2. UNCHANGED <<round_vars, leader_vars, vote_vars, inst_status, log_vars, proposal_vars,
                  decision>>
  BY DEF leader_vars
<1>3. UNCHANGED <<current_round, proposal>> /\ r <= current_round'[n]
  <2>1. r \in Nat
    BY Numbers
  <2> QED
    BY <1>1, <1>2, <2>1 DEF round_vars, proposal_vars
<1>4. \A s \in sent' : s \in sent \/ truthful(s[1], s[2])'
  <2>1. CASE catches_up(n)
    <3>1. PICK d : d = current_leader[n]
      OBVIOUS
    <3>2. leader_of(d, r)
      BY <1>0, <1>1, <2>1, <3>1 DEF catches_up, gives_up, LeaderIsFollowed, none
    <3>3. ASSUME NEW s \in sent', s \notin sent
          PROVE  \E i, a : s \in unicast(missing(n, r, i, a), d)
      <4>1. s \in UNION {unicast(missing(n, r, i, inst_status[n][i].active), d) :
                     i \in {i \in undecided_below(n, votes_end(n)) : due(asked[n], i)}}
        BY <1>1, <2>1, <3>1, <3>3 DEF catches_up
      <4> QED
        BY <4>1
    <3>4. ASSUME NEW s \in sent', s \notin sent
          PROVE  truthful(s[1], s[2])'
      <4>1. PICK i, a : s \in unicast(missing(n, r, i, a), d)
        BY <3>3, <3>4
      <4>2. s[1] = missing(n, r, i, a) /\ s[2] = d
        BY <4>1, Said
      <4>3. truthful(missing(n, r, i, a), d)'
        BY <3>2, SayMissing
      <4> QED
        BY <4>2, <4>3
    <3> QED
      BY <3>4
  <2>2. CASE awaits_votes(n)
    BY <2>2 DEF awaits_votes
  <2>3. CASE leads(n)
    <3>1. leader_of(n, r)
      BY <1>1, <2>3 DEF leads
    <3>2. ASSUME NEW s \in sent', s \notin sent
          PROVE  \/ s \in bcast(keep_alive(n, r))
                 \/ \E i \in Inst : /\ inst_status[n][i].active
                                    /\ s \in bcast(build_proposal(n, r, i, inst_status[n][i].proposal))
      <4>1. \/ s \in bcast(keep_alive(n, r))
            \/ s \in UNION {bcast(build_proposal(n, r, i, inst_status[n][i].proposal)) :
                  i \in {i \in Inst : /\ first_undecided[n] <= i
                                     /\ ~is_decided(n, i)
                                     /\ inst_status[n][i].active
                                     /\ due(resent[n], i)}}
        BY <1>1, <2>3, <3>2 DEF leads
      <4> QED
        BY <4>1
    <3>3. ASSUME NEW s \in sent', s \notin sent
          PROVE  truthful(s[1], s[2])'
      <4>1. CASE s \in bcast(keep_alive(n, r))
        <5>1. PICK d \in Node : s[1] = keep_alive(n, r) /\ s[2] = d
          BY <4>1, Said
        <5>2. truthful(keep_alive(n, r), d)'
          BY <1>3, <3>1, SayKeepAlive
        <5> QED
          BY <5>1, <5>2
      <4>2. CASE \E i \in Inst :
                   /\ inst_status[n][i].active
                   /\ s \in bcast(build_proposal(n, r, i, inst_status[n][i].proposal))
        <5>1. PICK i \in Inst :
                   /\ inst_status[n][i].active
                   /\ s \in bcast(build_proposal(n, r, i, inst_status[n][i].proposal))
          BY <4>2
        <5>2. PICK u : u = inst_status[n][i].proposal
          OBVIOUS
        <5>3. <<i, r, u>> \in proposal'
          BY <1>0, <1>1, <1>3, <5>1, <5>2 DEF StatusIsProposed
        <5>4. PICK d \in Node : s[1] = build_proposal(n, r, i, u) /\ s[2] = d
          BY <5>1, <5>2, Said
        <5>5. truthful(build_proposal(n, r, i, u), d)'
          BY <1>3, <3>1, <5>3, SayProposal
        <5> QED
          BY <5>4, <5>5
      <4> QED
        BY <3>2, <3>3, <4>1, <4>2
    <3> QED
      BY <3>3
  <2> QED
    BY <2>1, <2>2, <2>3
<1> QED
  BY <1>2, <1>4, QuietStep

\* A promise arrives.  The leader merges the votes it carries into those it has.
Merges(n, m) ==
    /\ m.kind = "one_b"
    /\ current_round[n] = m.round
    /\ ~round_active[n]
    /\ joined' = [joined EXCEPT ![n] = joined[n] \cup {m.node}]
    /\ joined_votes' = [joined_votes EXCEPT ![n] = zip_max(joined_votes[n], m.votemap)]
    /\ UNCHANGED <<current_round, joined_round, vote>>

LEMMA MergedVotes ==
  ASSUME SysInv, NEW n \in Node, NEW m \in Message, truthful(m, n), Merges(n, m)
  PROVE  /\ JoinersOf(n)'
         /\ joined_votes'[n].first = joined_votes[n].first
         /\ joined_votes'[n] \in P!Segment
         /\ leader_of(n, m.round) /\ m.round \in Round /\ m.round = current_round[n]
         /\ \A p \in Node : p # n => joined_votes'[p] = joined_votes[p] /\ joined'[p] = joined[p]
<1>0. TypeOK /\ Joiners
  BY DEF SysInv
<1>1. PICK r \in Round, q \in Node, g \in P!Segment :
         r = m.round /\ q = m.node /\ g = m.votemap
  BY MessageType DEF Merges
<1>2. PICK h \in P!Segment, J \in SUBSET Node : h = joined_votes[n] /\ J = joined[n]
  BY <1>0 DEF TypeOK
<1>3. /\ r = current_round[n]
      /\ joined'[n] = J \cup {q} /\ joined_votes'[n] = zip_max(h, g)
      /\ \A p \in Node : p # n => joined_votes'[p] = joined_votes[p] /\ joined'[p] = joined[p]
      /\ UNCHANGED <<current_round, joined_round, vote>>
  BY <1>0, <1>1, <1>2 DEF Merges, TypeOK
<1>4. /\ leader_of(n, r) /\ g.first = h.first
      /\ <<q, r>> \in joined_round /\ tells(g, {q}, r)
  BY <1>1, <1>2, <1>3 DEF truthful, Merges
<1>5. /\ \A p \in J : <<p, r>> \in joined_round
      /\ tells(h, J, r)
      /\ h.first <= h.upper
  <2>1. JoinersOf(n)
    BY <1>0, JoinersOfAll
  <2> QED
    BY <1>2, <1>3, <1>4, <2>1 DEF JoinersOf
<1>6. PICK z \in P!Segment : z = zip_max(h, g)
  BY ZipMax
<1>7. /\ z.first = h.first /\ h.upper <= z.upper
      /\ \A i \in Inst : h.first <= i =>
           /\ maxvote(z, i) \in {maxvote(h, i), maxvote(g, i)}
           /\ maxvote(h, i).maxr <= maxvote(z, i).maxr
           /\ maxvote(g, i).maxr <= maxvote(z, i).maxr
  BY <1>6, ZipMax
<1>8. tells(z, J \cup {q}, r)
  <2> SUFFICES ASSUME NEW i \in Inst, z.first <= i
               PROVE  /\ maxvote(z, i).maxr # none =>
                           \E p \in J \cup {q} :
                              <<p, i, maxvote(z, i).maxr, maxvote(z, i).maxv>> \in vote
                      /\ \A w \in vote : w[1] \in J \cup {q} /\ w[2] = i /\ w[3] < r
                                            => w[3] <= maxvote(z, i).maxr
    BY DEF tells
  <2>1. /\ maxvote(z, i) \in {maxvote(h, i), maxvote(g, i)}
        /\ maxvote(h, i).maxr <= maxvote(z, i).maxr
        /\ maxvote(g, i).maxr <= maxvote(z, i).maxr
    BY <1>7
  <2>2. /\ maxvote(h, i).maxr # none =>
             \E p \in J : <<p, i, maxvote(h, i).maxr, maxvote(h, i).maxv>> \in vote
        /\ \A w \in vote : w[1] \in J /\ w[2] = i /\ w[3] < r => w[3] <= maxvote(h, i).maxr
    BY <1>5, <1>7 DEF tells
  <2>3. /\ maxvote(g, i).maxr # none =>
             \E p \in {q} : <<p, i, maxvote(g, i).maxr, maxvote(g, i).maxv>> \in vote
        /\ \A w \in vote : w[1] \in {q} /\ w[2] = i /\ w[3] < r => w[3] <= maxvote(g, i).maxr
    BY <1>4, <1>7 DEF tells
  <2>4. maxvote(z, i).maxr \in Nat /\ maxvote(h, i).maxr \in Nat /\ maxvote(g, i).maxr \in Nat
    <3>1. maxvote(z, i) \in P!Vote /\ maxvote(h, i) \in P!Vote /\ maxvote(g, i) \in P!Vote
      BY MaxvoteIsVote
    <3> QED
      BY <3>1, Numbers DEF P!Vote
  <2>5. ASSUME maxvote(z, i).maxr # none
        PROVE  \E p \in J \cup {q} : <<p, i, maxvote(z, i).maxr, maxvote(z, i).maxv>> \in vote
    <3>1. CASE maxvote(z, i) = maxvote(h, i)
      BY <2>2, <2>5, <3>1
    <3>2. CASE maxvote(z, i) = maxvote(g, i)
      BY <2>3, <2>5, <3>2
    <3> QED
      BY <2>1, <3>1, <3>2
  <2>6. ASSUME NEW w \in vote, w[1] \in J \cup {q}, w[2] = i, w[3] < r
        PROVE  w[3] <= maxvote(z, i).maxr
    <3>1. w[3] \in Nat
      BY <1>0, Numbers DEF TypeOK, P!TypeOK
    <3>2. w[3] <= maxvote(h, i).maxr \/ w[3] <= maxvote(g, i).maxr
      BY <2>2, <2>3, <2>6
    <3> QED
      BY <2>1, <2>4, <3>1, <3>2
  <2> QED
    BY <2>5, <2>6
<1>9. tells(z, J \cup {q}, r)'
  BY <1>3, <1>8, TellsSame
<1>10. JoinersOf(n)'
  <2>1. tells(joined_votes[n], joined[n], current_round[n])'
    <3>1. z = joined_votes'[n] /\ J \cup {q} = joined'[n] /\ r = current_round'[n]
      BY <1>3, <1>6
    <3> QED
      BY <1>9, <3>1
  <2>2. joined_votes'[n].first <= joined_votes'[n].upper
    <3>1. h.first \in Nat /\ h.upper \in Nat /\ z.upper \in Nat
      BY SegmentHas, Numbers
    <3>2. z.first <= z.upper
      BY <1>5, <1>7, <3>1
    <3> QED
      BY <1>3, <1>6, <3>2
  <2>3. \A p \in joined'[n] : <<p, current_round'[n]>> \in joined_round'
    BY <1>3, <1>4, <1>5
  <2> QED
    BY <2>1, <2>2, <2>3 DEF JoinersOf
<1> QED
  BY <1>1, <1>2, <1>3, <1>4, <1>6, <1>7, <1>10

\* With the promises of a majority the leader may activate its round.
LEMMA ActivationIsAllowed ==
  ASSUME SysInv, NEW n \in Node, NEW m \in Message, truthful(m, n), Merges(n, m),
         majority(joined'[n]), activate(n, m.round), UNCHANGED <<left_round, decision>>,
         NEW r \in Round, NEW Q \in SUBSET Node, NEW z \in P!Segment,
         r = m.round, Q = joined'[n], z = joined_votes'[n]
  PROVE  Q \in Majorities /\ P!receive_join_acks(r, Q, z)
<1>0. /\ TypeOK /\ P!Inv /\ Leaders
      /\ UNCHANGED <<current_round, joined_round, vote>>
      /\ ~round_active[n] /\ r = current_round[n]
  BY DEF SysInv, Merges
<1>1. leader_of(n, r) /\ JoinersOf(n)'
  BY MergedVotes
<1>2. /\ \A p \in Q : <<p, r>> \in joined_round
      /\ tells(z, Q, r)'
      /\ z.first <= z.upper
  <2>1. /\ \A p \in joined'[n] : <<p, current_round'[n]>> \in joined_round'
        /\ leader_of(n, current_round'[n]) =>
              tells(joined_votes[n], joined[n], current_round[n])'
        /\ joined_votes'[n].first <= joined_votes'[n].upper
    BY <1>1 DEF JoinersOf
  <2>2. r = current_round'[n]
    BY <1>0
  <2> QED
    BY <1>0, <1>1, <2>1, <2>2
<1>3. Q \in Majorities
  BY DEF Majorities
<1>4. r # none /\ r \in Nat
  BY <1>1, Numbers DEF leader_of
<1>5. r \notin active
  <2> SUFFICES ASSUME r \in active
               PROVE  FALSE
    OBVIOUS
  <2>1. PICK p \in Node :
          leader_of(p, r) /\ (r < current_round[p] \/ (r = current_round[p] /\ round_active[p]))
    BY <1>0 DEF Leaders, ActivatedByLeader
  <2>2. p = n
    BY <1>1, <2>1, OneLeader
  <2>3. ~(r < r)
    BY <1>4
  <2> QED
    BY <1>0, <2>1, <2>2, <2>3
<1>6. ASSUME NEW i \in Inst, z.first <= i
      PROVE  P!safe_at(Q, i, r, maxvote(z, i))
  <2>1. PICK x \in P!Vote : x = maxvote(z, i)
    BY MaxvoteIsVote
  <2>2. /\ x.maxr # none => \E p \in Q : <<p, i, x.maxr, x.maxv>> \in vote
        /\ \A w \in vote : w[1] \in Q /\ w[2] = i /\ w[3] < r => w[3] <= x.maxr
    BY <1>0, <1>2, <1>6, <2>1 DEF tells, maxvote, P!maxvote, P!not_a_vote
  <2>3. x.maxr \in Round /\ x.maxv \in Value /\ x.maxr \in Nat
    BY Numbers DEF P!Vote
  <2>4. \A w \in vote : w[3] \in Nat /\ w[3] # none
    BY <1>0, Numbers DEF P!Inv, P!TypeOK, P!NoneIsReserved, P!none, none
  <2>5. CASE x.maxr = none
    <3>1. \A w \in vote : ~(w[1] \in Q /\ w[2] = i /\ w[3] < r)
      <4> SUFFICES ASSUME NEW w \in vote, w[1] \in Q, w[2] = i, w[3] < r
                   PROVE  FALSE
        OBVIOUS
      <4>1. w[3] <= 0 /\ w[3] \in Nat /\ w[3] # 0
        BY <2>2, <2>4, <2>5 DEF none
      <4> QED
        BY <4>1
    <3> QED
      BY <2>1, <2>5, <3>1 DEF P!safe_at, P!none, none
  <2>6. CASE x.maxr # none
    <3>1. PICK p \in Q : <<p, i, x.maxr, x.maxv>> \in vote
      BY <2>2, <2>6
    <3>2. p \in Node
      OBVIOUS
    <3>3. <<i, x.maxr, x.maxv>> \in proposal
      BY <1>0, <2>3, <3>1, <3>2 DEF P!Inv, P!VotedIsProposed
    <3>4. P!votes_between(Q, i, x.maxr, r) = {}
      <4> SUFFICES ASSUME NEW w \in vote, w[1] \in Q, w[2] = i, x.maxr < w[3], w[3] < r
                   PROVE  FALSE
        BY DEF P!votes_between
      <4>1. w[3] <= x.maxr /\ w[3] \in Nat
        BY <2>2, <2>4
      <4> QED
        BY <2>3, <4>1
    <3> QED
      BY <2>1, <3>3, <3>4 DEF P!safe_at
  <2> QED
    BY <2>5, <2>6
<1>7. /\ active' = active \cup {r}
      /\ available' = available \cup {<<r, i>> : i \in {i \in Inst : z.upper <= i}}
  <2>1. next_inst'[n] = z.upper
    BY <1>0 DEF activate, TypeOK
  <2> QED
    BY <2>1 DEF activate
<1>8. proposal' = proposal \cup P!recovered(r, z)
  <2>1. recovering(n) = {i \in Inst : z.first <= i /\ i < z.upper}
    <3>1. z.first \in Nat /\ z.upper \in Nat /\ z.upper \in P!Bound
      BY SegmentHas, Numbers
    <3>2. \A i \in z.first .. z.upper - 1 : i \in Inst /\ z.first <= i /\ i < z.upper
      <4> TAKE i \in z.first .. z.upper - 1
      <4>1. i \in Nat /\ z.first <= i /\ i < z.upper
        BY <3>1
      <4> QED
        BY <3>1, <4>1, BelowIsInst
    <3>3. \A i \in Inst : z.first <= i /\ i < z.upper => i \in z.first .. z.upper - 1
      BY <3>1, Numbers
    <3> QED
      BY <3>2, <3>3 DEF recovering
  <2>2. \A i : recovered(n, i) = IF P!maxvote(z, i).maxr # P!none THEN P!maxvote(z, i).maxv
                                 ELSE no_op
    BY DEF recovered, maxvote, P!none, none
  <2>3. proposal' = proposal \cup {<<i, r, recovered(n, i)>> : i \in recovering(n)}
    BY DEF activate
  <2> QED
    BY <2>1, <2>2, <2>3 DEF P!recovered
<1>9. UNCHANGED <<left_round, joined_round, vote, decision>>
  BY <1>0
<1>10. \A i \in Inst : z.first <= i => P!safe_at(Q, i, r, P!maxvote(z, i))
  BY <1>6 DEF maxvote
<1> QED
  BY <1>2, <1>3, <1>4, <1>5, <1>7, <1>8, <1>9, <1>10 DEF P!receive_join_acks, P!none, none

LEMMA OneBStep ==
  ASSUME SysInv, TypeOK', NEW n \in Node, NEW m \in Message, truthful(m, n), one_b_handler(n, m)
  PROVE  SysInv'
<1>0. /\ TypeOK /\ P!Inv /\ Rounds /\ Leaders /\ OwnVotes /\ Messages /\ Joiners
      /\ StatusIsProposed /\ CountedVotesAreCurrent /\ FreeFromNext /\ End
  BY DEF SysInv
<1>1. /\ Merges(n, m)
      /\ UNCHANGED <<current_round, current_leader, left_round, joined_round, vote_vars,
                     inst_status, log_vars, timer_vars, decision>>
  BY DEF one_b_handler, Merges, vote_vars
<1>2. /\ UNCHANGED <<current_round, current_leader, left_round, joined_round, my_votes, vote,
                     inst_status, my_log, first_undecided, decided, decision>>
      /\ UNCHANGED vote_vars /\ UNCHANGED log_vars
  BY <1>1 DEF vote_vars, log_vars
<1>3. PICK r \in Round : r = m.round /\ r = current_round[n] /\ leader_of(n, r)
  BY <1>1, MergedVotes
<1>4. /\ JoinersOf(n)'
      /\ \A p \in Node : joined_votes'[p].first = joined_votes[p].first
      /\ \A p \in Node : p # n => joined_votes'[p] = joined_votes[p] /\ joined'[p] = joined[p]
      /\ joined_votes'[n] \in P!Segment
  BY <1>1, MergedVotes
<1>5. r \in Nat /\ \A p \in Node : current_round[p] <= current_round'[p]
  <2>1. \A p \in Node : current_round[p] \in Nat
    BY <1>0, Numbers DEF TypeOK
  <2> QED
    BY <1>2, <2>1, Numbers
<1>6. proposal \subseteq proposal' => Grows
  BY <1>2, <1>4, <1>5 DEF Grows
<1>7. Rounds' /\ End' /\ LogsHold'
  BY <1>0, <1>2, RoundsSame, EndSame, LogsKept DEF SysInv, LogsHold
<1>8. OwnVotes'
  BY <1>0, <1>2, <1>5, OwnVotesKept DEF TypeOK
<1>9. Grows => Joiners'
  <2> SUFFICES ASSUME Grows, NEW p \in Node, p # n
               PROVE  JoinersOf(p)'
    BY <1>4, JoinersOfAllNext
  <2>1. JoinersOf(p) /\ current_round'[p] = current_round[p]
    BY <1>0, <1>2, JoinersOfAll
  <2> QED
    BY <1>0, <1>4, <2>1, JoinersKept
<1>10. Grows => StatusIsProposed' /\ CountedVotesAreCurrent'
  BY <1>0, <1>2, StatusOfAll, StatusOfAllNext, StatusKept
<1>11. CASE majority(joined'[n]) /\ activate(n, m.round)
  <2>1. PICK Q \in SUBSET Node, z \in P!Segment : Q = joined'[n] /\ z = joined_votes'[n]
    BY <1>4 DEF TypeOK
  <2>2. Q \in Majorities /\ P!receive_join_acks(r, Q, z)
    BY <1>1, <1>2, <1>3, <1>11, <2>1, ActivationIsAllowed
  <2>3. P!Inv'
    BY <1>0, <2>2, GhostActivate DEF TypeOK
  <2>4. /\ active' = active \cup {r}
        /\ available' = available \cup {<<r, i>> : i \in {i \in Inst : z.upper <= i}}
        /\ proposal \subseteq proposal'
    BY <2>2 DEF P!receive_join_acks
  <2>5. /\ round_active' = [round_active EXCEPT ![n] = TRUE]
        /\ next_inst' = [next_inst EXCEPT ![n] = z.upper]
        /\ sent' = sent \cup UNION {bcast(build_proposal(n, r, i, recovered(n, i))) :
                                  i \in {i \in recovering(n) : ~is_decided(n, i)}}
        /\ proposal' = proposal \cup {<<i, r, recovered(n, i)>> : i \in recovering(n)}
    BY <1>3, <1>11, <2>1 DEF activate
  <2>6. /\ \A p \in Node : round_active'[p] <=> (round_active[p] \/ p = n)
        /\ next_inst'[n] = z.upper
        /\ \A p \in Node : p # n => next_inst'[p] = next_inst[p]
    BY <1>0, <2>5 DEF TypeOK
  <2>7. Leaders'
    <3>1. LeaderIsFollowed'
      BY <1>0, <1>2 DEF Leaders, LeaderIsFollowed
    <3>2. ActivatedByLeader'
      <4> SUFFICES ASSUME NEW R \in active'
                   PROVE  \E p \in Node :
                            /\ leader_of(p, R)
                            /\ R < current_round'[p] \/ (R = current_round'[p] /\ round_active'[p])
        BY DEF ActivatedByLeader
      <4>1. CASE R = r
        BY <1>2, <1>3, <2>6, <4>1
      <4>2. CASE R \in active
        <5>1. PICK p \in Node :
                 /\ leader_of(p, R)
                 /\ R < current_round[p] \/ (R = current_round[p] /\ round_active[p])
          BY <1>0, <4>2 DEF Leaders, ActivatedByLeader
        <5> QED
          BY <1>2, <2>6, <5>1
      <4> QED
        BY <2>4, <4>1, <4>2
    <3>3. LeadersAreActive'
      BY <1>0, <1>2, <1>3, <2>4, <2>6 DEF Leaders, LeadersAreActive
    <3> QED
      BY <3>1, <3>2, <3>3 DEF Leaders
  <2>8. FreeFromNext'
    <3> SUFFICES ASSUME NEW p \in Node, round_active'[p], NEW j \in Inst, next_inst'[p] <= j
                 PROVE  <<current_round[p], j>> \in available'
      BY <1>2 DEF FreeFromNext
    <3>1. CASE p = n
      BY <1>3, <2>4, <2>6, <3>1
    <3>2. CASE p # n
      BY <1>0, <2>4, <2>6, <3>2 DEF FreeFromNext
    <3> QED
      BY <3>1, <3>2
  <2>9. \A s \in sent' : s \in sent \/ truthful(s[1], s[2])'
    <3> SUFFICES ASSUME NEW s \in sent', s \notin sent
                 PROVE  truthful(s[1], s[2])'
      OBVIOUS
    <3>1. PICK i \in recovering(n) : s \in bcast(build_proposal(n, r, i, recovered(n, i)))
      BY <2>5
    <3>2. PICK u : u = recovered(n, i)
      OBVIOUS
    <3>3. PICK d \in Node : s[1] = build_proposal(n, r, i, u) /\ s[2] = d
      BY <3>1, <3>2, Said
    <3>4. <<i, r, u>> \in proposal'
      BY <2>5, <3>2
    <3>5. r <= current_round'[n]
      BY <1>2, <1>3, <1>5
    <3>6. truthful(build_proposal(n, r, i, u), d)'
      BY <1>3, <3>4, <3>5, SayProposal
    <3> QED
      BY <3>3, <3>6
  <2>10. Grows
    BY <1>6, <2>4
  <2>11. Messages'
    BY <1>0, <2>9, <2>10, MessagesKept
  <2> QED
    BY <1>7, <1>8, <1>9, <1>10, <2>3, <2>7, <2>8, <2>10, <2>11 DEF SysInv, LogsHold
<1>12. CASE UNCHANGED <<round_active, next_inst, sent, proposal_vars>>
  <2>1. UNCHANGED <<proposal, active, available>>
    BY <1>12 DEF proposal_vars
  <2>2. Grows
    BY <1>6, <2>1
  <2>3. P!Inv'
    BY <1>0, <1>2, <2>1, GhostStutter
  <2>4. Leaders' /\ FreeFromNext'
    BY <1>0, <1>2, <1>12, <2>1, LeadersSame, FreeSame
  <2>5. Messages'
    BY <1>0, <1>12, <2>2, MessagesKept
  <2> QED
    BY <1>7, <1>8, <1>9, <1>10, <2>2, <2>3, <2>4, <2>5 DEF SysInv, LogsHold
<1> QED
  BY <1>11, <1>12 DEF one_b_handler
-----------------------------------------------------------------------------
LEMMA InitInv == Init => SysInv
<1> SUFFICES ASSUME Init
             PROVE  SysInv
  OBVIOUS
<1>1. TypeOK
  BY InitType
<1>2. P!Init /\ P!Inv
  BY GhostInit DEF Init
<1>3. /\ left_round = Node \X {none} /\ joined_round = {} /\ vote = {} /\ active = {}
      /\ decided = {} /\ sent = {}
      /\ \A n \in Node : /\ current_round[n] = 0 /\ round_active[n] = FALSE
                         /\ joined[n] = {} /\ first_undecided[n] = 0
                         /\ joined_votes[n] = [first |-> 0, upper |-> 0, vote |-> <<>>]
                         /\ inst_status[n] = empty_status
      /\ \A n \in Node, i \in Inst : my_votes[n][i] = P!not_a_vote /\ my_log[n][i] = no_decision
  BY <1>2 DEF Init, P!Init, P!none, none
<1>4. Rounds
  <2>1. LeftAreLower
    <3> SUFFICES ASSUME NEW n \in Node, NEW R \in Round
                 PROVE  (<<n, R>> \in left_round) <=> (R < current_round[n] \/ R = none)
      BY DEF LeftAreLower
    <3>1. R \in Nat /\ ~(R < 0)
      BY Numbers
    <3> QED
      BY <1>3, <3>1
  <2>2. JoinedAreEntered /\ OwnRoundIsJoined
    BY <1>3 DEF JoinedAreEntered, OwnRoundIsJoined, none
  <2> QED
    BY <2>1, <2>2 DEF Rounds
<1>5. Leaders
  BY <1>3 DEF Leaders, LeaderIsFollowed, ActivatedByLeader, LeadersAreActive, none
<1>6. OwnVotes
  BY <1>3 DEF OwnVotes, OwnVotesAreCast, OwnVotesAreLast, P!not_a_vote, P!none, none
<1>7. Messages
  BY <1>3 DEF Messages
<1>8. Joiners
  BY <1>3 DEF Joiners, JoinedJoined, JoinedAreHeard, SegmentsAreOrdered, leader_of, none
<1>9. StatusIsProposed /\ CountedVotesAreCurrent
  BY <1>3 DEF StatusIsProposed, CountedVotesAreCurrent, empty_status, init_status
<1>10. FreeFromNext
  BY <1>3 DEF FreeFromNext
<1>11. LogsAreDecided /\ ReportsAreDecided
  BY <1>3 DEF LogsAreDecided, ReportsAreDecided, no_decision
<1>12. End
  BY <1>3 DEF End, EndsAt, P!not_a_vote, P!none, none, no_decision
<1>13. FirstUndecidedIsFirstHole
  <2>1. \A n \in Node : ~is_decided(n, first_undecided[n])
    BY <1>3 DEF is_decided, no_decision
  <2>2. 0 .. 0 - 1 = {}
    OBVIOUS
  <2> QED
    BY <1>3, <2>1, <2>2 DEF FirstUndecidedIsFirstHole
<1> QED
  BY <1>1, <1>2, <1>4, <1>5, <1>6, <1>7, <1>8, <1>9, <1>10, <1>11, <1>12, <1>13 DEF SysInv

LEMMA StepInv == SysInv /\ [Next]_vars => SysInv'
<1> SUFFICES ASSUME SysInv, [Next]_vars
             PROVE  SysInv'
  OBVIOUS
<1>0. TypeOK'
  BY TypeStep
<1>1. ASSUME NEW n \in Node, NEW v \in Command, propose(n, v)
      PROVE  SysInv'
  BY <1>0, <1>1, ProposeStep
<1>2. ASSUME NEW n \in Node, timer(n)
      PROVE  SysInv'
  <2>1. UNCHANGED <<next_inst, vote_vars, log_vars, proposal_vars, decision>>
    BY <1>2 DEF timer
  <2>2. CASE times_out(n)
    BY <1>0, <2>1, <2>2, StartStep DEF times_out
  <2>3. CASE ~times_out(n)
    <3>1. /\ catches_up(n) \/ awaits_votes(n) \/ leads(n)
          /\ UNCHANGED <<round_vars, joined_votes, inst_status>>
      BY <1>2, <2>3 DEF timer
    <3> QED
      BY <1>0, <2>1, <3>1, TickStep
  <2> QED
    BY <2>2, <2>3
<1>3. ASSUME NEW s \in sent, recv(s[2], s[1])
      PROVE  SysInv'
  <2>1. PICK m \in Message, n \in Node : m = s[1] /\ n = s[2]
    BY DEF SysInv, TypeOK
  <2>2. truthful(m, n)
    BY <2>1 DEF SysInv, Messages
  <2>3. \/ one_a_handler(n, m) \/ one_b_handler(n, m) \/ two_a_handler(n, m)
        \/ two_b_handler(n, m) \/ decide_handler(n, m) \/ keep_alive_handler(n, m)
        \/ missing_two_a_handler(n, m) \/ missing_decision_handler(n, m)
    BY <1>3, <2>1 DEF recv
  <2> QED
    BY <1>0, <2>2, <2>3, OneAStep, OneBStep, TwoAStep, TwoBStep, DecideStep, KeepAliveStep,
       MissingStep
<1>4. CASE UNCHANGED vars
  <2>1. /\ UNCHANGED <<round_vars, leader_vars, vote_vars, inst_status, log_vars, proposal_vars,
                       decision>>
        /\ UNCHANGED sent
    BY <1>4 DEF vars
  <2> QED
    BY <1>0, <2>1, QuietStep
<1> QED
  BY <1>1, <1>2, <1>3, <1>4 DEF Next
-----------------------------------------------------------------------------
(***************************************************************************)
(* The theorems.                                                           *)
(***************************************************************************)

\* Every variable of the servers has its type in every reachable state.
THEOREM TypeCorrect == Spec => []TypeOK
<1>1. SysInv => TypeOK
  BY DEF SysInv
<1> QED
  BY <1>1, InitInv, StepInv, PTL DEF Spec

\* The state of the servers, the messages on their way and the relations of the
\* protocol agree with each other, as the invariants of multi_paxos_system.ivy
\* say, in every reachable state.
THEOREM SysInvariance == Spec => []SysInv
<1> QED
  BY InitInv, StepInv, PTL DEF Spec

LEMMA InvPromises == SysInv => PromisesAreTruthful
<1> SUFFICES ASSUME SysInv, NEW s \in sent, s[1].kind = "one_b",
                    NEW i \in Inst, s[1].votemap.first <= i
             PROVE  /\ maxvote(s[1].votemap, i).maxr # none =>
                          <<s[1].node, i, maxvote(s[1].votemap, i).maxr,
                            maxvote(s[1].votemap, i).maxv>> \in vote
                    /\ \A w \in vote : w[1] = s[1].node /\ w[2] = i /\ w[3] < s[1].round
                                          => w[3] <= maxvote(s[1].votemap, i).maxr
  BY DEF PromisesAreTruthful
<1>1. tells(s[1].votemap, {s[1].node}, s[1].round)
  BY DEF SysInv, Messages, truthful
<1>2. /\ maxvote(s[1].votemap, i).maxr # none =>
            \E p \in {s[1].node} : <<p, i, maxvote(s[1].votemap, i).maxr,
                                     maxvote(s[1].votemap, i).maxv>> \in vote
      /\ \A w \in vote : w[1] \in {s[1].node} /\ w[2] = i /\ w[3] < s[1].round
                            => w[3] <= maxvote(s[1].votemap, i).maxr
  BY <1>1 DEF tells
<1> QED
  BY <1>2

\* A promise tells its leader the last votes of its sender below the promised
\* round and stays true for ever (own_votes in the one_a handler), for any number
\* of servers, rounds and instances and any loss, delay and duplication.
THEOREM PromisesHold == Spec => []PromisesAreTruthful
<1> QED
  BY InvPromises, SysInvariance, PTL

\* The votes a leader counts for an instance were all cast in its round for the
\* proposal it will decide (the two_b handler), whatever arrives late.
THEOREM VotesAreCurrent == Spec => []CountedVotesAreCurrent
<1>1. SysInv => CountedVotesAreCurrent
  BY DEF SysInv
<1> QED
  BY <1>1, SysInvariance, PTL

\* first_undecided is the first hole of the log, in whatever order the decisions
\* arrive (the two_b and decide handlers).
THEOREM HoleIsFirst == Spec => []FirstUndecidedIsFirstHole
<1>1. SysInv => FirstUndecidedIsFirstHole
  BY DEF SysInv
<1> QED
  BY <1>1, SysInvariance, PTL

LEMMA InvAppends == SysInv => LeaderAppendsInTheFree
<1> SUFFICES ASSUME SysInv, NEW n \in Node, round_active[n], NEW i \in Inst, next_inst[n] <= i
             PROVE  /\ <<current_round[n], i>> \in available
                    /\ \A r \in Round, v \in Value : r < current_round[n] => ~P!chosen(i, r, v)
  BY DEF LeaderAppendsInTheFree
<1>1. <<current_round[n], i>> \in available
  BY DEF SysInv, FreeFromNext
<1>2. PICK R : R = current_round[n]
  OBVIOUS
<1>3. \A a \in available, r \in Round, v \in Value : r < a[1] => ~P!chosen(a[2], r, v)
  BY GhostAvailable DEF SysInv
<1>4. \A r \in Round, v \in Value : r < R => ~P!chosen(i, r, v)
  BY <1>1, <1>2, <1>3
<1> QED
  BY <1>1, <1>2, <1>4

\* The leader of an active round appends (propose) only where its round is free
\* and no earlier round chose anything, or ever will.
THEOREM LeaderAppends == Spec => []LeaderAppendsInTheFree
<1> QED
  BY InvAppends, SysInvariance, PTL

\* A request for a retransmission reaches the leader of the round it names
\* (ask_for_retransmission), the only server that answers it.
THEOREM RequestsReach == Spec => []RequestsReachTheLeader
<1>1. SysInv => RequestsReachTheLeader
  BY DEF SysInv, Messages, truthful, RequestsReachTheLeader
<1> QED
  BY <1>1, SysInvariance, PTL
-----------------------------------------------------------------------------
(***************************************************************************)
(* The ghost calls.  First what a step can be and what each kind changes.  *)
(***************************************************************************)
StartsRound(n) ==
    start_round(n) /\ UNCHANGED <<next_inst, vote_vars, log_vars, proposal_vars, decision>>

Ticks(n) ==
    /\ UNCHANGED <<round_vars, joined_votes, inst_status>>
    /\ UNCHANGED <<next_inst, vote_vars, log_vars, proposal_vars, decision>>

Handles(n, m) ==
    \/ one_a_handler(n, m) \/ one_b_handler(n, m) \/ two_a_handler(n, m)
    \/ two_b_handler(n, m) \/ decide_handler(n, m) \/ keep_alive_handler(n, m)
    \/ missing_two_a_handler(n, m) \/ missing_decision_handler(n, m)

LEMMA Steps ==
  ASSUME SysInv, Next
  PROVE  \/ \E n \in Node, v \in Command : propose(n, v)
         \/ \E n \in Node : StartsRound(n) \/ Ticks(n)
         \/ \E n \in Node, m \in Message : truthful(m, n) /\ Handles(n, m)
<1>1. ASSUME NEW n \in Node, timer(n)
      PROVE  StartsRound(n) \/ Ticks(n)
  BY <1>1 DEF timer, times_out, StartsRound, Ticks
<1>2. ASSUME NEW s \in sent, recv(s[2], s[1])
      PROVE  \E n \in Node, m \in Message : truthful(m, n) /\ Handles(n, m)
  <2>1. PICK m \in Message, n \in Node : m = s[1] /\ n = s[2]
    BY DEF SysInv, TypeOK
  <2>2. truthful(m, n)
    BY <2>1 DEF SysInv, Messages
  <2>3. Handles(n, m)
    BY <1>2, <2>1 DEF recv, Handles
  <2> QED
    BY <2>2, <2>3
<1> QED
  BY <1>1, <1>2 DEF Next

\* A promise is made on entering a later round.
JoinMade == \E n \in Node, r \in Round :
               /\ current_round[n] < r /\ r # none
               /\ joined_round' = joined_round \cup {<<n, r>>}

LEMMA JoinsMade == ASSUME SysInv, Next PROVE UNCHANGED joined_round \/ JoinMade
<1>1. ASSUME NEW n \in Node, NEW v \in Command, propose(n, v)
      PROVE  UNCHANGED joined_round
  BY <1>1 DEF propose, round_vars
<1>2. ASSUME NEW n \in Node, StartsRound(n)
      PROVE  JoinMade
  BY <1>2 DEF StartsRound, start_round, next_self_leader_round, change_round, leader_of, JoinMade
<1>3. ASSUME NEW n \in Node, Ticks(n)
      PROVE  UNCHANGED joined_round
  BY <1>3 DEF Ticks, round_vars
<1>4. ASSUME NEW n \in Node, NEW m \in Message, truthful(m, n), Handles(n, m)
      PROVE  UNCHANGED joined_round \/ JoinMade
  <2>1. ASSUME m.kind \in {"one_a", "two_a", "keep_alive"},
               current_round[n] < m.round, change_round(n, m.round, m.node, {})
        PROVE  JoinMade
    <3>1. m.round \in Round /\ m.round # none
      BY <1>4, <2>1, MessageType DEF truthful, leader_speaks, leader_of
    <3> QED
      BY <2>1, <3>1 DEF change_round, JoinMade
  <2>2. CASE one_a_handler(n, m)
    BY <2>1, <2>2 DEF one_a_handler
  <2>3. CASE two_a_handler(n, m)
    BY <2>1, <2>3 DEF two_a_handler, enter_round, round_vars
  <2>4. CASE keep_alive_handler(n, m)
    BY <2>1, <2>4 DEF keep_alive_handler, round_vars
  <2>5. CASE one_b_handler(n, m)
    BY <2>5 DEF one_b_handler
  <2>6. CASE two_b_handler(n, m) \/ decide_handler(n, m)
    BY <2>6 DEF two_b_handler, decide_handler, round_vars
  <2>7. CASE missing_two_a_handler(n, m) \/ missing_decision_handler(n, m)
    BY <2>7 DEF missing_two_a_handler, missing_decision_handler, round_vars
  <2> QED
    BY <1>4, <2>2, <2>3, <2>4, <2>5, <2>6, <2>7 DEF Handles
<1> QED
  BY <1>1, <1>2, <1>3, <1>4, Steps

\* A vote is cast in the round its server is then in.
VoteMade == \E n \in Node, i \in Inst, r \in Round, v \in Value :
               vote' = vote \cup {<<n, i, r, v>>} /\ current_round'[n] = r

LEMMA VotesMade == ASSUME SysInv, Next PROVE UNCHANGED vote \/ VoteMade
<1>0. TypeOK
  BY DEF SysInv
<1>1. ASSUME NEW n \in Node, NEW v \in Command, propose(n, v)
      PROVE  VoteMade
  <2>1. /\ next_inst[n] \in Inst /\ v \in Value /\ current_round'[n] \in Round
        /\ vote' = vote \cup {<<n, next_inst[n], current_round'[n], v>>}
    BY <1>0, <1>1, CommandsAssumption DEF propose, cast, round_vars, TypeOK
  <2> QED
    BY <2>1 DEF VoteMade
<1>2. ASSUME NEW n \in Node, StartsRound(n) \/ Ticks(n)
      PROVE  UNCHANGED vote
  BY <1>2 DEF StartsRound, Ticks, vote_vars
<1>3. ASSUME NEW n \in Node, NEW m \in Message, truthful(m, n), Handles(n, m)
      PROVE  UNCHANGED vote \/ VoteMade
  <2>1. CASE two_a_handler(n, m)
    <3>1. /\ m.round \in Round /\ m.inst \in Inst /\ m.value \in Value
          /\ m.round # none /\ m.node \in Node
      BY <1>3, <2>1, MessageType DEF two_a_handler, truthful, leader_speaks, leader_of
    <3>2. current_round[n] <= m.round /\ enter_round(n, m)
          /\ (cast(n, m.round, m.inst, m.value) \/ UNCHANGED vote_vars)
      BY <2>1 DEF two_a_handler
    <3>3. current_round'[n] = m.round
      BY <3>1, <3>2, EnterRoundType
    <3> QED
      BY <3>1, <3>2, <3>3 DEF cast, VoteMade, vote_vars
  <2>2. CASE one_a_handler(n, m) \/ keep_alive_handler(n, m) \/ one_b_handler(n, m)
    BY <2>2 DEF one_a_handler, keep_alive_handler, one_b_handler, vote_vars
  <2>3. CASE two_b_handler(n, m) \/ decide_handler(n, m)
    BY <2>3 DEF two_b_handler, decide_handler, vote_vars
  <2>4. CASE missing_two_a_handler(n, m) \/ missing_decision_handler(n, m)
    BY <2>4 DEF missing_two_a_handler, missing_decision_handler, vote_vars
  <2> QED
    BY <1>3, <2>1, <2>2, <2>3, <2>4 DEF Handles
<1> QED
  BY <1>1, <1>2, <1>3, Steps

\* Who starts to lead has just received a promise; who appends is the leader.
PromiseMade(n) == \E m \in Message : truthful(m, n) /\ one_b_handler(n, m)

LEMMA LeadersMade ==
  ASSUME SysInv, Next, NEW n \in Node
  PROVE  /\ round_active'[n] => round_active[n] \/ PromiseMade(n)
         /\ \/ next_inst'[n] = next_inst[n]
            \/ PromiseMade(n)
            \/ \E v \in Command : propose(n, v)
<1>0. TypeOK
  BY DEF SysInv
<1>1. ASSUME NEW p \in Node, NEW v \in Command, propose(p, v)
      PROVE  /\ UNCHANGED round_active
             /\ p # n => next_inst'[n] = next_inst[n]
  BY <1>0, <1>1 DEF propose, round_vars, TypeOK
<1>2. ASSUME NEW p \in Node, NEW r, NEW l, NEW J, change_round(p, r, l, J)
      PROVE  round_active'[n] => round_active[n]
  BY <1>0, <1>2 DEF change_round, TypeOK
<1>3. ASSUME NEW p \in Node, StartsRound(p) \/ Ticks(p)
      PROVE  (round_active'[n] => round_active[n]) /\ UNCHANGED next_inst
  <2>1. CASE StartsRound(p)
    BY <1>2, <2>1 DEF StartsRound, start_round
  <2>2. CASE Ticks(p)
    BY <2>2 DEF Ticks, round_vars
  <2> QED
    BY <1>3, <2>1, <2>2
<1>4. ASSUME NEW p \in Node, NEW m \in Message, Handles(p, m), ~one_b_handler(p, m)
      PROVE  (round_active'[n] => round_active[n]) /\ UNCHANGED next_inst
  <2>1. CASE one_a_handler(p, m) \/ keep_alive_handler(p, m)
    BY <1>2, <2>1 DEF one_a_handler, keep_alive_handler, leader_vars, round_vars
  <2>2. CASE two_a_handler(p, m)
    BY <1>2, <2>2 DEF two_a_handler, enter_round, leader_vars, round_vars
  <2>3. CASE two_b_handler(p, m) \/ decide_handler(p, m)
    BY <2>3 DEF two_b_handler, decide_handler, leader_vars, round_vars
  <2>4. CASE missing_two_a_handler(p, m) \/ missing_decision_handler(p, m)
    BY <2>4 DEF missing_two_a_handler, missing_decision_handler, leader_vars, round_vars
  <2> QED
    BY <1>4, <2>1, <2>2, <2>3, <2>4 DEF Handles
<1>5. ASSUME NEW p \in Node, NEW m \in Message, one_b_handler(p, m), p # n
      PROVE  round_active'[n] = round_active[n] /\ next_inst'[n] = next_inst[n]
  BY <1>0, <1>5 DEF one_b_handler, activate, TypeOK
<1>6. CASE \E p \in Node, v \in Command : propose(p, v)
  BY <1>1, <1>6
<1>7. CASE \E p \in Node : StartsRound(p) \/ Ticks(p)
  BY <1>3, <1>7
<1>8. CASE \E p \in Node, m \in Message : truthful(m, p) /\ Handles(p, m)
  <2>1. PICK p \in Node, m \in Message : truthful(m, p) /\ Handles(p, m)
    BY <1>8
  <2>2. CASE ~one_b_handler(p, m)
    BY <1>4, <2>1, <2>2
  <2>3. CASE one_b_handler(p, m) /\ p # n
    BY <1>5, <2>3
  <2>4. CASE one_b_handler(p, m) /\ p = n
    BY <2>1, <2>4 DEF PromiseMade
  <2> QED
    BY <2>2, <2>3, <2>4
<1> QED
  BY <1>6, <1>7, <1>8, Steps

\* What is decided has the votes of a majority.
LEMMA DecisionsMade ==
  ASSUME SysInv, Next
  PROVE  \/ UNCHANGED decision
         \/ \E i \in Inst, v \in Value, r \in Round :
               decision' = decision \cup {<<i, v>>} /\ r # none /\ P!chosen(i, r, v)
<1>0. TypeOK /\ P!Inv /\ SysInv'
  BY StepInv DEF SysInv
<1>1. ASSUME NEW n \in Node, NEW m \in Message, truthful(m, n), two_b_handler(n, m)
      PROVE  \/ UNCHANGED decision
             \/ \E i \in Inst, v \in Value, r \in Round :
                   decision' = decision \cup {<<i, v>>} /\ r # none /\ P!chosen(i, r, v)
  <2>1. PICK q \in Node, i \in Inst, v \in Value : q = m.node /\ i = m.inst /\ v = m.value
    BY <1>1, MessageType DEF two_b_handler
  <2>2. PICK r \in Round : r = current_round[n]
    BY <1>0 DEF TypeOK
  <2>3. PICK s \in [active : BOOLEAN, voters : SUBSET Node, proposal : Value, decided : BOOLEAN] :
           s = inst_status[n][i]
    BY <1>0 DEF TypeOK, ballot_status_array
  <2>4. PICK V : V = s.voters \cup {q}
    OBVIOUS
  <2>5. /\ m.kind = "two_b" /\ m.round = r
        /\ inst_status' = [inst_status EXCEPT ![n][i] =
              [s EXCEPT !.voters = V, !.proposal = v, !.decided = majority(V)]]
        /\ (majority(V) /\ decision' = decision \cup {<<i, v>>}) \/ UNCHANGED decision
        /\ UNCHANGED <<current_round, vote>>
    BY <1>1, <2>1, <2>2, <2>3, <2>4 DEF two_b_handler, round_vars, vote_vars
  <2>6. inst_status'[n][i].voters = V /\ inst_status'[n][i].proposal = v
    <3>1. /\ [s EXCEPT !.voters = V, !.proposal = v, !.decided = majority(V)].voters = V
          /\ [s EXCEPT !.voters = V, !.proposal = v, !.decided = majority(V)].proposal = v
      BY <2>3
    <3> QED
      BY <1>0, <2>5, <3>1 DEF TypeOK, ballot_status_array
  <2>7. \A p \in V : <<p, i, r, v>> \in vote
    BY <1>0, <2>2, <2>5, <2>6 DEF SysInv, CountedVotesAreCurrent
  <2>8. V \in SUBSET Node /\ q \in V
    BY <2>3, <2>4
  <2>9. r # none
    BY <1>0, <2>7, <2>8 DEF P!Inv, P!NoneIsReserved, P!none, none
  <2>10. majority(V) => P!chosen(i, r, v)
    BY <2>7, <2>8 DEF P!chosen, Majorities
  <2> QED
    BY <2>5, <2>9, <2>10
<1>2. ASSUME NEW n \in Node, NEW m \in Message, Handles(n, m), ~two_b_handler(n, m)
      PROVE  UNCHANGED decision
  BY <1>2 DEF Handles, one_a_handler, one_b_handler, two_a_handler, decide_handler,
              keep_alive_handler, missing_two_a_handler, missing_decision_handler
<1>3. ASSUME NEW n \in Node, NEW v \in Command, propose(n, v)
      PROVE  UNCHANGED decision
  BY <1>3 DEF propose
<1>4. ASSUME NEW n \in Node, StartsRound(n) \/ Ticks(n)
      PROVE  UNCHANGED decision
  BY <1>4 DEF StartsRound, Ticks
<1> QED
  BY <1>1, <1>2, <1>3, <1>4, Steps

LEMMA InvJoins == SysInv /\ Next => JoinsAllowed
<1> SUFFICES ASSUME SysInv, Next, NEW j \in joined_round', j \notin joined_round
             PROVE  j[2] # none /\ j \notin left_round
  BY DEF JoinsAllowed
<1>1. PICK n \in Node, r \in Round :
         current_round[n] < r /\ r # none /\ joined_round' = joined_round \cup {<<n, r>>}
  BY JoinsMade DEF JoinMade
<1>2. current_round[n] <= r
  <2>1. current_round[n] \in Nat /\ r \in Nat
    BY Numbers DEF SysInv, TypeOK
  <2> QED
    BY <1>1, <2>1
<1>3. <<n, r>> \notin left_round
  BY <1>1, <1>2, NotLeft DEF SysInv
<1>4. j = <<n, r>>
  BY <1>1
<1> QED
  BY <1>1, <1>3, <1>4

LEMMA InvVotes == SysInv /\ Next => VotesAllowed
<1> SUFFICES ASSUME SysInv, Next, NEW w \in vote', w \notin vote
             PROVE  /\ w[3] # none /\ <<w[1], w[3]>> \notin left_round'
                    /\ <<w[2], w[3], w[4]>> \in proposal'
  BY DEF VotesAllowed
<1>1. SysInv'
  BY StepInv
<1>2. PICK n \in Node, i \in Inst, r \in Round, v \in Value :
         vote' = vote \cup {<<n, i, r, v>>} /\ current_round'[n] = r
  BY VotesMade DEF VoteMade
<1>3. w = <<n, i, r, v>> /\ <<n, i, r, v>> \in vote'
  BY <1>2
<1>4. r # none
  BY <1>1, <1>3 DEF SysInv, P!Inv, P!NoneIsReserved, P!none, none
<1>5. <<i, r, v>> \in proposal'
  BY <1>1, <1>3 DEF SysInv, P!Inv, P!VotedIsProposed
<1>6. <<n, r>> \notin left_round'
  <2>1. ~(r < r)
    BY Numbers
  <2> QED
    BY <1>1, <1>2, <1>4, <2>1 DEF SysInv, Rounds, LeftAreLower
<1> QED
  BY <1>3, <1>4, <1>5, <1>6

LEMMA InvActivations == SysInv /\ Next => ActivationsAllowed
<1> SUFFICES ASSUME SysInv, Next, NEW n \in Node, ~round_active[n], round_active'[n]
             PROVE  LET r == current_round[n]
                        m == joined_votes'[n]
                    IN  /\ r \notin active
                        /\ m.first <= m.upper
                        /\ joined'[n] \in Majorities
                        /\ \A p \in joined'[n] : <<p, r>> \in joined_round
                        /\ \A i \in Inst : m.first <= i =>
                              P!safe_at(joined'[n], i, r, maxvote(m, i))
                        /\ {p \in proposal' : p[2] = r} = P!recovered(r, m)
  BY DEF ActivationsAllowed
<1>1. PICK m \in Message : truthful(m, n) /\ one_b_handler(n, m)
  BY LeadersMade DEF PromiseMade
<1>2. Merges(n, m) /\ UNCHANGED <<left_round, decision>>
  BY <1>1 DEF one_b_handler, Merges, vote_vars
<1>3. majority(joined'[n]) /\ activate(n, m.round)
  BY <1>1 DEF one_b_handler
<1>4. TypeOK /\ SysInv'
  BY StepInv DEF SysInv
<1>5. PICK r \in Round, Q \in SUBSET Node, z \in P!Segment :
         r = m.round /\ Q = joined'[n] /\ z = joined_votes'[n]
  BY <1>1, <1>2, <1>4, MergedVotes DEF SysInv, TypeOK
<1>6. r = current_round[n]
  BY <1>2, <1>5 DEF Merges
<1>7. Q \in Majorities /\ P!receive_join_acks(r, Q, z)
  BY <1>1, <1>2, <1>3, <1>5, ActivationIsAllowed
<1>8. /\ r \notin active /\ z.first <= z.upper
      /\ \A p \in Q : <<p, r>> \in joined_round
      /\ \A i \in Inst : z.first <= i => P!safe_at(Q, i, r, maxvote(z, i))
      /\ proposal' = proposal \cup P!recovered(r, z)
  BY <1>7 DEF P!receive_join_acks, maxvote
<1>9. {p \in proposal' : p[2] = r} = P!recovered(r, z)
  <2>1. \A p \in proposal : p[2] # r
    BY <1>8 DEF SysInv, P!Inv, P!ProposedInActive
  <2>2. \A p \in P!recovered(r, z) : p[2] = r
    BY DEF P!recovered
  <2> QED
    BY <1>8, <2>1, <2>2
<1> QED
  BY <1>5, <1>6, <1>7, <1>8, <1>9

LEMMA InvProposals == SysInv /\ Next => ProposalsAllowed
<1> SUFFICES ASSUME SysInv, Next, NEW n \in Node, round_active[n], next_inst'[n] # next_inst[n]
             PROVE  /\ current_round[n] \in active
                    /\ <<current_round[n], next_inst[n]>> \in available
                    /\ \A v \in Value : <<next_inst[n], current_round[n], v>> \notin proposal
  BY DEF ProposalsAllowed
<1>1. ~PromiseMade(n)
  BY DEF PromiseMade, one_b_handler
<1>2. \E v \in Command : propose(n, v)
  BY <1>1, LeadersMade
<1>3. PICK i \in Inst, r \in Round : i = next_inst[n] /\ r = current_round[n]
  BY <1>2 DEF propose, SysInv, TypeOK
<1>4. r \in active /\ <<r, i>> \in available
  BY <1>3, AppendingIsFree
<1>5. \A v \in Value : <<i, r, v>> \notin proposal
  BY <1>4 DEF SysInv, P!Inv, P!AvailableIsUnproposed
<1> QED
  BY <1>3, <1>4, <1>5

LEMMA InvDecisions == SysInv /\ Next => DecisionsAllowed
<1> SUFFICES ASSUME SysInv, Next, NEW d \in decision', d \notin decision
             PROVE  \E r \in Round : r # none /\ P!chosen(d[1], r, d[2])
  BY DEF DecisionsAllowed
<1>1. PICK i \in Inst, v \in Value, r \in Round :
         decision' = decision \cup {<<i, v>>} /\ r # none /\ P!chosen(i, r, v)
  BY DecisionsMade
<1>2. d[1] = i /\ d[2] = v
  BY <1>1
<1> QED
  BY <1>1, <1>2

\* Each call of the protocol's actions that the handlers make as ghost code meets
\* the requirements of that action, in every step of every behaviour: joins in the
\* one_a handler and start_round, votes in propose and the two_a handler,
\* activations in the one_b handler, decisions in the two_b handler.
THEOREM GhostCalls == Spec => GhostCallsAllowed
<1>1. SysInv /\ [Next]_vars =>
        [/\ JoinsAllowed /\ VotesAllowed /\ ActivationsAllowed
         /\ ProposalsAllowed /\ DecisionsAllowed]_vars
  BY InvJoins, InvVotes, InvActivations, InvProposals, InvDecisions
<1> QED
  BY <1>1, SysInvariance, PTL DEF Spec, GhostCallsAllowed
-----------------------------------------------------------------------------
\* What a step reports.
LEMMA ReportsMade ==
  ASSUME SysInv, Next
  PROVE  \/ UNCHANGED decided
         \/ \E n \in Node, i \in Inst, v \in Value : decided' = decided \cup {<<n, i, v>>}
<1>1. ASSUME NEW n \in Node, NEW v \in Command, propose(n, v)
      PROVE  UNCHANGED decided
  BY <1>1 DEF propose, log_vars
<1>2. ASSUME NEW n \in Node, StartsRound(n) \/ Ticks(n)
      PROVE  UNCHANGED decided
  BY <1>2 DEF StartsRound, Ticks, log_vars
<1>3. ASSUME NEW n \in Node, NEW m \in Message, Handles(n, m)
      PROVE  \/ UNCHANGED decided
             \/ \E i \in Inst, v \in Value : decided' = decided \cup {<<n, i, v>>}
  <2>1. CASE two_b_handler(n, m) \/ decide_handler(n, m)
    <3>1. m.inst \in Inst /\ m.value \in Value
      BY <2>1, MessageType DEF two_b_handler, decide_handler
    <3>2. learn(n, m.inst, m.value) \/ UNCHANGED log_vars
      BY <2>1 DEF two_b_handler, decide_handler
    <3> QED
      BY <3>1, <3>2 DEF learn, log_vars
  <2>2. CASE one_a_handler(n, m) \/ one_b_handler(n, m) \/ two_a_handler(n, m)
    BY <2>2 DEF one_a_handler, one_b_handler, two_a_handler, log_vars
  <2>3. CASE missing_two_a_handler(n, m) \/ missing_decision_handler(n, m)
             \/ keep_alive_handler(n, m)
    BY <2>3 DEF missing_two_a_handler, missing_decision_handler, keep_alive_handler, log_vars
  <2> QED
    BY <1>3, <2>1, <2>2, <2>3 DEF Handles
<1> QED
  BY <1>1, <1>2, <1>3, Steps

LogAgrees == \A i \in Inst, v1, v2 \in Value :
                <<i, v1>> \in decision /\ <<i, v2>> \in decision => v1 = v2

LEMMA AgreementNext == P!Inv' => LogAgrees'
<1>1. P!Inv => LogAgrees
  BY GhostAgreement DEF LogAgrees
<1> QED
  BY <1>1, PTL

LEMMA LogStep ==
  SysInv /\ [Next]_vars => [Log!Next]_({<<d[2], d[3]>> : d \in decided})
<1> DEFINE reports == {<<d[2], d[3]>> : d \in decided}
<1> SUFFICES ASSUME SysInv, Next, ~UNCHANGED decided
             PROVE  Log!Next
  BY DEF vars, log_vars
<1>1. SysInv'
  BY StepInv
<1>2. PICK n \in Node, i \in Inst, v \in Value : decided' = decided \cup {<<n, i, v>>}
  BY ReportsMade
<1>3. reports' = reports \cup {<<i, v>>}
  <2>1. <<n, i, v>>[2] = i /\ <<n, i, v>>[3] = v
    OBVIOUS
  <2> QED
    BY <1>2, <2>1
<1>4. reports' \subseteq decision'
  BY <1>1 DEF SysInv, ReportsAreDecided
<1>5. \A V \in Value : <<i, V>> \in reports => V = v
  <2> SUFFICES ASSUME NEW V \in Value, <<i, V>> \in reports
               PROVE  V = v
    OBVIOUS
  <2>1. <<i, V>> \in decision' /\ <<i, v>> \in decision'
    BY <1>3, <1>4
  <2>2. LogAgrees'
    BY <1>1, AgreementNext DEF SysInv
  <2> QED
    BY <2>1, <2>2 DEF LogAgrees
<1> QED
  BY <1>3, <1>5 DEF Log!Next, Log!decide

\* The servers implement the replicated log: whatever is lost, delayed, repeated
\* or reordered, and however many leaders there are, what any server reports for
\* an instance (the decide callback) agrees with all the reports there are.
THEOREM ImplementsLog == Spec => LogSpec
<1>1. Init => Log!Init
  BY DEF Init, Log!Init
<1> QED
  BY <1>1, LogStep, SysInvariance, PTL DEF Spec, LogSpec, Log!Spec
-----------------------------------------------------------------------------
(***************************************************************************)
(* The service: the servers with their adapters.                           *)
(***************************************************************************)

\* The theorems about the adapter, of the adapters on these servers.
AP == INSTANCE PaxosAdapterProofs WITH
        none    <- no_value,
        my_log  <- [n \in Node |-> [i \in Inst |-> query(n, i)]],
        decided <- {<<d[2], d[3]>> : d \in decided}

\* What query answers at all servers, and what was reported for the instances.
answers_of == [n \in Node |-> [i \in Inst |-> query(n, i)]]
reports == {<<d[2], d[3]>> : d \in decided}

\* A server reports what it enters in its log, and nothing else.
ReportedIsLogged ==
    \A n \in Node, i \in Inst, v \in Value :
        <<n, i, v>> \in decided <=> my_log[n][i] = [present |-> TRUE, decision |-> v]

\* Once decided, always decided.
LEMMA DecisionsStay ==
  ASSUME SysInv, Next
  PROVE  decision \subseteq decision'
  BY DecisionsMade

\* A server that learns enters the value in its log and reports it.
LEMMA LogsMade ==
  ASSUME SysInv, Next
  PROVE  \/ UNCHANGED <<my_log, decided>>
         \/ \E n \in Node, i \in Inst, v \in Value :
               /\ my_log' = [my_log EXCEPT ![n][i] = [present |-> TRUE, decision |-> v]]
               /\ decided' = decided \cup {<<n, i, v>>}
<1>1. ASSUME NEW n \in Node, NEW v \in Command, propose(n, v)
      PROVE  UNCHANGED <<my_log, decided>>
  BY <1>1 DEF propose, log_vars
<1>2. ASSUME NEW n \in Node, StartsRound(n) \/ Ticks(n)
      PROVE  UNCHANGED <<my_log, decided>>
  BY <1>2 DEF StartsRound, Ticks, log_vars
<1>3. ASSUME NEW n \in Node, NEW m \in Message, Handles(n, m)
      PROVE  \/ UNCHANGED <<my_log, decided>>
             \/ \E i \in Inst, v \in Value :
                   /\ my_log' = [my_log EXCEPT ![n][i] = [present |-> TRUE, decision |-> v]]
                   /\ decided' = decided \cup {<<n, i, v>>}
  <2>1. CASE two_b_handler(n, m) \/ decide_handler(n, m)
    <3>1. m.inst \in Inst /\ m.value \in Value
      BY <2>1, MessageType DEF two_b_handler, decide_handler
    <3>2. learn(n, m.inst, m.value) \/ UNCHANGED log_vars
      BY <2>1 DEF two_b_handler, decide_handler
    <3> QED
      BY <3>1, <3>2 DEF learn, log_vars
  <2>2. CASE one_a_handler(n, m) \/ one_b_handler(n, m) \/ two_a_handler(n, m)
    BY <2>2 DEF one_a_handler, one_b_handler, two_a_handler, log_vars
  <2>3. CASE missing_two_a_handler(n, m) \/ missing_decision_handler(n, m)
             \/ keep_alive_handler(n, m)
    BY <2>3 DEF missing_two_a_handler, missing_decision_handler, keep_alive_handler, log_vars
  <2> QED
    BY <1>3, <2>1, <2>2, <2>3 DEF Handles
<1> QED
  BY <1>1, <1>2, <1>3, Steps

\* A step changes neither log nor reports, or enters and reports a value for an
\* instance that was open at the server.
LEMMA ReportStep ==
  ASSUME SysInv, ReportedIsLogged, Next
  PROVE  \/ UNCHANGED <<my_log, decided>>
         \/ \E n \in Node, i \in Inst, v \in Value :
               /\ ~my_log[n][i].present
               /\ my_log' = [my_log EXCEPT ![n][i] = [present |-> TRUE, decision |-> v]]
               /\ <<n, i, v>> \notin decided
               /\ decided' = decided \cup {<<n, i, v>>}
<1>0. SysInv' /\ TypeOK
  BY StepInv DEF SysInv
<1> SUFFICES ASSUME NEW n \in Node, NEW i \in Inst, NEW v \in Value,
                    my_log' = [my_log EXCEPT ![n][i] = [present |-> TRUE, decision |-> v]],
                    decided' = decided \cup {<<n, i, v>>}
             PROVE  \/ UNCHANGED <<my_log, decided>>
                    \/ ~my_log[n][i].present /\ <<n, i, v>> \notin decided
  BY LogsMade
<1>1. PICK w \in [present : BOOLEAN, decision : Value] : w = my_log[n][i]
  BY <1>0 DEF TypeOK
<1>2. CASE w.present
  <2>1. <<i, w.decision>> \in decision'
    BY <1>1, <1>2, DecisionsStay DEF SysInv, LogsAreDecided
  <2>2. <<i, v>> \in decision'
    <3>1. <<n, i, v>> \in decided'
      OBVIOUS
    <3> QED
      BY <1>0, <3>1 DEF SysInv, ReportsAreDecided
  <2>3. w.decision = v
    <3>1. LogAgrees'
      BY <1>0, AgreementNext DEF SysInv
    <3>2. w.decision \in Value
      BY <1>1
    <3> QED
      BY <2>1, <2>2, <3>1, <3>2 DEF LogAgrees
  <2>4. w = [present |-> TRUE, decision |-> v]
    BY <1>1, <1>2, <2>3
  <2>5. my_log' = my_log
    <3>1. my_log' = [my_log EXCEPT ![n][i] = my_log[n][i]]
      BY <1>1, <2>4
    <3>2. my_log \in [Node -> [Inst -> [present : BOOLEAN, decision : Value]]]
      BY <1>0 DEF TypeOK
    <3> QED
      BY <3>1, <3>2
  <2>6. <<n, i, v>> \in decided
    BY <1>1, <2>4 DEF ReportedIsLogged
  <2> QED
    BY <2>5, <2>6
<1>3. CASE ~w.present
  <2>1. my_log[n][i] # [present |-> TRUE, decision |-> v]
    BY <1>1, <1>3
  <2>2. <<n, i, v>> \notin decided
    BY <2>1 DEF ReportedIsLogged
  <2> QED
    BY <1>1, <1>3, <2>2
<1> QED
  BY <1>2, <1>3

LEMMA InitReported == Init => ReportedIsLogged
  BY DEF Init, ReportedIsLogged, no_decision

LEMMA StepReported == SysInv /\ ReportedIsLogged /\ [Next]_vars => ReportedIsLogged'
<1> SUFFICES ASSUME SysInv, ReportedIsLogged, [Next]_vars
             PROVE  ReportedIsLogged'
  OBVIOUS
<1>0. TypeOK
  BY DEF SysInv
<1>1. CASE UNCHANGED <<my_log, decided>>
  BY <1>1 DEF ReportedIsLogged
<1>2. CASE Next /\ ~UNCHANGED <<my_log, decided>>
  <2>1. PICK n \in Node, i \in Inst, v \in Value :
           /\ ~my_log[n][i].present
           /\ my_log' = [my_log EXCEPT ![n][i] = [present |-> TRUE, decision |-> v]]
           /\ <<n, i, v>> \notin decided
           /\ decided' = decided \cup {<<n, i, v>>}
    BY <1>2, ReportStep
  <2> SUFFICES ASSUME NEW p \in Node, NEW j \in Inst, NEW u \in Value
               PROVE  <<p, j, u>> \in decided' <=> my_log'[p][j] = [present |-> TRUE, decision |-> u]
    BY DEF ReportedIsLogged
  <2>2. <<p, j, u>> \in decided <=> my_log[p][j] = [present |-> TRUE, decision |-> u]
    BY DEF ReportedIsLogged
  <2>3. CASE p = n /\ j = i
    <3>1. my_log'[p][j] = [present |-> TRUE, decision |-> v]
      BY <1>0, <2>1, <2>3 DEF TypeOK
    <3>2. <<p, j, u>> \notin decided
      <4>1. [present |-> TRUE, decision |-> u].present
        OBVIOUS
      <4> QED
        BY <2>1, <2>2, <2>3, <4>1
    <3>3. (u = v) <=> ([present |-> TRUE, decision |-> v] = [present |-> TRUE, decision |-> u])
      OBVIOUS
    <3>4. <<p, j, u>> \in decided' <=> u = v
      BY <2>1, <2>3, <3>2
    <3> QED
      BY <3>1, <3>3, <3>4
  <2>4. CASE ~(p = n /\ j = i)
    <3>1. my_log'[p][j] = my_log[p][j]
      BY <1>0, <2>1, <2>4 DEF TypeOK
    <3>2. <<p, j, u>> \in decided' <=> <<p, j, u>> \in decided
      BY <2>1, <2>4
    <3> QED
      BY <2>2, <3>1, <3>2
  <2> QED
    BY <2>3, <2>4
<1> QED
  BY <1>1, <1>2 DEF vars, log_vars
-----------------------------------------------------------------------------
(***************************************************************************)
(* The servers are what the adapter takes them for.                        *)
(***************************************************************************)

\* What the servers answer and what they reported, after a step that learns.
LEMMA AnswersNext ==
  ASSUME TypeOK, NEW n \in Node, NEW i \in Inst, NEW v \in Value,
         ~my_log[n][i].present,
         my_log' = [my_log EXCEPT ![n][i] = [present |-> TRUE, decision |-> v]]
  PROVE  /\ answers_of[n][i] = no_value
         /\ answers_of' = [answers_of EXCEPT ![n][i] = v]
<1>1. my_log \in [Node -> [Inst -> [present : BOOLEAN, decision : Value]]]
  BY DEF TypeOK
<1>2. answers_of[n][i] = no_value
  BY DEF answers_of, query
<1>3. \A p \in Node, j \in Inst :
         query(p, j)' = IF p = n /\ j = i THEN v ELSE query(p, j)
  <2> SUFFICES ASSUME NEW p \in Node, NEW j \in Inst
               PROVE  query(p, j)' = IF p = n /\ j = i THEN v ELSE query(p, j)
    OBVIOUS
  <2>1. CASE p = n /\ j = i
    <3>1. my_log'[p][j] = [present |-> TRUE, decision |-> v]
      BY <1>1, <2>1
    <3> QED
      BY <2>1, <3>1 DEF query
  <2>2. CASE ~(p = n /\ j = i)
    <3>1. my_log'[p][j] = my_log[p][j]
      BY <1>1, <2>2
    <3> QED
      BY <2>2, <3>1 DEF query
  <2> QED
    BY <2>1, <2>2
<1>4. answers_of' = [p \in Node |-> [j \in Inst |-> IF p = n /\ j = i THEN v ELSE query(p, j)]]
  BY <1>3 DEF answers_of
<1> QED
  BY <1>2, <1>4 DEF answers_of

LEMMA ReportsNext ==
  ASSUME NEW n \in Node, NEW i \in Inst, NEW v \in Value, decided' = decided \cup {<<n, i, v>>}
  PROVE  reports' = reports \cup {<<i, v>>}
<1>1. <<n, i, v>>[2] = i /\ <<n, i, v>>[3] = v
  OBVIOUS
<1> QED
  BY <1>1 DEF reports

LEMMA AdapterStep ==
  SysInv /\ ReportedIsLogged /\ [ServiceNext]_service_vars => [A!Next]_(A!vars)
<1> SUFFICES ASSUME SysInv, ReportedIsLogged, [ServiceNext]_service_vars
             PROVE  [A!Next]_(A!vars)
  OBVIOUS
<1>0. TypeOK
  BY DEF SysInv
<1>1. CASE UNCHANGED <<my_log, decided, adapter_vars>>
  BY <1>1 DEF A!vars, query, adapter_vars
<1>2. CASE ServiceNext /\ ~UNCHANGED <<my_log, decided, adapter_vars>>
  <2>1. Next /\ decide
    BY <1>2 DEF ServiceNext
  <2>2. ~UNCHANGED <<my_log, decided>>
    BY <1>2, <2>1 DEF decide
  <2>3. PICK n \in Node, i \in Inst, v \in Value :
           /\ ~my_log[n][i].present
           /\ my_log' = [my_log EXCEPT ![n][i] = [present |-> TRUE, decision |-> v]]
           /\ <<n, i, v>> \notin decided
           /\ decided' = decided \cup {<<n, i, v>>}
    BY <2>1, <2>2, ReportStep
  <2>4. A!pass_on(n, i, v)
    <3>1. \A d \in decided' \ decided : d[1] = n /\ d[2] = i /\ d[3] = v
      BY <2>3
    <3>2. decided' # decided
      BY <2>3
    <3> QED
      BY <2>1, <3>1, <3>2 DEF decide
  <2>5. answers_of[n][i] = no_value /\ answers_of' = [answers_of EXCEPT ![n][i] = v]
    BY <1>0, <2>3, AnswersNext
  <2>6. reports' = reports \cup {<<i, v>>}
    BY <2>3, ReportsNext
  <2>7. \A V \in Value : <<i, V>> \in reports => V = v
    <3>1. SysInv' /\ LogAgrees'
      BY <2>1, StepInv, AgreementNext DEF SysInv
    <3>2. reports' \subseteq decision'
      BY <3>1 DEF SysInv, ReportsAreDecided, reports
    <3> QED
      BY <2>6, <3>1, <3>2 DEF LogAgrees
  <2>8. A!decide(n, i, v)
    BY <2>4, <2>5, <2>6, <2>7 DEF A!decide, A!Service!decide, answers_of, reports
  <2> QED
    BY <2>8 DEF A!Next
<1> QED
  BY <1>1, <1>2 DEF service_vars, vars, log_vars

\* The steps of the service are steps of the servers.
LEMMA ServersStep == [ServiceNext]_service_vars => [Next]_vars
  BY DEF ServiceNext, service_vars

\* What is invariant for the servers stays so with adapters on them, and the log of a
\* server holds what it reported and nothing else.
THEOREM ServiceInvariance == ServiceSpec => [](SysInv /\ ReportedIsLogged)
<1>1. ServiceInit => SysInv /\ ReportedIsLogged
  BY InitInv, InitReported DEF ServiceInit
<1>2. SysInv /\ ReportedIsLogged /\ [ServiceNext]_service_vars => SysInv' /\ ReportedIsLogged'
  BY ServersStep, StepInv, StepReported
<1> QED
  BY <1>1, <1>2, PTL DEF ServiceSpec

\* The servers call the adapter as it expects: once with each decision that is new
\* to a server, in any order, with the value all others report for the instance, and
\* after the server has entered it in the log the adapter reads (query).
THEOREM ImplementsAdapter == ServiceSpec => AdapterSpec
<1>1. ServiceInit => A!Init
  BY DEF ServiceInit
<1> QED
  BY <1>1, AdapterStep, ServiceInvariance, PTL DEF ServiceSpec, AdapterSpec, A!Spec
-----------------------------------------------------------------------------
(***************************************************************************)
(* The service is one log.                                                 *)
(***************************************************************************)
LEMMA AdapterData == AP!Assumptions
  BY NoValueAssumption, InstsAssumption DEF AP!Assumptions

\* The adapter of the model and the one of the theorems are the same.
LEMMA SameAdapter ==
  /\ A!Init <=> AP!Init
  /\ [A!Next]_(A!vars) <=> [AP!Next]_(AP!vars)
  BY DEF A!Init, A!Next, A!vars, A!decide, A!pass_on, A!new_max, A!applies_to, A!apply,
         A!Service!Init, A!Service!decide,
         AP!Init, AP!Next, AP!vars, AP!decide, AP!pass_on, AP!new_max, AP!applies_to, AP!apply,
         AP!Service!Init, AP!Service!decide

LEMMA SameLog ==
  /\ A!Log!Init <=> AP!Log!Init
  /\ [A!Log!Next]_committed <=> [AP!Log!Next]_committed
  BY DEF A!Log!Init, A!Log!Next, A!Log!report_commits, A!Log!begins_with,
         AP!Log!Init, AP!Log!Next, AP!Log!report_commits, AP!Log!begins_with

\* The whole Multi-Paxos service keeps the promise Raft makes, over any network
\* that forges nothing and with any number of leaders: what the servers pass on
\* (callback->committed in multipaxos-consensus.h) are prefixes of one log, each
\* entry once and in order.
THEOREM ServiceIsOneLog == ServiceSpec => PassedOnAsOneLog
<1>1. AdapterSpec => AP!Spec
  BY SameAdapter, PTL DEF AdapterSpec, A!Spec, AP!Spec
<1>2. AP!Spec => AP!PassedOnAsOneLog
  BY AdapterData, AP!ImplementsCommittedLog
<1>3. AP!PassedOnAsOneLog => PassedOnAsOneLog
  BY SameLog, PTL DEF PassedOnAsOneLog, A!PassedOnAsOneLog, AP!PassedOnAsOneLog, A!Log!Spec, AP!Log!Spec
<1> QED
  BY <1>1, <1>2, <1>3, ImplementsAdapter
=============================================================================
