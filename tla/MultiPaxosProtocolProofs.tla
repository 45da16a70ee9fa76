---------------------- MODULE MultiPaxosProtocolProofs ----------------------
(***************************************************************************)
(* The invariants of multi_paxos_protocol.ivy, proved for any set of nodes *)
(* with intersecting quorums and any rounds, instances and commands.       *)
(***************************************************************************)
EXTENDS MultiPaxosProtocol, TLAPS

USE DEF none

-----------------------------------------------------------------------------
\* Two quorums share a node, so a quorum has a member.
LEMMA QuorumNonEmpty == \A q \in Quorum : \E n \in Node : n \in q
  BY QuorumAssumption

\* Rounds are numbers.
LEMMA RoundIsInt == \A r \in Round : r \in Int
  BY RoundAssumption

\* A segment has its two bounds and a vote for each instance between them.
LEMMA SegmentShape ==
  ASSUME NEW m \in Segment
  PROVE  /\ m.first \in Int
         /\ m.upper \in Int
         /\ m.vote \in [m.first .. m.upper - 1 -> Vote]
<1> DEFINE Of(f, u) == [first : {f}, upper : {u}, vote : [f .. u - 1 -> Vote]]
<1>1. m \in UNION {Of(f, u) : f \in Bound, u \in Bound}
  BY DEF Segment
<1> HIDE DEF Of
<1>2. PICK f \in Bound, u \in Bound : m \in Of(f, u)
  BY <1>1
<1>3. f \in Int /\ u \in Int
  BY InstAssumption DEF Bound
<1> QED
  BY <1>2, <1>3 DEF Of

\* Every vote that can be looked up in a segment is typed.
LEMMA MaxvoteType ==
  ASSUME NEW m \in Segment, NEW i \in Inst
  PROVE  maxvote(m, i) \in Vote
<1>1. CASE m.first <= i /\ i < m.upper
  <2>1. i \in m.first .. m.upper - 1
    BY <1>1, SegmentShape, InstAssumption
  <2> QED
    BY <1>1, <2>1, SegmentShape DEF maxvote
<1>2. CASE ~(m.first <= i /\ i < m.upper)
  BY <1>2, RoundAssumption, ValueAssumption DEF maxvote, not_a_vote, Vote
<1> QED
  BY <1>1, <1>2

\* What the leader of a round proposes on activation is one value per instance
\* of the segment.
LEMMA RecoveredType ==
  ASSUME NEW r \in Round, NEW m \in Segment
  PROVE  recovered(r, m) \subseteq Inst \X Round \X Value
<1> SUFFICES ASSUME NEW i \in Inst
    PROVE <<i, r, IF maxvote(m, i).maxr # none THEN maxvote(m, i).maxv ELSE no_op>>
             \in Inst \X Round \X Value
  BY DEF recovered
<1> QED
  BY MaxvoteType, ValueAssumption DEF Vote
-----------------------------------------------------------------------------
\* Each relation keeps its type under every action of the protocol.
THEOREM TypeCorrect == Spec => []TypeOK
<1>1. Init => TypeOK
  BY RoundAssumption DEF Init, TypeOK
<1>2. TypeOK /\ [Next]_vars => TypeOK'
  <2> SUFFICES ASSUME TypeOK, [Next]_vars
               PROVE  TypeOK'
    OBVIOUS
  <2>1. ASSUME NEW n \in Node, NEW r \in Round, join_round(n, r)
        PROVE  TypeOK'
    BY <2>1 DEF TypeOK, join_round
  <2>2. ASSUME NEW r \in Round, NEW q \in Quorum, NEW m \in Segment,
               receive_join_acks(r, q, m)
        PROVE  TypeOK'
    <3>1. {<<r, i>> : i \in {i \in Inst : m.upper <= i}} \subseteq Round \X Inst
      OBVIOUS
    <3> QED
      BY <2>2, <3>1, RecoveredType DEF TypeOK, receive_join_acks
  <2>3. ASSUME NEW r \in Round, NEW i \in Inst, NEW v \in Value, propose(r, i, v)
        PROVE  TypeOK'
    BY <2>3 DEF TypeOK, propose
  <2>4. ASSUME NEW n \in Node, NEW i \in Inst, NEW r \in Round, NEW v \in Value,
               cast_vote(n, i, r, v)
        PROVE  TypeOK'
    BY <2>4 DEF TypeOK, cast_vote
  <2>5. ASSUME NEW i \in Inst, NEW r \in Round, NEW v \in Value, NEW q \in Quorum,
               decide(i, r, v, q)
        PROVE  TypeOK'
    BY <2>5 DEF TypeOK, decide
  <2>6. CASE UNCHANGED vars
    BY <2>6 DEF TypeOK, vars
  <2> QED
    BY <2>1, <2>2, <2>3, <2>4, <2>5, <2>6 DEF Next
<1> QED
  BY <1>1, <1>2, PTL DEF Spec
-----------------------------------------------------------------------------
(***************************************************************************)
(* The inductive invariant.                                                *)
(***************************************************************************)

\* In the initial state nothing has been said.
LEMMA InitInv == Init => Inv
<1> SUFFICES ASSUME Init PROVE Inv
  OBVIOUS
<1>1. TypeOK
  BY RoundAssumption DEF Init, TypeOK
<1>2. /\ ProposedInActive /\ OneProposalPerRound /\ VotedIsProposed
      /\ NoneIsReserved /\ JoinedHasLeftLower /\ DecidedByQuorum
  BY DEF Init, ProposedInActive, OneProposalPerRound, VotedIsProposed,
         NoneIsReserved, JoinedHasLeftLower, DecidedByQuorum
<1>4. AvailableIsUnproposed
  BY DEF Init, AvailableIsUnproposed
<1>3. RuledOutIsNotChoosable
  BY DEF Init, RuledOutIsNotChoosable, rules_out
<1> QED
  BY <1>1, <1>2, <1>3, <1>4 DEF Inv

\* Leaving rounds only strengthens the invariant.
LEMMA JoinInv ==
  ASSUME Inv, TypeOK', NEW n \in Node, NEW r \in Round, join_round(n, r)
  PROVE  Inv'
<1> USE DEF Inv
<1>1. /\ left_round' = left_round \cup {<<n, R>> : R \in {R \in Round : R < r}}
      /\ joined_round' = joined_round \cup {<<n, r>>}
      /\ UNCHANGED <<proposal, vote, decision, active, available>>
  BY DEF join_round
<1>2. ProposedInActive' /\ OneProposalPerRound' /\ VotedIsProposed' /\ NoneIsReserved'
  BY <1>1 DEF ProposedInActive, OneProposalPerRound, VotedIsProposed, NoneIsReserved
<1>3. JoinedHasLeftLower'
  BY <1>1 DEF JoinedHasLeftLower
<1>4. DecidedByQuorum'
  BY <1>1 DEF DecidedByQuorum, chosen
<1>5. AvailableIsUnproposed'
  BY <1>1 DEF AvailableIsUnproposed
<1>6. RuledOutIsNotChoosable'
  BY <1>1 DEF RuledOutIsNotChoosable, rules_out
<1> QED
  BY <1>2, <1>3, <1>4, <1>5, <1>6 DEF Inv

\* What the acknowledgements of a quorum establish about the round they
\* activate: whatever the leader proposes or keeps available, every quorum has
\* a member that left each lower round without voting for anything else.
LEMMA AcksRuleOut ==
  ASSUME Inv, NEW r \in Round, NEW q \in Quorum, NEW m \in Segment,
         receive_join_acks(r, q, m),
         NEW i \in Inst, m.first <= i,
         NEW r1 \in Round, r1 < r, NEW v \in Value, NEW Q \in Quorum,
         maxvote(m, i).maxr # none => maxvote(m, i).maxv # v
  PROVE  \E n \in Q : <<n, r1>> \in left_round /\ <<n, i, r1, v>> \notin vote
<1> DEFINE x == maxvote(m, i)
<1>1. PICK n \in Node : n \in q /\ n \in Q
  BY QuorumAssumption
<1>2. <<n, r1>> \in left_round
  BY <1>1 DEF receive_join_acks, Inv, JoinedHasLeftLower
<1>3. x \in Vote
  BY MaxvoteType
<1>4. safe_at(q, i, r, x)
  BY DEF receive_join_acks
<1> HIDE DEF x
<1>5. CASE \A w \in vote : ~(w[1] \in q /\ w[2] = i /\ w[3] < r)
  <2>1. <<n, i, r1, v>> \notin vote
    BY <1>1, <1>5
  <2> QED
    BY <1>1, <1>2, <2>1
<1>6. CASE <<i, x.maxr, x.maxv>> \in proposal /\ votes_between(q, i, x.maxr, r) = {}
  <2>1. x.maxr \in Round /\ x.maxv \in Value
    BY <1>3 DEF Vote
  <2>2. x.maxr # none
    BY <1>6 DEF Inv, NoneIsReserved
  <2>3. x.maxv # v
    BY <2>2 DEF x
  <2>4. CASE r1 < x.maxr
    <3>1. rules_out(x.maxr, i, v)
      BY <1>6, <2>1, <2>3 DEF rules_out
    <3> QED
      BY <2>1, <2>4, <3>1 DEF Inv, RuledOutIsNotChoosable
  <2>5. CASE r1 = x.maxr
    <3>1. <<n, i, r1, v>> \notin vote
      BY <1>6, <2>1, <2>3, <2>5 DEF Inv, VotedIsProposed, OneProposalPerRound
    <3> QED
      BY <1>1, <1>2, <3>1
  <2>6. CASE x.maxr < r1
    <3>1. <<n, i, r1, v>> \notin vote
      BY <1>1, <1>6, <2>6 DEF votes_between
    <3> QED
      BY <1>1, <1>2, <3>1
  <2> QED
    <3>1. r1 \in Int /\ x.maxr \in Int
      BY <2>1, RoundIsInt
    <3> QED
      BY <2>4, <2>5, <2>6, <3>1
<1> QED
  BY <1>4, <1>5, <1>6 DEF safe_at

\* Activation: the recovered proposals and the available instances only rule
\* out what the acknowledgements rule out.
LEMMA ReceiveInv ==
  ASSUME Inv, TypeOK', NEW r \in Round, NEW q \in Quorum, NEW m \in Segment,
         receive_join_acks(r, q, m)
  PROVE  Inv'
<1>1. /\ r # none
      /\ r \notin active
      /\ active' = active \cup {r}
      /\ available' = available \cup {<<r, i>> : i \in {i \in Inst : m.upper <= i}}
      /\ proposal' = proposal \cup recovered(r, m)
      /\ UNCHANGED <<left_round, joined_round, vote, decision>>
      /\ m.first <= m.upper
  BY DEF receive_join_acks
<1>2. \A p \in recovered(r, m) :
         \E i \in Inst : /\ m.first <= i
                        /\ p = <<i, r, IF maxvote(m, i).maxr # none
                                         THEN maxvote(m, i).maxv ELSE no_op>>
  BY DEF recovered
<1>3. \A i \in Inst, v \in Value : <<i, r, v>> \notin proposal
  BY <1>1 DEF Inv, ProposedInActive
<1>4. ProposedInActive'
  BY <1>1, <1>2 DEF Inv, ProposedInActive
<1>5. OneProposalPerRound'
  <2> SUFFICES ASSUME NEW i \in Inst, NEW r2 \in Round,
                      NEW v1 \in Value, NEW v2 \in Value,
                      <<i, r2, v1>> \in proposal', <<i, r2, v2>> \in proposal'
               PROVE  v1 = v2
    BY DEF OneProposalPerRound
  <2>1. CASE r2 = r
    BY <1>1, <1>2, <1>3, <2>1
  <2>2. CASE r2 # r
    BY <1>1, <1>2, <2>2 DEF Inv, OneProposalPerRound
  <2> QED
    BY <2>1, <2>2
<1>6. VotedIsProposed' /\ JoinedHasLeftLower' /\ DecidedByQuorum'
  BY <1>1 DEF Inv, VotedIsProposed, JoinedHasLeftLower, DecidedByQuorum, chosen
<1>7. NoneIsReserved'
  BY <1>1, <1>2 DEF Inv, NoneIsReserved
<1>8. RuledOutIsNotChoosable'
  <2> SUFFICES ASSUME NEW i \in Inst, NEW r1 \in Round, NEW r2 \in Round,
                      NEW v \in Value, NEW Q \in Quorum, r1 < r2, rules_out(r2, i, v)'
               PROVE  \E n \in Q : <<n, r1>> \in left_round /\ <<n, i, r1, v>> \notin vote
    BY <1>1 DEF RuledOutIsNotChoosable
  <2>1. CASE r2 # r
    <3>1. rules_out(r2, i, v)
      BY <1>1, <1>2, <2>1 DEF rules_out
    <3> QED
      BY <3>1 DEF Inv, RuledOutIsNotChoosable
  <2>2. CASE r2 = r /\ \E v2 \in Value : v # v2 /\ <<i, r, v2>> \in proposal'
    <3>1. PICK v2 \in Value : v # v2 /\ <<i, r, v2>> \in proposal'
      BY <2>2
    <3>2. <<i, r, v2>> \in recovered(r, m)
      BY <1>1, <1>3, <3>1
    <3>3. m.first <= i /\ (maxvote(m, i).maxr # none => maxvote(m, i).maxv # v)
      BY <1>2, <3>1, <3>2
    <3> QED
      BY <2>2, <3>3, AcksRuleOut
  <2>3. CASE r2 = r /\ <<r, i>> \in available /\ <<i, r, v>> \notin proposal'
    <3>1. rules_out(r2, i, v)
      BY <1>1, <2>3 DEF rules_out
    <3> QED
      BY <3>1 DEF Inv, RuledOutIsNotChoosable
  <2>4. CASE r2 = r /\ m.upper <= i
    <3>1. maxvote(m, i) = not_a_vote
      <4>1. ~(i < m.upper)
        BY <2>4, InstAssumption, SegmentShape
      <4> QED
        BY <4>1 DEF maxvote
    <3>2. m.first <= i
      BY <1>1, <2>4, InstAssumption, SegmentShape
    <3> QED
      BY <2>4, <3>1, <3>2, AcksRuleOut DEF not_a_vote
  <2> QED
    BY <1>1, <2>1, <2>2, <2>3, <2>4 DEF rules_out
<1>9. AvailableIsUnproposed'
  <2> SUFFICES ASSUME NEW r2 \in Round, NEW i \in Inst, <<r2, i>> \in available'
               PROVE  /\ r2 \in active'
                      /\ \A v \in Value : <<i, r2, v>> \notin proposal'
    BY DEF AvailableIsUnproposed
  <2>1. CASE <<r2, i>> \in available
    <3>1. r2 # r
      BY <1>1, <2>1 DEF Inv, AvailableIsUnproposed
    <3> QED
      BY <1>1, <1>2, <2>1, <3>1 DEF Inv, AvailableIsUnproposed
  <2>2. CASE r2 = r /\ m.upper <= i
    <3>2. \A v \in Value : <<i, r, v>> \notin recovered(r, m)
      BY <2>2, SegmentShape, InstAssumption DEF recovered
    <3> QED
      BY <1>1, <1>3, <2>2, <3>2
  <2> QED
    BY <1>1, <2>1, <2>2
<1> QED
  BY <1>4, <1>5, <1>6, <1>7, <1>8, <1>9 DEF Inv

\* A fresh proposal is made where the round could still propose anything, so
\* every other value was ruled out there already.
LEMMA ProposeInv ==
  ASSUME Inv, TypeOK', NEW r \in Round, NEW i \in Inst, NEW v \in Value,
         propose(r, i, v)
  PROVE  Inv'
<1>1. /\ r # none
      /\ r \in active
      /\ <<r, i>> \in available
      /\ \A V \in Value : <<i, r, V>> \notin proposal
      /\ available' = available \ {<<r, i>>}
      /\ proposal' = proposal \cup {<<i, r, v>>}
      /\ UNCHANGED <<left_round, joined_round, vote, decision, active>>
  BY DEF propose
<1>2. /\ ProposedInActive' /\ OneProposalPerRound' /\ VotedIsProposed'
      /\ NoneIsReserved' /\ JoinedHasLeftLower' /\ DecidedByQuorum'
  BY <1>1 DEF Inv, ProposedInActive, OneProposalPerRound, VotedIsProposed,
              NoneIsReserved, JoinedHasLeftLower, DecidedByQuorum, chosen
<1>3. \A j \in Inst, r2 \in Round, w \in Value :
         rules_out(r2, j, w)' => rules_out(r2, j, w)
  BY <1>1 DEF rules_out
<1>4. RuledOutIsNotChoosable'
  BY <1>1, <1>3 DEF Inv, RuledOutIsNotChoosable
<1>5. AvailableIsUnproposed'
  BY <1>1 DEF Inv, AvailableIsUnproposed
<1> QED
  BY <1>2, <1>4, <1>5 DEF Inv

\* A vote is cast in a round its node has not left, so it takes back no
\* witness of RuledOutIsNotChoosable.
LEMMA CastInv ==
  ASSUME Inv, TypeOK', NEW n \in Node, NEW i \in Inst, NEW r \in Round,
         NEW v \in Value, cast_vote(n, i, r, v)
  PROVE  Inv'
<1>1. /\ r # none
      /\ <<n, r>> \notin left_round
      /\ <<i, r, v>> \in proposal
      /\ vote' = vote \cup {<<n, i, r, v>>}
      /\ UNCHANGED <<left_round, joined_round, proposal, decision, active, available>>
  BY DEF cast_vote
<1>2. /\ ProposedInActive' /\ OneProposalPerRound' /\ VotedIsProposed'
      /\ NoneIsReserved' /\ JoinedHasLeftLower'
  BY <1>1 DEF Inv, ProposedInActive, OneProposalPerRound, VotedIsProposed,
              NoneIsReserved, JoinedHasLeftLower
<1>3. DecidedByQuorum'
  BY <1>1 DEF Inv, DecidedByQuorum, chosen
<1>4. AvailableIsUnproposed'
  BY <1>1 DEF Inv, AvailableIsUnproposed
<1>5. RuledOutIsNotChoosable'
  BY <1>1 DEF Inv, RuledOutIsNotChoosable, rules_out
<1> QED
  BY <1>2, <1>3, <1>4, <1>5 DEF Inv

\* A decision reports a value that a quorum voted for.
LEMMA DecideInv ==
  ASSUME Inv, TypeOK', NEW i \in Inst, NEW r \in Round, NEW v \in Value,
         NEW q \in Quorum, decide(i, r, v, q)
  PROVE  Inv'
<1>1. /\ \A n \in q : <<n, i, r, v>> \in vote
      /\ decision' = decision \cup {<<i, v>>}
      /\ UNCHANGED <<left_round, joined_round, proposal, vote, active, available>>
  BY DEF decide
<1>2. /\ ProposedInActive' /\ OneProposalPerRound' /\ VotedIsProposed'
      /\ NoneIsReserved' /\ JoinedHasLeftLower'
  BY <1>1 DEF Inv, ProposedInActive, OneProposalPerRound, VotedIsProposed,
              NoneIsReserved, JoinedHasLeftLower
<1>3. DecidedByQuorum'
  BY <1>1 DEF Inv, DecidedByQuorum, chosen
<1>4. AvailableIsUnproposed'
  BY <1>1 DEF Inv, AvailableIsUnproposed
<1>5. RuledOutIsNotChoosable'
  BY <1>1 DEF Inv, RuledOutIsNotChoosable, rules_out
<1> QED
  BY <1>2, <1>3, <1>4, <1>5 DEF Inv

\* Steps of other variables change nothing.
LEMMA StutterInv == Inv /\ UNCHANGED vars => Inv'
<1> SUFFICES ASSUME Inv, UNCHANGED vars
             PROVE  Inv'
  OBVIOUS
<1>1. /\ TypeOK' /\ ProposedInActive' /\ OneProposalPerRound' /\ VotedIsProposed'
      /\ NoneIsReserved' /\ JoinedHasLeftLower'
  BY DEF vars, Inv, TypeOK, ProposedInActive, OneProposalPerRound,
         VotedIsProposed, NoneIsReserved, JoinedHasLeftLower
<1>2. DecidedByQuorum' /\ AvailableIsUnproposed'
  BY DEF vars, Inv, DecidedByQuorum, chosen, AvailableIsUnproposed
<1>3. RuledOutIsNotChoosable'
  BY DEF vars, Inv, RuledOutIsNotChoosable, rules_out
<1> QED
  BY <1>1, <1>2, <1>3 DEF Inv

-----------------------------------------------------------------------------
(***************************************************************************)
(* The servers call several of these actions in one step.  The invariant   *)
(* survives that too.                                                      *)
(***************************************************************************)

\* A server joins a round, or not, and votes in it in the same step.
LEMMA JoinVoteInv ==
  ASSUME Inv, TypeOK',
         NEW n \in Node, NEW r \in Round, r # none,
         \/ UNCHANGED <<left_round, joined_round>>
         \/ /\ left_round' = left_round \cup {<<n, R>> : R \in {R \in Round : R < r}}
            /\ joined_round' = joined_round \cup {<<n, r>>},
         <<n, r>> \notin left_round,
         \/ UNCHANGED vote
         \/ \E i \in Inst, v \in Value :
               <<i, r, v>> \in proposal /\ vote' = vote \cup {<<n, i, r, v>>},
         UNCHANGED <<proposal, decision, active, available>>
  PROVE  Inv'
<1> USE DEF Inv
<1>1. /\ left_round \subseteq left_round'
      /\ vote \subseteq vote'
      /\ \A w \in vote' : w \in vote \/ (/\ w[1] = n /\ w[3] = r
                                         /\ <<w[2], w[3], w[4]>> \in proposal)
  <2>1. left_round \subseteq left_round'
    OBVIOUS
  <2>2. CASE UNCHANGED vote
    BY <2>1, <2>2
  <2>3. ASSUME NEW i \in Inst, NEW v \in Value,
               <<i, r, v>> \in proposal, vote' = vote \cup {<<n, i, r, v>>}
        PROVE  /\ vote \subseteq vote'
               /\ \A w \in vote' : w \in vote \/ (/\ w[1] = n /\ w[3] = r
                                                  /\ <<w[2], w[3], w[4]>> \in proposal)
    BY <2>3
  <2> QED
    BY <2>1, <2>2, <2>3
<1>2. ProposedInActive' /\ OneProposalPerRound' /\ NoneIsReserved'
  BY <1>1 DEF ProposedInActive, OneProposalPerRound, NoneIsReserved
<1>3. VotedIsProposed'
  BY <1>1 DEF VotedIsProposed
<1>4. JoinedHasLeftLower'
  BY DEF JoinedHasLeftLower
<1>5. DecidedByQuorum'
  BY <1>1 DEF DecidedByQuorum, chosen
<1>6. AvailableIsUnproposed'
  BY DEF AvailableIsUnproposed
<1>7. RuledOutIsNotChoosable'
  <2> SUFFICES ASSUME NEW i \in Inst, NEW r1 \in Round, NEW r2 \in Round, NEW v \in Value,
                      NEW q \in Quorum, r1 < r2, rules_out(r2, i, v)'
               PROVE  \E m \in q : <<m, r1>> \in left_round' /\ <<m, i, r1, v>> \notin vote'
    BY DEF RuledOutIsNotChoosable
  <2>1. rules_out(r2, i, v)
    BY DEF rules_out
  <2>2. PICK m \in q : <<m, r1>> \in left_round /\ <<m, i, r1, v>> \notin vote
    BY <2>1 DEF RuledOutIsNotChoosable
  <2> QED
    BY <1>1, <2>2
<1> QED
  BY <1>2, <1>3, <1>4, <1>5, <1>6, <1>7

\* The leader of a round votes for its proposal in the step that makes it.
LEMMA ProposeVoteInv ==
  ASSUME Inv, TypeOK',
         NEW n \in Node, NEW r \in Round, NEW i \in Inst, NEW v \in Value,
         r # none, <<n, r>> \notin left_round,
         r \in active, <<r, i>> \in available,
         available' = available \ {<<r, i>>},
         proposal' = proposal \cup {<<i, r, v>>},
         vote' = vote \cup {<<n, i, r, v>>},
         UNCHANGED <<left_round, joined_round, decision, active>>
  PROVE  Inv'
<1> USE DEF Inv
<1>1. \A V \in Value : <<i, r, V>> \notin proposal
  BY DEF AvailableIsUnproposed
<1>2. ProposedInActive' /\ OneProposalPerRound' /\ NoneIsReserved'
  BY <1>1 DEF ProposedInActive, OneProposalPerRound, NoneIsReserved
<1>3. VotedIsProposed' /\ JoinedHasLeftLower'
  BY DEF VotedIsProposed, JoinedHasLeftLower
<1>4. DecidedByQuorum'
  BY DEF DecidedByQuorum, chosen
<1>5. AvailableIsUnproposed'
  BY DEF AvailableIsUnproposed
<1>6. RuledOutIsNotChoosable'
  <2> SUFFICES ASSUME NEW j \in Inst, NEW r1 \in Round, NEW r2 \in Round, NEW w \in Value,
                      NEW q \in Quorum, r1 < r2, rules_out(r2, j, w)'
               PROVE  \E m \in q : <<m, r1>> \in left_round' /\ <<m, j, r1, w>> \notin vote'
    BY DEF RuledOutIsNotChoosable
  <2>1. rules_out(r2, j, w)
    BY <1>1 DEF rules_out
  <2>2. PICK m \in q : <<m, r1>> \in left_round /\ <<m, j, r1, w>> \notin vote
    BY <2>1 DEF RuledOutIsNotChoosable
  <2> QED
    BY <2>2
<1> QED
  BY <1>2, <1>3, <1>4, <1>5, <1>6

-----------------------------------------------------------------------------
\* The invariants of the isolate hold in every reachable state.
THEOREM Invariance == Spec => []Inv
<1>1. TypeOK' /\ Inv /\ [Next]_vars => Inv'
  <2> SUFFICES ASSUME TypeOK', Inv, [Next]_vars
               PROVE  Inv'
    OBVIOUS
  <2>1. ASSUME NEW n \in Node, NEW r \in Round, join_round(n, r)
        PROVE  Inv'
    BY <2>1, JoinInv
  <2>2. ASSUME NEW r \in Round, NEW q \in Quorum, NEW m \in Segment,
               receive_join_acks(r, q, m)
        PROVE  Inv'
    BY <2>2, ReceiveInv
  <2>3. ASSUME NEW r \in Round, NEW i \in Inst, NEW v \in Value, propose(r, i, v)
        PROVE  Inv'
    BY <2>3, ProposeInv
  <2>4. ASSUME NEW n \in Node, NEW i \in Inst, NEW r \in Round, NEW v \in Value,
               cast_vote(n, i, r, v)
        PROVE  Inv'
    BY <2>4, CastInv
  <2>5. ASSUME NEW i \in Inst, NEW r \in Round, NEW v \in Value, NEW q \in Quorum,
               decide(i, r, v, q)
        PROVE  Inv'
    BY <2>5, DecideInv
  <2>6. CASE UNCHANGED vars
    BY <2>6, StutterInv
  <2> QED
    BY <2>1, <2>2, <2>3, <2>4, <2>5, <2>6 DEF Next
<1> QED
  BY <1>1, InitInv, TypeCorrect, PTL DEF Spec

\* A value chosen in a round is the only one proposed in later rounds.
LEMMA InvBindsLaterRounds == Inv => ChosenBindsLaterRounds
<1> SUFFICES ASSUME Inv, NEW i \in Inst, NEW r \in Round, NEW v \in Value,
                    chosen(i, r, v),
                    NEW r2 \in Round, NEW v2 \in Value,
                    <<i, r2, v2>> \in proposal, r < r2
             PROVE  v2 = v
  BY DEF ChosenBindsLaterRounds, Inv, TypeOK
<1>1. PICK q \in Quorum : \A n \in q : <<n, i, r, v>> \in vote
  BY DEF chosen
<1> QED
  BY <1>1 DEF Inv, RuledOutIsNotChoosable, rules_out

\* A quorum voted for a decided value, so the value was proposed.
LEMMA ChosenIsProposed ==
  ASSUME Inv, NEW i \in Inst, NEW r \in Round, NEW v \in Value, chosen(i, r, v)
  PROVE  <<i, r, v>> \in proposal
<1>1. PICK q \in Quorum : \A n \in q : <<n, i, r, v>> \in vote
  BY DEF chosen
<1>2. PICK n \in Node : n \in q
  BY QuorumNonEmpty
<1> QED
  BY <1>1, <1>2 DEF Inv, VotedIsProposed

\* Two decisions at one instance come from two quorums of votes; the round of
\* the later one proposes only what the earlier one chose.
LEMMA InvAgreement == Inv => Agreement
<1> SUFFICES ASSUME Inv, NEW i \in Inst, NEW v1 \in Value, NEW v2 \in Value,
                    <<i, v1>> \in decision, <<i, v2>> \in decision
             PROVE  v1 = v2
  BY DEF Agreement
<1>1. PICK r1 \in Round : chosen(i, r1, v1)
  BY DEF Inv, DecidedByQuorum
<1>2. PICK r2 \in Round : chosen(i, r2, v2)
  BY DEF Inv, DecidedByQuorum
<1>3. <<i, r1, v1>> \in proposal /\ <<i, r2, v2>> \in proposal
  BY <1>1, <1>2, ChosenIsProposed
<1>4. CASE r1 = r2
  BY <1>3, <1>4 DEF Inv, OneProposalPerRound
<1>5. CASE r1 < r2
  BY <1>1, <1>3, <1>5, InvBindsLaterRounds DEF ChosenBindsLaterRounds
<1>6. CASE r2 < r1
  BY <1>2, <1>3, <1>6, InvBindsLaterRounds DEF ChosenBindsLaterRounds
<1>7. r1 \in Int /\ r2 \in Int
  BY RoundIsInt
<1> QED
  BY <1>4, <1>5, <1>6, <1>7

\* An instance a round may still fill freely is ruled out for every value.
LEMMA InvAvailable == Inv => AvailableIsNotChosen
<1> SUFFICES ASSUME Inv, NEW r2 \in Round, NEW i \in Inst, <<r2, i>> \in available,
                    NEW r \in Round, NEW v \in Value, r < r2, chosen(i, r, v)
             PROVE  FALSE
  BY DEF AvailableIsNotChosen, Inv, TypeOK
<1>1. PICK q \in Quorum : \A n \in q : <<n, i, r, v>> \in vote
  BY DEF chosen
<1>2. rules_out(r2, i, v)
  BY DEF Inv, AvailableIsUnproposed, rules_out
<1> QED
  BY <1>1, <1>2 DEF Inv, RuledOutIsNotChoosable

\* [agreement]: no instance is ever decided with two values.
THEOREM AgreementHolds == Spec => []Agreement
  BY Invariance, InvAgreement, PTL

\* A later round proposes nothing but what an earlier one chose, and keeps free
\* only the instances at which nothing was chosen.
THEOREM ChosenIsSafe == Spec => [](ChosenBindsLaterRounds /\ AvailableIsNotChosen)
  BY Invariance, InvBindsLaterRounds, InvAvailable, PTL

\* The protocol implements the replicated log: a step either decides an
\* instance, consistently with what is decided already, or stutters.
THEOREM Refinement == Spec => LogSpec
<1>1. Init => Log!Init
  BY DEF Init, Log!Init
<1>2. TypeOK' /\ Agreement' /\ [Next]_vars => [Log!Next]_decision
  <2> SUFFICES ASSUME TypeOK', Agreement', Next
               PROVE  Log!Next \/ UNCHANGED decision
    BY DEF vars
  <2>1. ASSUME NEW n \in Node, NEW r \in Round, join_round(n, r)
        PROVE  UNCHANGED decision
    BY <2>1 DEF join_round
  <2>2. ASSUME NEW r \in Round, NEW q \in Quorum, NEW m \in Segment,
               receive_join_acks(r, q, m)
        PROVE  UNCHANGED decision
    BY <2>2 DEF receive_join_acks
  <2>3. ASSUME NEW r \in Round, NEW i \in Inst, NEW v \in Value, propose(r, i, v)
        PROVE  UNCHANGED decision
    BY <2>3 DEF propose
  <2>4. ASSUME NEW n \in Node, NEW i \in Inst, NEW r \in Round, NEW v \in Value,
               cast_vote(n, i, r, v)
        PROVE  UNCHANGED decision
    BY <2>4 DEF cast_vote
  <2>5. ASSUME NEW i \in Inst, NEW r \in Round, NEW v \in Value, NEW q \in Quorum,
               decide(i, r, v, q)
        PROVE  Log!Next
    <3>1. decision' = decision \cup {<<i, v>>}
      BY <2>5 DEF decide
    <3>2. \A V \in Value : <<i, V>> \in decision => V = v
      BY <3>1 DEF Agreement
    <3> QED
      BY <3>1, <3>2 DEF Log!Next, Log!decide
  <2> QED
    BY <2>1, <2>2, <2>3, <2>4, <2>5 DEF Next
<1> QED
  BY <1>1, <1>2, TypeCorrect, AgreementHolds, PTL DEF Spec, LogSpec, Log!Spec
=============================================================================
