------------------------- MODULE MultiPaxosProtocol -------------------------
(***************************************************************************)
(* The high-level Multi-Paxos protocol of multi_paxos_protocol.ivy: the    *)
(* relations it keeps, and its five actions with their requirements.  The  *)
(* implementation (MultiPaxosSystem) calls these actions as ghost code.    *)
(*                                                                         *)
(* A relation is the set of its tuples.                                    *)
(***************************************************************************)
EXTENDS Integers

CONSTANTS
    Node,       \* the servers
    Quorum,     \* the node sets for which nset.majority holds
    Round,      \* the rounds, among them none = 0
    Inst,       \* the instances, i.e. the positions of the log
    Value,      \* the commands
    no_op       \* the command that fills holes

none == 0

ASSUME QuorumAssumption ==
    /\ Quorum \subseteq SUBSET Node
    /\ \A Q1, Q2 \in Quorum : Q1 \cap Q2 # {}
ASSUME RoundAssumption == Round \subseteq Nat /\ none \in Round
ASSUME InstAssumption  == Inst \subseteq Nat
ASSUME ValueAssumption == no_op \in Value

VARIABLES
    left_round,     \* <<n, r>>: n will not vote in r any more
    joined_round,   \* <<n, r>>: n promised r to its leader
    proposal,       \* <<i, r, v>>: v is proposed at i in r
    vote,           \* <<n, i, r, v>>: n voted for v at i in r
    decision,       \* <<i, v>>: v is decided at i
    active,         \* the rounds whose leader has a quorum of promises
    available       \* <<r, i>>: the leader of r may still propose at i

vars == <<left_round, joined_round, proposal, vote, decision, active, available>>
-----------------------------------------------------------------------------
(***************************************************************************)
(* Vote maps.  A segment m carries votes for the instances from m.first up *)
(* to, and without, m.upper; maxvote extends it with not_a_vote.           *)
(***************************************************************************)
Vote == [maxr : Round, maxv : Value]

not_a_vote == [maxr |-> none, maxv |-> no_op]

Bound == Inst \cup {i + 1 : i \in Inst}

Segment == UNION {[first : {f}, upper : {u}, vote : [f .. u - 1 -> Vote]] :
                     f \in Bound, u \in Bound}

maxvote(m, i) == IF m.first <= i /\ i < m.upper THEN m.vote[i] ELSE not_a_vote
-----------------------------------------------------------------------------
Init ==
    /\ left_round = Node \X {none}
    /\ joined_round = {}
    /\ proposal = {}
    /\ vote = {}
    /\ decision = {}
    /\ active = {}
    /\ available = {}

\* Fault: joining a round does not leave the rounds below it.
join_round_without_leaving(n, r) ==
    /\ r # none
    /\ <<n, r>> \notin left_round
    /\ joined_round' = joined_round \cup {<<n, r>>}
    /\ UNCHANGED <<left_round, proposal, vote, decision, active, available>>

\* Node n promises round r: it leaves every lower round.
join_round(n, r) ==
    /\ r # none
    /\ <<n, r>> \notin left_round
    /\ left_round' = left_round \cup {<<n, R>> : R \in {R \in Round : R < r}}
    /\ joined_round' = joined_round \cup {<<n, r>>}
    /\ UNCHANGED <<proposal, vote, decision, active, available>>

\* The votes that members of q cast at i in the rounds strictly between lo
\* and r.
votes_between(q, i, lo, r) ==
    {w \in vote : w[1] \in q /\ w[2] = i /\ lo < w[3] /\ w[3] < r}

\* x is safe to propose at i in r after hearing from q: it says that no member
\* of q voted before r, or it is a proposal later than all their votes.
safe_at(q, i, r, x) ==
    \/ x.maxr = none /\ \A w \in vote : ~(w[1] \in q /\ w[2] = i /\ w[3] < r)
    \/ <<i, x.maxr, x.maxv>> \in proposal /\ votes_between(q, i, x.maxr, r) = {}

\* The proposals the leader makes on activation: the value of the highest vote,
\* or a no-op, for each instance the segment covers.
recovered(r, m) ==
    {<<i, r, IF maxvote(m, i).maxr # none THEN maxvote(m, i).maxv ELSE no_op>> :
        i \in {i \in Inst : m.first <= i /\ i < m.upper}}

\* The leader of r activates it with the votes m reported by the quorum q.
receive_join_acks(r, q, m) ==
    /\ m.first <= m.upper
    /\ q \in Quorum
    /\ r # none
    /\ r \notin active
    /\ \A n \in q : <<n, r>> \in joined_round
    /\ \A i \in Inst : m.first <= i => safe_at(q, i, r, maxvote(m, i))
    /\ active' = active \cup {r}
    /\ available' = available \cup {<<r, i>> : i \in {i \in Inst : m.upper <= i}}
    /\ proposal' = proposal \cup recovered(r, m)
    /\ UNCHANGED <<left_round, joined_round, vote, decision>>

\* Fault: a second proposal at the same instance of the round is possible.
propose_twice(r, i, v) ==
    /\ r # none
    /\ r \in active
    /\ <<r, i>> \in available
    /\ proposal' = proposal \cup {<<i, r, v>>}
    /\ UNCHANGED <<left_round, joined_round, vote, decision, active, available>>

propose(r, i, v) ==
    /\ r # none
    /\ r \in active
    /\ <<r, i>> \in available
    /\ \A V \in Value : <<i, r, V>> \notin proposal
    /\ available' = available \ {<<r, i>>}
    /\ proposal' = proposal \cup {<<i, r, v>>}
    /\ UNCHANGED <<left_round, joined_round, vote, decision, active>>

\* Fault: a node votes in a round it has left.
cast_vote_in_any_round(n, i, r, v) ==
    /\ r # none
    /\ <<i, r, v>> \in proposal
    /\ vote' = vote \cup {<<n, i, r, v>>}
    /\ UNCHANGED <<left_round, joined_round, proposal, decision, active, available>>

cast_vote(n, i, r, v) ==
    /\ r # none
    /\ <<n, r>> \notin left_round
    /\ <<i, r, v>> \in proposal
    /\ vote' = vote \cup {<<n, i, r, v>>}
    /\ UNCHANGED <<left_round, joined_round, proposal, decision, active, available>>

decide(i, r, v, q) ==
    /\ q \in Quorum
    /\ r # none
    /\ \A n \in q : <<n, i, r, v>> \in vote
    /\ decision' = decision \cup {<<i, v>>}
    /\ UNCHANGED <<left_round, joined_round, proposal, vote, active, available>>

Next ==
    \/ \E n \in Node, r \in Round : join_round(n, r)
    \/ \E r \in Round, q \in Quorum, m \in Segment : receive_join_acks(r, q, m)
    \/ \E r \in Round, i \in Inst, v \in Value : propose(r, i, v)
    \/ \E n \in Node, i \in Inst, r \in Round, v \in Value : cast_vote(n, i, r, v)
    \/ \E i \in Inst, r \in Round, v \in Value, q \in Quorum : decide(i, r, v, q)

Spec == Init /\ [][Next]_vars
-----------------------------------------------------------------------------
\* Every relation relates things of its types.
TypeOK ==
    /\ left_round \subseteq Node \X Round
    /\ joined_round \subseteq Node \X Round
    /\ proposal \subseteq Inst \X Round \X Value
    /\ vote \subseteq Node \X Inst \X Round \X Value
    /\ decision \subseteq Inst \X Value
    /\ active \subseteq Round
    /\ available \subseteq Round \X Inst

\* The invariant [agreement] of the isolate: whatever rounds, leaders and
\* quorums were involved, an instance is decided with one value only.
Agreement ==
    \A i \in Inst, v1, v2 \in Value :
        <<i, v1>> \in decision /\ <<i, v2>> \in decision => v1 = v2

\* v has the votes of a quorum at i in r, whether anybody noticed or not.
chosen(i, r, v) == \E q \in Quorum : \A n \in q : <<n, i, r, v>> \in vote

\* Once v has a quorum in a round, every later leader that proposes at the
\* instance, recovering or not, proposes v.
ChosenBindsLaterRounds ==
    \A i \in Inst, r \in Round, v \in Value :
        chosen(i, r, v) =>
            \A p \in proposal : p[1] = i /\ r < p[2] => p[3] = v

\* The instances a new leader may fill with fresh commands are not chosen in
\* any earlier round, so no fresh command is proposed over a chosen one.
AvailableIsNotChosen ==
    \A a \in available, r \in Round, v \in Value :
        r < a[1] => ~chosen(a[2], r, v)
-----------------------------------------------------------------------------
(***************************************************************************)
(* The inductive invariant: the invariants the ivy file lists, and that a  *)
(* round has proposed nothing yet where it is still free to propose.       *)
(***************************************************************************)
ProposedInActive == \A p \in proposal : p[2] \in active

OneProposalPerRound ==
    \A i \in Inst, r \in Round, v1, v2 \in Value :
        <<i, r, v1>> \in proposal /\ <<i, r, v2>> \in proposal => v1 = v2

VotedIsProposed ==
    \A n \in Node, i \in Inst, r \in Round, v \in Value :
        <<n, i, r, v>> \in vote => <<i, r, v>> \in proposal

NoneIsReserved ==
    /\ \A p \in proposal : p[2] # none
    /\ \A w \in vote : w[3] # none

JoinedHasLeftLower ==
    \A n \in Node, r1, r2 \in Round :
        <<n, r2>> \in joined_round /\ r1 < r2 => <<n, r1>> \in left_round

DecidedByQuorum ==
    \A i \in Inst, v \in Value :
        <<i, v>> \in decision => \E r \in Round : chosen(i, r, v)

AvailableIsUnproposed ==
    \A r \in Round, i \in Inst :
        <<r, i>> \in available =>
            r \in active /\ \A v \in Value : <<i, r, v>> \notin proposal

\* Round r rules v1 out at i: it proposes another value there, or it may still
\* propose there and has not proposed v1.
rules_out(r, i, v1) ==
    \/ \E v2 \in Value : v1 # v2 /\ <<i, r, v2>> \in proposal
    \/ <<r, i>> \in available /\ <<i, r, v1>> \notin proposal

\* What a round rules out can no longer be chosen in a lower one: each quorum
\* has a member that left the lower round without voting for it.
RuledOutIsNotChoosable ==
    \A i \in Inst, r1, r2 \in Round, v \in Value, q \in Quorum :
        r1 < r2 /\ rules_out(r2, i, v) =>
            \E n \in q : <<n, r1>> \in left_round /\ <<n, i, r1, v>> \notin vote

\* The conjunction that every step of the protocol preserves.
Inv ==
    /\ TypeOK
    /\ ProposedInActive
    /\ OneProposalPerRound
    /\ VotedIsProposed
    /\ NoneIsReserved
    /\ JoinedHasLeftLower
    /\ DecidedByQuorum
    /\ AvailableIsUnproposed
    /\ RuledOutIsNotChoosable
-----------------------------------------------------------------------------
Log == INSTANCE ReplicatedLog WITH decided <- decision

\* The protocol implements the replicated log: each step decides at most one
\* instance, with a value that agrees with what is decided already.
LogSpec == Log!Spec
=============================================================================
