-------------------------- MODULE MultiPaxosSystem --------------------------
(***************************************************************************)
(* The Multi-Paxos servers of multi_paxos_system.ivy.  One action per      *)
(* entry point: the client's propose, the handler of each kind of message  *)
(* and the one-second timer.  The ghost calls of the source are here too:  *)
(* the relations of MultiPaxosProtocol change with the code that calls it. *)
(*                                                                         *)
(* The network is the relation sent of network_shim_tcp.ivy: any message   *)
(* sent may be delivered late, out of order, several times or never.       *)
(*                                                                         *)
(* An array is a total function that holds its default value beyond its    *)
(* end: the code tests active or present wherever it tests the end, except *)
(* for my_votes, whose end is one past the last vote (votes_end).          *)
(***************************************************************************)
EXTENDS Nodes, FiniteSetsExt

CONSTANTS
    Round,      \* the rounds, an initial segment of the numbers
    Inst,       \* the instances, an initial segment of the numbers
    Value,      \* the commands
    Command,    \* the commands clients propose
    no_op,      \* the command that fills holes, "" in the code
    timeout     \* seconds of silence that count as a failure, 3 in the code

ASSUME RoundsAssumption ==
    Round \subseteq Nat /\ 0 \in Round /\ \A r \in Round : 0 .. r \subseteq Round
ASSUME InstsAssumption ==
    Inst \subseteq Nat /\ 0 \in Inst /\ \A i \in Inst : 0 .. i \subseteq Inst
ASSUME CommandsAssumption == no_op \in Value /\ Command \subseteq Value
ASSUME TimeoutAssumption == timeout \in Nat \ {0}

VARIABLES
    \* Per server: the round and its leader.
    current_round, current_leader, round_active, joined, joined_votes, next_inst,
    \* Per server: votes and decisions.
    my_votes, inst_status, my_log, first_undecided,
    \* Per server: timers, see below.
    heard, started, resent, asked, ticked,
    \* The network: <<m, d>>, m was sent to d.
    sent,
    \* Ghost: <<n, i, v>>, n reported v for i; and the protocol's relations.
    decided,
    left_round, joined_round, proposal, vote, decision, active, available

P == INSTANCE MultiPaxosProtocol WITH Quorum <- Majorities

round_vars  == <<current_round, current_leader, round_active, joined, left_round, joined_round>>
leader_vars == <<joined_votes, next_inst>>
vote_vars   == <<my_votes, vote>>
log_vars    == <<my_log, first_undecided, decided>>
timer_vars  == <<heard, started, resent, asked, ticked>>
proposal_vars == <<proposal, active, available>>

vars == <<round_vars, leader_vars, vote_vars, inst_status, log_vars, timer_vars,
          sent, proposal_vars, decision>>
-----------------------------------------------------------------------------
(***************************************************************************)
(* Data.                                                                   *)
(***************************************************************************)
Bound == P!Bound
maxvote(m, i) == P!maxvote(m, i)

no_leader == 0 - 1          \* the witness current_leader before its first set

init_status == [active |-> FALSE, voters |-> {}, proposal |-> no_op, decided |-> FALSE]
no_decision == [present |-> FALSE, decision |-> no_op]

ballot_status_array == [Inst -> [active : BOOLEAN, voters : SUBSET Node,
                                 proposal : Value, decided : BOOLEAN]]
empty_status == [i \in Inst |-> init_status]

is_decided(n, i) == i \in Inst /\ my_log[n][i].present

\* my_votes.end.
votes_end(n) == Max({0} \cup {i + 1 : i \in {i \in Inst : my_votes[n][i].maxr # none}})

\* votemap_seg.make: the votes from begin on; empty when there are none.
make(votes, begin, end) ==
    [first |-> begin, upper |-> end, vote |-> [i \in begin .. end - 1 |-> votes[i]]]

\* Fault: the report leaves out the vote at begin.
own_votes_after(n, begin) ==
    LET end == Max({begin, votes_end(n)})
    IN  [make(my_votes[n], begin, end) EXCEPT !.vote =
           [i \in begin .. end - 1 |-> IF i = begin THEN P!not_a_vote ELSE my_votes[n][i]]]

\* The own votes from begin on, as reported to a leader.
own_votes(n, begin) == make(my_votes[n], begin, Max({begin, votes_end(n)}))

\* votemap_seg_ops.zip_max: instance by instance the vote for the higher round.
zip_max(m1, m2) ==
    LET upper == Max({m1.upper, m2.upper})
    IN  [first |-> m1.first, upper |-> upper,
         vote |-> [i \in m1.first .. upper - 1 |->
                     IF maxvote(m1, i).maxr < maxvote(m2, i).maxr
                     THEN maxvote(m2, i) ELSE maxvote(m1, i)]]
-----------------------------------------------------------------------------
(***************************************************************************)
(* Messages.  The fields a handler never reads are left out: the round and *)
(* the sender of a decide, the instance of a one_b.                        *)
(***************************************************************************)
one_a(n, r, i) == [kind |-> "one_a", round |-> r, node |-> n, inst |-> i]
one_b(n, r, votes) == [kind |-> "one_b", round |-> r, node |-> n, votemap |-> votes]
build_proposal(n, r, i, v) ==
    [kind |-> "two_a", round |-> r, node |-> n, inst |-> i, value |-> v]
build_vote_msg(n, r, i, v) ==
    [kind |-> "two_b", round |-> r, node |-> n, inst |-> i, value |-> v]
build_decide_msg(i, v) == [kind |-> "decide", inst |-> i, value |-> v]
keep_alive(n, r) == [kind |-> "keep_alive", round |-> r, node |-> n]
missing(n, r, i, is_active) ==
    [kind |-> IF is_active THEN "missing_decision" ELSE "missing_two_a",
     round |-> r, node |-> n, inst |-> i]

Message ==
    [kind : {"one_a"}, round : Round, node : Node, inst : Bound] \cup
    [kind : {"one_b"}, round : Round, node : Node, votemap : P!Segment] \cup
    [kind : {"two_a", "two_b"}, round : Round, node : Node, inst : Inst, value : Value] \cup
    [kind : {"decide"}, inst : Inst, value : Value] \cup
    [kind : {"keep_alive"}, round : Round, node : Node] \cup
    [kind : {"missing_two_a", "missing_decision"}, round : Round, node : Node, inst : Inst]

bcast(m) == {m} \X Node         \* to all nodes, including the sender
unicast(m, d) == {<<m, d>>}
-----------------------------------------------------------------------------
(***************************************************************************)
(* Timers.  heard and started count the seconds since the last message of  *)
(* a leader and since the last start of an own round, up to timeout, which *)
(* is all the code compares them with.  resent and asked are the arrays    *)
(* two_a_times of two_a_retransmitter and catch_up: an instance below end  *)
(* is due unless its time is the current one (fresh).                      *)
(***************************************************************************)
no_times == [end |-> 0, fresh |-> {}]

\* Fault: the array grows by one entry too many.
notify_two_a_past_end(t, n, i) ==
    [end |-> Max({t.end, i + 2}),
     fresh |-> t.fresh \cup {i} \cup (IF ticked[n] THEN {} ELSE t.end .. i)]

\* notify_two_a: entries that the resizing adds carry time 0, which is the
\* current time until the first tick.
notify_two_a(t, n, i) ==
    [end |-> Max({t.end, i + 1}),
     fresh |-> t.fresh \cup {i} \cup (IF ticked[n] THEN {} ELSE t.end .. i)]

due(t, i) == i < t.end /\ i \notin t.fresh

elapse(t) == [t EXCEPT !.fresh = {}]

second_later(k) == IF k < timeout THEN k + 1 ELSE k
-----------------------------------------------------------------------------
Init ==
    /\ current_round = [n \in Node |-> 0]
    /\ current_leader = [n \in Node |-> no_leader]
    /\ round_active = [n \in Node |-> FALSE]
    /\ joined = [n \in Node |-> {}]
    /\ joined_votes = [n \in Node |-> [first |-> 0, upper |-> 0, vote |-> <<>>]]
    /\ next_inst = [n \in Node |-> 0]
    /\ my_votes = [n \in Node |-> [i \in Inst |-> P!not_a_vote]]
    /\ inst_status = [n \in Node |-> empty_status]
    /\ my_log = [n \in Node |-> [i \in Inst |-> no_decision]]
    /\ first_undecided = [n \in Node |-> 0]
    /\ heard = [n \in Node |-> 0]
    /\ started = [n \in Node |-> 0]
    /\ resent = [n \in Node |-> no_times]
    /\ asked = [n \in Node |-> no_times]
    /\ ticked = [n \in Node |-> FALSE]
    /\ sent = {}
    /\ decided = {}
    /\ P!Init
-----------------------------------------------------------------------------
(***************************************************************************)
(* Rounds.                                                                 *)
(***************************************************************************)

\* change_round, with the notification of leader_election and the ghost join;
\* with it what its callers do next, setting current_leader and, for an own
\* round, joining it.  The status of the instances is reset too: see status_in.
change_round(n, r, leader, joiners) ==
    /\ current_round' = [current_round EXCEPT ![n] = r]
    /\ current_leader' = [current_leader EXCEPT ![n] = leader]
    /\ round_active' = [round_active EXCEPT ![n] = FALSE]
    /\ joined' = [joined EXCEPT ![n] = joiners]
    /\ heard' = [heard EXCEPT ![n] = 0]
    /\ started' = [started EXCEPT ![n] = IF leader_of(n, r) THEN 0 ELSE @]
    /\ left_round' = left_round \cup {<<n, R>> : R \in {R \in Round : R < r}}
    /\ joined_round' = joined_round \cup {<<n, r>>}

\* The status n keeps for an instance once it is in round r: nothing carries
\* over to a new round.
status_in(n, r) == IF current_round[n] < r THEN empty_status ELSE inst_status[n]

\* Fault: current_leader is not set on entering a round.
enter_round_keeping_leader(n, m) ==
    \/ /\ current_round[n] < m.round
       /\ change_round(n, m.round, current_leader[n], {})
    \/ /\ current_round[n] >= m.round
       /\ UNCHANGED <<round_vars, heard, started>>

\* n learns of a message of r: it enters r, led by the sender, if r is new.
enter_round(n, m) ==
    \/ /\ current_round[n] < m.round
       /\ change_round(n, m.round, m.node, {})
    \/ /\ current_round[n] >= m.round
       /\ UNCHANGED <<round_vars, heard, started>>

\* next_self_leader_round.
next_self_leader_round(n, r) ==
    /\ current_round[n] < r
    /\ leader_of(n, r)
    /\ \A s \in Round : current_round[n] < s /\ s < r => ~leader_of(n, s)

\* When timing out on the leader: n asks for votes in its next own round.
start_round(n) ==
    \E r \in Round :
        /\ next_self_leader_round(n, r)
        /\ change_round(n, r, n, {n})
        /\ inst_status' = [inst_status EXCEPT ![n] = empty_status]
        /\ joined_votes' = [joined_votes EXCEPT ![n] = own_votes(n, first_undecided[n])]
        /\ sent' = sent \cup bcast(one_a(n, r, first_undecided[n]))

one_a_handler(n, m) ==
    /\ m.kind = "one_a"
    /\ current_round[n] < m.round
    /\ change_round(n, m.round, m.node, {})
    /\ inst_status' = [inst_status EXCEPT ![n] = empty_status]
    /\ sent' = sent \cup unicast(one_b(n, m.round, own_votes(n, m.inst)), m.node)
    /\ UNCHANGED <<leader_vars, vote_vars, log_vars, resent, asked, ticked,
                   proposal_vars, decision>>

\* Fault: the leader fills every instance with a no-op.
recovered_as_no_op(n, i) == no_op

\* The proposal for instance i that joined_votes' makes safe.
recovered(n, i) ==
    LET x == maxvote(joined_votes'[n], i) IN IF x.maxr # none THEN x.maxv ELSE no_op

\* The instances the leader has to propose at on activation.
recovering(n) == joined_votes'[n].first .. joined_votes'[n].upper - 1

\* Fault: the leader starts appending at the first instance it recovers.
activate_at_first(n, r) ==
    /\ round_active' = [round_active EXCEPT ![n] = TRUE]
    /\ next_inst' = [next_inst EXCEPT ![n] = joined_votes'[n].first]
    /\ sent' = sent \cup UNION {bcast(build_proposal(n, r, i, recovered(n, i))) :
                                  i \in {i \in recovering(n) : ~is_decided(n, i)}}
    /\ active' = active \cup {r}
    /\ available' = available \cup {<<r, i>> : i \in {i \in Inst : joined_votes'[n].upper <= i}}
    /\ proposal' = proposal \cup {<<i, r, recovered(n, i)>> : i \in recovering(n)}

\* With a majority joined, the leader activates the round and proposes for the
\* instances it does not know decided.  It does not keep these proposals in
\* inst_status: the status it edits is a copy.
activate(n, r) ==
    /\ round_active' = [round_active EXCEPT ![n] = TRUE]
    /\ next_inst' = [next_inst EXCEPT ![n] = joined_votes'[n].upper]
    /\ sent' = sent \cup UNION {bcast(build_proposal(n, r, i, recovered(n, i))) :
                                  i \in {i \in recovering(n) : ~is_decided(n, i)}}
    /\ active' = active \cup {r}
    /\ available' = available \cup {<<r, i>> : i \in {i \in Inst : next_inst'[n] <= i}}
    /\ proposal' = proposal \cup {<<i, r, recovered(n, i)>> : i \in recovering(n)}

one_b_handler(n, m) ==
    /\ m.kind = "one_b"
    /\ current_round[n] = m.round
    /\ ~round_active[n]
    /\ joined' = [joined EXCEPT ![n] = @ \cup {m.node}]
    /\ joined_votes' = [joined_votes EXCEPT ![n] = zip_max(@, m.votemap)]
    /\ \/ /\ majority(joined'[n])
          /\ activate(n, m.round)
       \/ /\ ~majority(joined'[n])
          /\ UNCHANGED <<round_active, next_inst, sent, proposal_vars>>
    /\ UNCHANGED <<current_round, current_leader, left_round, joined_round, vote_vars,
                   inst_status, log_vars, timer_vars, decision>>
-----------------------------------------------------------------------------
(***************************************************************************)
(* Proposals and votes.                                                    *)
(***************************************************************************)

\* server.vote: n votes for v at i in its round r and remembers the proposal.
\* The message with the vote is left to the caller.
cast(n, r, i, v) ==
    LET s == status_in(n, r)
        voted == [s[i] EXCEPT !.voters = @ \cup {n}, !.proposal = v, !.active = TRUE]
    IN  /\ my_votes' = [my_votes EXCEPT ![n][i] = [maxr |-> r, maxv |-> v]]
        /\ inst_status' = [inst_status EXCEPT ![n] = [s EXCEPT ![i] = voted]]
        /\ vote' = vote \cup {<<n, i, r, v>>}

propose(n, v) ==
    LET r == current_round[n]
        i == next_inst[n]
    IN  /\ leader_of(n, r)
        /\ round_active[n]
        /\ i \in Inst
        /\ cast(n, r, i, v)
        /\ resent' = [resent EXCEPT ![n] = notify_two_a(@, n, i)]
        /\ next_inst' = [next_inst EXCEPT ![n] = i + 1]
        /\ sent' = sent \cup bcast(build_proposal(n, r, i, v))
                        \cup unicast(build_vote_msg(n, r, i, v), n)
        /\ available' = available \ {<<r, i>>}
        /\ proposal' = proposal \cup {<<i, r, v>>}
        /\ UNCHANGED <<round_vars, joined_votes, log_vars, heard, started, asked,
                       ticked, active, decision>>

\* ask_for_retransmission at i, from the leader of the round n is in now.
ask_for_retransmission(n, i) ==
    unicast(missing(n, current_round'[n], i, inst_status'[n][i].active), current_leader'[n])

two_a_handler(n, m) ==
    /\ m.kind = "two_a"
    /\ current_round[n] <= m.round
    /\ enter_round(n, m)
    /\ LET hole == IF first_undecided[n] < m.inst THEN ask_for_retransmission(n, m.inst) ELSE {}
       IN  \/ /\ ~is_decided(n, m.inst)
              /\ cast(n, m.round, m.inst, m.value)
              /\ asked' = [asked EXCEPT ![n] = notify_two_a(@, n, m.inst)]
              /\ sent' = sent \cup hole
                    \cup unicast(build_vote_msg(n, m.round, m.inst, m.value), m.node)
           \/ /\ is_decided(n, m.inst)
              /\ inst_status' = [inst_status EXCEPT ![n] = status_in(n, m.round)]
              /\ sent' = sent \cup hole
                    \cup (IF m.node # n
                          THEN unicast(build_decide_msg(m.inst, my_log[n][m.inst].decision), m.node)
                          ELSE {})
              /\ UNCHANGED <<vote_vars, asked>>
    /\ UNCHANGED <<leader_vars, log_vars, resent, ticked, proposal_vars, decision>>
-----------------------------------------------------------------------------
(***************************************************************************)
(* Decisions.                                                              *)
(***************************************************************************)

\* Fault: first_undecided moves past i only, whatever is decided after it.
learn_one(n, i, v) ==
    /\ my_log' = [my_log EXCEPT ![n][i] = [present |-> TRUE, decision |-> v]]
    /\ first_undecided' = [first_undecided EXCEPT ![n] = IF i = @ THEN i + 1 ELSE @]
    /\ decided' = decided \cup {<<n, i, v>>}

\* Enter v at i in the log, move first_undecided to the next hole if i was the
\* hole, and report the decision.
learn(n, i, v) ==
    /\ my_log' = [my_log EXCEPT ![n][i] = [present |-> TRUE, decision |-> v]]
    /\ first_undecided' = [first_undecided EXCEPT ![n] =
           IF i = @ THEN Min({j \in Bound : j > i /\ ~(j \in Inst /\ my_log'[n][j].present)})
                    ELSE @]
    /\ decided' = decided \cup {<<n, i, v>>}

\* Fault: votes of any round count.
two_b_handler_any_round(n, m) ==
    LET s == inst_status[n][m.inst]
        voters == s.voters \cup {m.node}
        counted == [s EXCEPT !.voters = voters, !.proposal = m.value,
                             !.decided = majority(voters)]
    IN  /\ m.kind = "two_b"
        /\ s.active /\ ~s.decided
        /\ inst_status' = [inst_status EXCEPT ![n][m.inst] = counted]
        /\ \/ /\ majority(voters)
              /\ learn(n, m.inst, m.value)
              /\ sent' = sent \cup bcast(build_decide_msg(m.inst, m.value))
              /\ decision' = decision \cup {<<m.inst, m.value>>}
           \/ /\ ~majority(voters)
              /\ UNCHANGED <<log_vars, sent, decision>>
        /\ UNCHANGED <<round_vars, leader_vars, vote_vars, timer_vars, proposal_vars>>

\* A vote reaches the leader.  It counts only for an instance n is active at.
two_b_handler(n, m) ==
    LET s == inst_status[n][m.inst]
        voters == s.voters \cup {m.node}
        counted == [s EXCEPT !.voters = voters, !.proposal = m.value,
                             !.decided = majority(voters)]
    IN  /\ m.kind = "two_b"
        /\ s.active /\ ~s.decided
        /\ m.round = current_round[n]
        /\ inst_status' = [inst_status EXCEPT ![n][m.inst] = counted]
        /\ \/ /\ majority(voters)
              /\ learn(n, m.inst, m.value)
              /\ sent' = sent \cup bcast(build_decide_msg(m.inst, m.value))
              /\ decision' = decision \cup {<<m.inst, m.value>>}
           \/ /\ ~majority(voters)
              /\ UNCHANGED <<log_vars, sent, decision>>
        /\ UNCHANGED <<round_vars, leader_vars, vote_vars, timer_vars, proposal_vars>>

decide_handler(n, m) ==
    /\ m.kind = "decide"
    /\ ~is_decided(n, m.inst)
    /\ learn(n, m.inst, m.value)
    /\ inst_status' = [inst_status EXCEPT ![n][m.inst].decided = TRUE]
    /\ UNCHANGED <<round_vars, leader_vars, vote_vars, timer_vars, sent, proposal_vars,
                   decision>>
-----------------------------------------------------------------------------
(***************************************************************************)
(* Retransmission.                                                         *)
(***************************************************************************)

\* Only the leader of the round the request names answers it.
answers(n, m) == m.round > 0 /\ m.round = current_round[n] /\ leader_of(n, m.round)

send_decision(n, m) ==
    /\ is_decided(n, m.inst)
    /\ sent' = sent \cup unicast(build_decide_msg(m.inst, my_log[n][m.inst].decision), m.node)
    /\ UNCHANGED resent

resend_proposal(n, m) ==
    /\ ~is_decided(n, m.inst)
    /\ inst_status[n][m.inst].active
    /\ sent' = sent \cup unicast(build_proposal(n, m.round, m.inst,
                                  inst_status[n][m.inst].proposal), m.node)
    /\ resent' = [resent EXCEPT ![n] = notify_two_a(@, n, m.inst)]

missing_two_a_handler(n, m) ==
    /\ m.kind = "missing_two_a"
    /\ answers(n, m)
    /\ send_decision(n, m) \/ resend_proposal(n, m)
    /\ UNCHANGED <<round_vars, leader_vars, vote_vars, inst_status, log_vars,
                   heard, started, asked, ticked, proposal_vars, decision>>

missing_decision_handler(n, m) ==
    /\ m.kind = "missing_decision"
    /\ answers(n, m)
    /\ send_decision(n, m)
    /\ UNCHANGED <<round_vars, leader_vars, vote_vars, inst_status, log_vars,
                   heard, started, asked, ticked, proposal_vars, decision>>

\* Any leader's keep-alive, even one of a round n has left, counts as a sign
\* of life.
keep_alive_handler(n, m) ==
    /\ m.kind = "keep_alive"
    /\ \/ /\ current_round[n] < m.round
          /\ change_round(n, m.round, m.node, {})
          /\ inst_status' = [inst_status EXCEPT ![n] = empty_status]
       \/ /\ current_round[n] >= m.round
          /\ heard' = [heard EXCEPT ![n] = 0]
          /\ UNCHANGED <<round_vars, inst_status, started>>
    /\ UNCHANGED <<leader_vars, vote_vars, log_vars, resent, asked, ticked, sent,
                   proposal_vars, decision>>
-----------------------------------------------------------------------------
(***************************************************************************)
(* The timer: leader_election.tick, then catch_up.tick, then               *)
(* two_a_retransmitter.tick, every second.  At most one of the three sends *)
(* anything but a keep-alive.                                              *)
(***************************************************************************)

\* The undecided instances from the first hole on, below k.
undecided_below(n, k) == {i \in first_undecided[n] .. k - 1 : ~is_decided(n, i)}

\* In no round yet, tired of the leader, or of waiting for acknowledgements.
gives_up(n) ==
    \/ current_round[n] = 0
    \/ ~leader_of(n, current_round[n]) /\ second_later(heard[n]) >= timeout
    \/ /\ leader_of(n, current_round[n])
       /\ ~round_active[n]
       /\ second_later(started[n]) >= timeout

times_out(n) == gives_up(n) /\ start_round(n)

\* catch_up.tick of a node that trusts its leader.
catches_up(n) ==
    /\ ~gives_up(n)
    /\ ~leader_of(n, current_round[n])
    /\ sent' = sent \cup UNION {unicast(missing(n, current_round[n], i, inst_status[n][i].active),
                                        current_leader[n]) :
                     i \in {i \in undecided_below(n, votes_end(n)) : due(asked[n], i)}}

awaits_votes(n) ==
    /\ ~gives_up(n)
    /\ leader_of(n, current_round[n])
    /\ ~round_active[n]
    /\ UNCHANGED sent

\* An active leader sends a keep-alive and its proposals that are due.
leads(n) ==
    /\ leader_of(n, current_round[n])
    /\ round_active[n]
    /\ sent' = sent \cup bcast(keep_alive(n, current_round[n]))
          \cup UNION {bcast(build_proposal(n, current_round[n], i, inst_status[n][i].proposal)) :
                  i \in {i \in Inst : /\ first_undecided[n] <= i
                                     /\ ~is_decided(n, i)
                                     /\ inst_status[n][i].active
                                     /\ due(resent[n], i)}}

timer(n) ==
    /\ \/ times_out(n)
       \/ /\ catches_up(n) \/ awaits_votes(n) \/ leads(n)
          /\ heard' = [heard EXCEPT ![n] = second_later(@)]
          /\ started' = [started EXCEPT ![n] = second_later(@)]
          /\ UNCHANGED <<round_vars, joined_votes, inst_status>>
    /\ resent' = [resent EXCEPT ![n] = elapse(@)]
    /\ asked' = [asked EXCEPT ![n] = elapse(@)]
    /\ ticked' = [ticked EXCEPT ![n] = TRUE]
    /\ UNCHANGED <<next_inst, vote_vars, log_vars, proposal_vars, decision>>
-----------------------------------------------------------------------------
recv(n, m) ==
    \/ one_a_handler(n, m)
    \/ one_b_handler(n, m)
    \/ two_a_handler(n, m)
    \/ two_b_handler(n, m)
    \/ decide_handler(n, m)
    \/ missing_two_a_handler(n, m)
    \/ missing_decision_handler(n, m)
    \/ keep_alive_handler(n, m)

Next ==
    \/ \E n \in Node, v \in Command : propose(n, v)
    \/ \E n \in Node : timer(n)
    \/ \E s \in sent : recv(s[2], s[1])

Spec == Init /\ [][Next]_vars
-----------------------------------------------------------------------------
\* Every variable has its type; segments begin before they end.
TypeOK ==
    /\ current_round \in [Node -> Round]
    /\ current_leader \in [Node -> Node \cup {no_leader}]
    /\ round_active \in [Node -> BOOLEAN]
    /\ joined \in [Node -> SUBSET Node]
    /\ joined_votes \in [Node -> P!Segment]
    /\ next_inst \in [Node -> Bound]
    /\ my_votes \in [Node -> [Inst -> P!Vote]]
    /\ inst_status \in [Node -> ballot_status_array]
    /\ my_log \in [Node -> [Inst -> [present : BOOLEAN, decision : Value]]]
    /\ first_undecided \in [Node -> Bound]
    /\ heard \in [Node -> 0 .. timeout]
    /\ started \in [Node -> 0 .. timeout]
    /\ resent \in [Node -> [end : Bound, fresh : SUBSET Inst]]
    /\ asked \in [Node -> [end : Bound, fresh : SUBSET Inst]]
    /\ ticked \in [Node -> BOOLEAN]
    /\ sent \subseteq Message \X Node
    /\ decided \subseteq Node \X Inst \X Value
    /\ P!TypeOK

\* The ghost calls in the code meet the requirements of the protocol's
\* actions: a server joins only rounds it has not left, ...
JoinsAllowed ==
    \A j \in joined_round' \ joined_round : j[2] # none /\ j \notin left_round

\* ... votes only in rounds it has not left, for what was proposed there, ...
VotesAllowed ==
    \A w \in vote' \ vote :
        w[3] # none /\ <<w[1], w[3]>> \notin left_round' /\ <<w[2], w[3], w[4]>> \in proposal'

\* ... activates an inactive round with the safe values of a majority, ...
ActivationsAllowed ==
    \A n \in Node : ~round_active[n] /\ round_active'[n] =>
        LET r == current_round[n]
            m == joined_votes'[n]
        IN  /\ r \notin active
            /\ m.first <= m.upper
            /\ joined'[n] \in Majorities
            /\ \A p \in joined'[n] : <<p, r>> \in joined_round
            /\ \A i \in Inst : m.first <= i => P!safe_at(joined'[n], i, r, maxvote(m, i))
            /\ {p \in proposal' : p[2] = r} = P!recovered(r, m)

\* ... proposes only where its active round is free, ...
ProposalsAllowed ==
    \A n \in Node : round_active[n] /\ round_active'[n] /\ next_inst'[n] # next_inst[n] =>
        LET r == current_round[n]
        IN  /\ r \in active /\ <<r, next_inst[n]>> \in available
            /\ \A v \in Value : <<next_inst[n], r, v>> \notin proposal

\* ... and decides only with the votes of a majority.
DecisionsAllowed ==
    \A d \in decision' \ decision : \E r \in Round : r # none /\ P!chosen(d[1], r, d[2])

\* Every ghost call is allowed where the code makes it.
GhostCallsAllowed ==
    [][/\ JoinsAllowed /\ VotesAllowed /\ ActivationsAllowed
       /\ ProposalsAllowed /\ DecisionsAllowed]_vars

\* first_undecided is the first hole of the log, whatever the order in which
\* the decisions arrived: nothing below it is open and it is open itself.
FirstUndecidedIsFirstHole ==
    \A n \in Node :
        /\ ~is_decided(n, first_undecided[n])
        /\ \A i \in 0 .. first_undecided[n] - 1 : is_decided(n, i)

\* A one_b message tells its leader, for each instance from the requested one
\* on, the last vote its sender cast in a lower round, and stays true: the
\* sender casts no further vote below the round it promised.
PromisesAreTruthful ==
    \A s \in sent : s[1].kind = "one_b" =>
        \A i \in Inst : s[1].votemap.first <= i =>
            LET x == maxvote(s[1].votemap, i)
            IN  /\ x.maxr # none => <<s[1].node, i, x.maxr, x.maxv>> \in vote
                /\ \A w \in vote : w[1] = s[1].node /\ w[2] = i /\ w[3] < s[1].round
                                     => w[3] <= x.maxr

\* The votes a server counts for an instance were cast in its current round,
\* for the proposal it will decide: no vote of an old round slips in.
CountedVotesAreCurrent ==
    \A n \in Node, i \in Inst :
        \A p \in inst_status[n][i].voters :
            <<p, i, current_round[n], inst_status[n][i].proposal>> \in vote

\* The leader of an active round appends only behind everything that may be
\* chosen: from next_inst on its round is free, so no earlier round chose there.
LeaderAppendsInTheFree ==
    \A n \in Node : round_active[n] =>
        \A i \in Inst : next_inst[n] <= i =>
            /\ <<current_round[n], i>> \in available
            /\ \A r \in Round, v \in Value : r < current_round[n] => ~P!chosen(i, r, v)

\* A request for a retransmission reaches the leader of the round it names,
\* the only server that answers it.
RequestsReachTheLeader ==
    \A s \in sent : s[1].kind \in {"missing_two_a", "missing_decision"} =>
        leader_of(s[2], s[1].round)

Log == INSTANCE ReplicatedLog WITH decided <- {<<d[2], d[3]>> : d \in decided}

\* The servers implement the replicated log: what any of them reports for an
\* instance agrees with all the reports there are.
LogSpec == Log!Spec
=============================================================================
