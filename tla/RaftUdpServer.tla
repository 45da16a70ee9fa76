---------------------------- MODULE RaftUdpServer ----------------------------
(***************************************************************************)
(* A server of the earlier Raft that talks UDP (examples/aaa): what each   *)
(* entry point does to the state of the server, which messages it sends    *)
(* and what it reports as committed.  RaftUdp runs servers over a network  *)
(* that may do anything, RaftUdpDelivery over one that delivers.           *)
(*                                                                         *)
(* Two builds are kept: raft.cpp and, before it, raft2.cpp.  They differ   *)
(* in destinations, after_nack and the constant quiet; all else is the     *)
(* same text in both.                                                      *)
(***************************************************************************)
EXTENDS Nodes, Sequences

CONSTANTS
    Value,
    quiet       \* seconds without a sign of a leader: 3 in raft.cpp, 2 in raft2.cpp

ASSUME QuietAssumption == quiet \in Nat \ {0}

VARIABLE build      \* the build the servers run: "raft" or "raft2"
-----------------------------------------------------------------------------
(***************************************************************************)
(* hist: an array of entries, read from 0.                                 *)
(***************************************************************************)
filled(h, ix) == ix < Len(h)
valix(h, ix) == h[ix + 1].val
get_logt(h, ix) == h[ix + 1].logt
logtix(h, ix, t) == filled(h, ix) /\ get_logt(h, ix) = t
get_next_ix(h) == Len(h)
get_last_ix(h) == get_next_ix(h) - 1
clear == <<>>

\* The array is cut behind ix.
strip(h, ix) == SubSeq(h, 1, ix + 1)

\* The array ends with ix; places it did not have get the new entry.
append(h, ix, t, v) ==
    [k \in 1 .. ix + 1 |-> IF k <= Len(h) THEN h[k] ELSE [logt |-> t, val |-> v]]
-----------------------------------------------------------------------------
(***************************************************************************)
(* localstate.  quiet_for is its time less the time of the last sign of a  *)
(* leader.                                                                 *)
(***************************************************************************)
initially ==
    [hist |-> clear, voters |-> {}, repliers |-> <<>>, is_leader |-> FALSE, term |-> 0,
     quiet_for |-> 0, has_commits |-> FALSE, last_commited_ix |-> 0]

term_bigeq(s, t) == t <= s.term
commited_in(s, ix) == s.has_commits /\ ix <= s.last_commited_ix
set_last_commited_ix(s, ix) == [s EXCEPT !.last_commited_ix = ix, !.has_commits = TRUE]

move_to_term(s, t) ==
    [s EXCEPT !.term = t, !.voters = {}, !.repliers = <<>>, !.is_leader = FALSE]

increase_term_by_nodeid(n, s) == move_to_term(s, s.term + 1 + n)
add_vote(s, voter) == [s EXCEPT !.voters = @ \cup {voter}]
become_leader(s) == [s EXCEPT !.is_leader = TRUE]
increase_time(s) == [s EXCEPT !.quiet_for = @ + 1]
delay_leader_election(s) == [s EXCEPT !.quiet_for = 0]
is_leader_too_quiet(s) == s.quiet_for >= quiet

get_repliers(s, ix) == IF ix < Len(s.repliers) THEN s.repliers[ix + 1] ELSE {}

\* The array of repliers grows with empty sets up to ix.
add_replier(s, ix, replier) ==
    LET end == IF Len(s.repliers) <= ix THEN ix + 1 ELSE Len(s.repliers)
    IN  [s EXCEPT !.repliers = [k \in 1 .. end |->
            get_repliers(s, k - 1) \cup (IF k = ix + 1 THEN {replier} ELSE {})]]
-----------------------------------------------------------------------------
(***************************************************************************)
(* Messages, with their addressees.  A broadcast goes to every node, the   *)
(* sender included.  The address that a negative acknowledgement repeats   *)
(* is not read and left out.                                               *)
(***************************************************************************)
broadcast(m) == {m} \X Node
unicast(dst, m) == {<<m, dst>>}

send_rqst_vote_msg(cand, logt, ix, t) ==
    broadcast([kind |-> "rqvote", cand |-> cand, logt |-> logt, ix |-> ix, term |-> t])

send_rqst_vote_m_nolog(cand, t) ==
    broadcast([kind |-> "rqvotenolog", cand |-> cand, term |-> t])

send_vote_cand_msg(n, t, cand) ==
    unicast(cand, [kind |-> "vtcandidate", node |-> n, term |-> t, cand |-> cand])

send_appended_reply_msg(leader, t, n, ix, isrecover) ==
    unicast(leader, [kind |-> "enappeneded", term |-> t, node |-> n, ix |-> ix,
                     isrecover |-> isrecover])

send_keepalive(t) == broadcast([kind |-> "keepalive", term |-> t])

send_nack(n, leader, t, ix) ==
    unicast(leader, [kind |-> "nack", term |-> t, node |-> n, ix |-> ix])

\* Fault: the destinations of raft2.cpp in raft.cpp.
destinations_inverted(m, recovernode) ==
    IF m.isrecover THEN broadcast(m) ELSE unicast(recovernode, m)

\* raft.cpp sends a new entry to everyone and a missing one to whom it is missing;
\* raft2.cpp does it the other way round.
destinations(m, recovernode) ==
    IF m.isrecover = (build = "raft") THEN unicast(recovernode, m) ELSE broadcast(m)

\* The entry at ix with the term of the entry before it; there, prevt is not set.
msg_append_send(n, t, h, ix, isrecover, recovernode) ==
    destinations([kind |-> "appentry", term |-> t, val |-> valix(h, ix),
                  logt |-> get_logt(h, ix), node |-> n, ix |-> ix,
                  prevlogt |-> IF ix = 0 THEN 0 ELSE get_logt(h, ix - 1),
                  isrecover |-> isrecover],
                 recovernode)

\* What the leader sends of its log: nothing if it has no such entry.
req_replicate_entry_from_log(n, s, ix, isrecover, recovernode) ==
    IF s.is_leader /\ filled(s.hist, ix)
    THEN msg_append_send(n, s.term, s.hist, ix, isrecover, recovernode)
    ELSE {}
-----------------------------------------------------------------------------
(***************************************************************************)
(* The entry points.  The result is the server's new state, what it sends  *)
(* and what it reports to its user.                                        *)
(***************************************************************************)
does(s, out) == [server |-> s, out |-> out, reports |-> <<>>]
nothing(s) == does(s, {})

\* recovernode is read before it is set: in raft2.cpp the entry goes to anyone, or
\* nowhere.
req_append_new_entry(n, s, v, recovernode) ==
    LET ix == get_next_ix(s.hist)
        appended == add_replier([s EXCEPT !.hist = append(@, ix, s.term, v)], ix, n)
        sends == req_replicate_entry_from_log(n, appended, ix, FALSE, recovernode)
    IN  IF s.is_leader
        THEN does(appended, {p \in sends : p[2] \in Node})
        ELSE nothing(s)

announce_candidacy(n, s) ==
    LET c == delay_leader_election(add_vote(increase_term_by_nodeid(n, s), n))
        ix == get_last_ix(s.hist)
    IN  does(c, send_vote_cand_msg(n, c.term, n) \cup
                IF filled(s.hist, 0)
                THEN send_rqst_vote_msg(n, get_logt(s.hist, ix), ix, c.term)
                ELSE send_rqst_vote_m_nolog(n, c.term))

sec_timeout(n, s) ==
    LET later == increase_time(s)
    IN  IF s.is_leader THEN does(s, send_keepalive(s.term))
        ELSE IF is_leader_too_quiet(later) THEN announce_candidacy(n, later) ELSE nothing(later)

handle_keepalive(n, s, m) ==
    LET moved == IF s.term < m.term THEN move_to_term(s, m.term) ELSE s
    IN  nothing(IF moved.term = m.term THEN delay_leader_election(moved) ELSE moved)

voted(n, s, m) ==
    IF term_bigeq(s, m.term) THEN nothing(s)
    ELSE does(delay_leader_election(move_to_term(s, m.term)), send_vote_cand_msg(n, m.term, m.cand))

handle_rqst_vote(n, s, m) ==
    LET lastix == get_last_ix(s.hist)
        lastlogt == get_logt(s.hist, lastix)
        ok == filled(s.hist, 0) => ~(m.logt < lastlogt \/ (lastlogt = m.logt /\ m.ix < lastix))
    IN  IF ok THEN voted(n, s, m) ELSE nothing(s)

handle_rqst_vote_nolog(n, s, m) == IF filled(s.hist, 0) THEN nothing(s) ELSE voted(n, s, m)

handle_vote_cand_msg(n, s, m) ==
    LET more == add_vote(s, m.node)
    IN  IF n # m.cand \/ s.term # m.term \/ s.is_leader THEN nothing(s)
        ELSE nothing(IF majority(more.voters) THEN become_leader(more) ELSE more)

\* Fault: an entry follows any other.
has_any_previous(s, m) == m.ix <= Len(s.hist)

has_previous(s, m) == m.ix = 0 \/ logtix(s.hist, m.ix - 1, m.prevlogt)

\* Only raft.cpp moves to the term of a message it does not take the entry from.
after_nack(s, t) ==
    IF build = "raft" THEN delay_leader_election(move_to_term(s, t)) ELSE s

\* Fault: a deposed leader is heard.
never_stale(s, m) == s.is_leader

stale(s, m) == s.is_leader \/ m.term < s.term

\* An entry a server has already is not acknowledged again.
handle_append_entries(n, s, m) ==
    LET moved == delay_leader_election(move_to_term(s, m.term))
        before == IF m.ix = 0 THEN clear ELSE strip(s.hist, m.ix - 1)
    IN  CASE stale(s, m) -> nothing(s)
          [] ~stale(s, m) /\ ~has_previous(s, m) ->
                does(after_nack(s, m.term), send_nack(n, m.node, m.term, m.ix - 1))
          [] OTHER ->
                IF logtix(s.hist, m.ix, m.logt) THEN nothing(moved)
                ELSE does([moved EXCEPT !.hist = append(before, m.ix, m.logt, m.val)],
                          send_appended_reply_msg(m.node, m.term, n, m.ix, m.isrecover))

handle_nack(n, s, m) ==
    IF s.term = m.term /\ s.is_leader
    THEN does(s, req_replicate_entry_from_log(n, s, m.ix, TRUE, m.node))
    ELSE nothing(s)

report_commits(h, firstix, lastix) ==
    [k \in 1 .. lastix + 1 - firstix |-> valix(h, firstix + k - 1)]

\* The acknowledgement is of this term, for an entry of this term not known to be
\* committed.
counts(s, m) ==
    /\ s.is_leader /\ s.term = m.term /\ logtix(s.hist, m.ix, m.term)
    /\ commited_in(s, 0) => s.last_commited_ix < m.ix

\* Fault: one entry for one negative acknowledgement.
recover_one(n, s, m) == {}

\* The entry behind an entry that was recovered follows it.
next_recovery(n, s, m) ==
    IF s.is_leader /\ m.isrecover /\ filled(s.hist, 0) /\ m.ix < get_last_ix(s.hist)
    THEN req_replicate_entry_from_log(n, s, m.ix + 1, TRUE, m.node)
    ELSE {}

handle_appended_reply_msg(n, s, m) ==
    LET more == IF counts(s, m) THEN add_replier(s, m.ix, m.node) ELSE s
        firstix == IF commited_in(s, 0) THEN s.last_commited_ix + 1 ELSE 0
    IN  IF counts(s, m) /\ majority(get_repliers(more, m.ix))
        THEN [server |-> set_last_commited_ix(more, m.ix), out |-> next_recovery(n, s, m),
              reports |-> report_commits(s.hist, firstix, m.ix)]
        ELSE does(more, next_recovery(n, s, m))

recv(n, s, m) ==
    CASE m.kind = "appentry" -> handle_append_entries(n, s, m)
      [] m.kind = "rqvote" -> handle_rqst_vote(n, s, m)
      [] m.kind = "rqvotenolog" -> handle_rqst_vote_nolog(n, s, m)
      [] m.kind = "enappeneded" -> handle_appended_reply_msg(n, s, m)
      [] m.kind = "vtcandidate" -> handle_vote_cand_msg(n, s, m)
      [] m.kind = "keepalive" -> handle_keepalive(n, s, m)
      [] m.kind = "nack" -> handle_nack(n, s, m)
=============================================================================
