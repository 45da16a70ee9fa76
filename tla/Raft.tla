--------------------------------- MODULE Raft ---------------------------------
(***************************************************************************)
(* The Raft servers of raft.ivy, without persistence and membership        *)
(* changes as in the code.  One action per entry point: the client's       *)
(* req_append_new_entry, the handler of each kind of message and the       *)
(* one-second timer.  The ghost calls of the source are here too: votes    *)
(* and acknowledgements are facts about sent, and elected, term_hist,      *)
(* valid and by record what safetyproof and commited_ix record.            *)
(*                                                                         *)
(* The network is the relation sent: any message sent may be delivered     *)
(* late, out of order, several times or never.                             *)
(***************************************************************************)
EXTENDS Nodes, Sequences

CONSTANTS
    Term,       \* the terms, an initial segment of the numbers
    Index,      \* the indices, an initial segment of the numbers
    Value,      \* what clients append
    timeout     \* seconds of silence that count as a failure, 3 in the code

ASSUME TermsAssumption ==
    Term \subseteq Nat /\ 0 \in Term /\ \A t \in Term : 0 .. t \subseteq Term
ASSUME IndicesAssumption ==
    Index \subseteq Nat /\ 0 \in Index /\ \A i \in Index : 0 .. i \subseteq Index
ASSUME TimeoutAssumption == timeout \in Nat \ {0}

VARIABLES
    \* Per server.
    nter,           \* the current term
    is_leader,
    myhist,         \* the log, a sequence of entries: index i is at i + 1
    my_voters,      \* who voted for the server in its term
    my_repliers,    \* who acknowledged an index in its term
    commited,       \* the first index not known to be committed
    heard,          \* seconds since the last sign of life of a leader
    \* The network: <<m, d>>, m was sent to d.
    sent,
    \* What each server reported to its user with commited_at_ix, in order.
    reported,
    \* Ghost.
    elected,        \* <<t, n, q>>: n became the leader of t with the votes of q
    term_hist,      \* the log of the leader of a term, at its longest
    valid,          \* every log a server ever had
    by              \* <<n, ix, t, q>>: n committed up to ix in t, acknowledged by q

term_vars   == <<nter, is_leader, my_voters, elected>>
log_vars    == <<myhist, valid, term_hist>>
commit_vars == <<commited, reported, by>>

vars == <<term_vars, log_vars, commit_vars, my_repliers, heard, sent>>
-----------------------------------------------------------------------------
(***************************************************************************)
(* Histories.                                                              *)
(***************************************************************************)
Entry == [logt : Term, val : Value]

filled(h, ix) == ix < Len(h)
logtix(h, ix, t) == filled(h, ix) /\ h[ix + 1].logt = t
valix(h, ix) == h[ix + 1].val
get_logt(h, ix) == h[ix + 1].logt
get_next_ix(h) == Len(h)

\* The entries before ix; strip(previx) of the code, and clear, with ix = 0.
strip_from(h, ix) == SubSeq(h, 1, ix)

append(h, t, v) == Append(h, [logt |-> t, val |-> v])

no_repliers == [ix \in Index |-> {}]
-----------------------------------------------------------------------------
(***************************************************************************)
(* Messages.                                                               *)
(***************************************************************************)
rqvote(cand, logt, ix, t) ==
    [kind |-> "rqvote", cand |-> cand, logt |-> logt, ix |-> ix, term |-> t]
rqvotenolog(cand, t) == [kind |-> "rqvotenolog", cand |-> cand, term |-> t]
vtcandidate(n, t, cand) == [kind |-> "vtcandidate", node |-> n, term |-> t, cand |-> cand]
enappeneded(t, n, ix, isrecover) ==
    [kind |-> "enappeneded", term |-> t, node |-> n, ix |-> ix, isrecover |-> isrecover]
keepalive(t) == [kind |-> "keepalive", term |-> t]
nack(t, n, ix) == [kind |-> "nack", term |-> t, node |-> n, ix |-> ix]

\* The entry at ix of the leader's log, with the term of the entry before it,
\* which is unset, and not read by the receiver, when there is none.
appentry(leader, t, h, ix, isrecover) ==
    [kind |-> "appentry", node |-> leader, term |-> t, ix |-> ix,
     logt |-> get_logt(h, ix), val |-> valix(h, ix),
     prevlogt |-> IF ix = 0 THEN 0 ELSE get_logt(h, ix - 1), isrecover |-> isrecover]

Message ==
    [kind : {"rqvote"}, cand : Node, logt : Term, ix : Index, term : Term] \cup
    [kind : {"rqvotenolog"}, cand : Node, term : Term] \cup
    [kind : {"vtcandidate"}, node : Node, term : Term, cand : Node] \cup
    [kind : {"enappeneded"}, term : Term, node : Node, ix : Index, isrecover : BOOLEAN] \cup
    [kind : {"keepalive"}, term : Term] \cup
    [kind : {"nack"}, term : Term, node : Node, ix : Index] \cup
    [kind : {"appentry"}, node : Node, term : Term, ix : Index, logt : Term,
     val : Value, prevlogt : Term, isrecover : BOOLEAN]

broadcast(m) == {m} \X Node         \* to all nodes, including the sender
unicast(m, d) == {<<m, d>>}

\* The relations the handlers' requirements are about.
vote_cand_msg(n, t, cand) == \E s \in sent : s[1] = vtcandidate(n, t, cand)
appended_reply_msg(t, n, ix) ==
    \E s \in sent, r \in BOOLEAN : s[1] = enappeneded(t, n, ix, r)
-----------------------------------------------------------------------------
Init ==
    /\ nter = [n \in Node |-> 0]
    /\ is_leader = [n \in Node |-> FALSE]
    /\ myhist = [n \in Node |-> <<>>]
    /\ my_voters = [n \in Node |-> {}]
    /\ my_repliers = [n \in Node |-> no_repliers]
    /\ commited = [n \in Node |-> 0]
    /\ heard = [n \in Node |-> 0]
    /\ sent = {}
    /\ reported = [n \in Node |-> <<>>]
    /\ elected = {}
    /\ term_hist = [t \in Term |-> <<>>]
    /\ valid = {<<>>}
    /\ by = {}
-----------------------------------------------------------------------------
(***************************************************************************)
(* Terms and votes.                                                        *)
(***************************************************************************)

\* localstate.move_to_term, with the voters n starts the term with; every
\* caller also calls delay_leader_election.
move_to_term(n, t, voters) ==
    /\ nter' = [nter EXCEPT ![n] = t]
    /\ is_leader' = [is_leader EXCEPT ![n] = FALSE]
    /\ my_voters' = [my_voters EXCEPT ![n] = voters]
    /\ my_repliers' = [my_repliers EXCEPT ![n] = no_repliers]
    /\ heard' = [heard EXCEPT ![n] = 0]
    /\ UNCHANGED elected

\* What a candidate says of its log.
request(n, t) ==
    IF filled(myhist[n], 0)
    THEN LET ix == get_next_ix(myhist[n]) - 1
         IN  rqvote(n, get_logt(myhist[n], ix), ix, t)
    ELSE rqvotenolog(n, t)

\* n votes for itself at once, in a term of its own choice.
announce_candidacy(n) ==
    LET t == nter[n] + 1 + n
    IN  /\ t \in Term
        /\ move_to_term(n, t, {n})
        /\ sent' = sent \cup broadcast(request(n, t)) \cup unicast(vtcandidate(n, t, n), n)

is_leader_too_quiet(seconds) == seconds >= timeout

\* The one-second timer.
timer(n) ==
    /\ \/ /\ ~is_leader[n]
          /\ is_leader_too_quiet(heard[n] + 1)
          /\ announce_candidacy(n)
       \/ /\ ~is_leader[n]
          /\ ~is_leader_too_quiet(heard[n] + 1)
          /\ heard' = [heard EXCEPT ![n] = @ + 1]
          /\ UNCHANGED <<term_vars, my_repliers, sent>>
       \/ /\ is_leader[n]
          /\ sent' = sent \cup broadcast(keepalive(nter[n]))
          /\ UNCHANGED <<term_vars, my_repliers, heard>>
    /\ UNCHANGED <<log_vars, commit_vars>>

handle_keepalive(n, m) ==
    /\ m.kind = "keepalive"
    /\ \/ /\ nter[n] < m.term
          /\ move_to_term(n, m.term, {})
       \/ /\ nter[n] = m.term
          /\ heard' = [heard EXCEPT ![n] = 0]
          /\ UNCHANGED <<term_vars, my_repliers>>
    /\ UNCHANGED <<log_vars, commit_vars, sent>>

\* The candidate's log is at least as good as n's.
log_is_as_good(n, m) ==
    LET h == myhist[n]
        lastix == get_next_ix(h) - 1
        lastlogt == get_logt(h, lastix)
    IN  filled(h, 0) => lastlogt < m.logt \/ (lastlogt = m.logt /\ lastix <= m.ix)

\* Fault: a vote, or a candidacy, in the term itself does not count.
votes_again(n, m) == nter[n] <= m.term

\* n has not voted in the term, nor seen a message of it.
has_not_voted(n, m) == nter[n] < m.term

handle_rqst_vote(n, m) ==
    /\ m.kind = "rqvote"
    /\ log_is_as_good(n, m)
    /\ has_not_voted(n, m)
    /\ sent' = sent \cup unicast(vtcandidate(n, m.term, m.cand), m.cand)
    /\ move_to_term(n, m.term, {})
    /\ UNCHANGED <<log_vars, commit_vars>>

handle_rqst_vote_nolog(n, m) ==
    /\ m.kind = "rqvotenolog"
    /\ ~filled(myhist[n], 0)
    /\ has_not_voted(n, m)
    /\ sent' = sent \cup unicast(vtcandidate(n, m.term, m.cand), m.cand)
    /\ move_to_term(n, m.term, {})
    /\ UNCHANGED <<log_vars, commit_vars>>

\* With a majority of votes, n leads its term; its log becomes the term's.
handle_vote_cand_msg(n, m) ==
    /\ m.kind = "vtcandidate"
    /\ n = m.cand
    /\ nter[n] = m.term
    /\ ~is_leader[n]
    /\ my_voters' = [my_voters EXCEPT ![n] = @ \cup {m.node}]
    /\ \/ /\ majority(my_voters'[n])
          /\ is_leader' = [is_leader EXCEPT ![n] = TRUE]
          /\ elected' = elected \cup {<<m.term, n, my_voters'[n]>>}
          /\ term_hist' = [term_hist EXCEPT ![m.term] = myhist[n]]
       \/ /\ ~majority(my_voters'[n])
          /\ UNCHANGED <<is_leader, elected, term_hist>>
    /\ UNCHANGED <<nter, myhist, valid, commit_vars, my_repliers, heard, sent>>
-----------------------------------------------------------------------------
(***************************************************************************)
(* Replication.                                                            *)
(***************************************************************************)

\* The client appends v at the leader, which counts as one that has it; the entry
\* goes to the servers in to, in Next all of them.
req_append_new_entry(n, v, to) ==
    LET t == nter[n]
        ix == get_next_ix(myhist[n])
        h == append(myhist[n], t, v)
    IN  /\ is_leader[n]
        /\ ix \in Index
        /\ myhist' = [myhist EXCEPT ![n] = h]
        /\ valid' = valid \cup {h}
        /\ term_hist' = [term_hist EXCEPT ![t] = h]
        /\ my_repliers' = [my_repliers EXCEPT ![n][ix] = @ \cup {n}]
        /\ sent' = sent \cup ({appentry(n, t, h, ix, FALSE)} \X to)
        /\ UNCHANGED <<term_vars, commit_vars, heard>>

\* Fault: an entry is accepted behind any other.
has_any_previous(n, m) == m.ix <= Len(myhist[n])

\* n holds the entry before the one m brings.
has_previous(n, m) == m.ix # 0 => logtix(myhist[n], m.ix - 1, m.prevlogt)

\* The entry is new to n: it replaces what n has from its index on.
store(n, m) ==
    LET h == append(strip_from(myhist[n], m.ix), m.logt, m.val)
    IN  /\ has_previous(n, m)
        /\ ~logtix(myhist[n], m.ix, m.logt)
        /\ myhist' = [myhist EXCEPT ![n] = h]
        /\ valid' = valid \cup {h}
        /\ sent' = sent \cup unicast(enappeneded(m.term, n, m.ix, m.isrecover), m.node)
        /\ UNCHANGED term_hist

\* n misses the entry before: it asks the leader for it.
reject(n, m) ==
    /\ ~has_previous(n, m)
    /\ sent' = sent \cup unicast(nack(m.term, n, m.ix - 1), m.node)
    /\ UNCHANGED log_vars

\* n has the entry already: no second acknowledgement.
ignore(n, m) ==
    /\ has_previous(n, m)
    /\ logtix(myhist[n], m.ix, m.logt)
    /\ UNCHANGED <<log_vars, sent>>

\* Fault: stale appends are accepted.
accepts_stale(n, m) == ~is_leader[n]

\* m is from a leader of n's term or a later one.
accepts(n, m) == ~is_leader[n] /\ nter[n] <= m.term

handle_append_entries(n, m) ==
    /\ m.kind = "appentry"
    /\ accepts(n, m)
    /\ move_to_term(n, m.term, {})
    /\ store(n, m) \/ reject(n, m) \/ ignore(n, m)
    /\ UNCHANGED commit_vars

\* The leader sends the entry at ix of its log again: in Next to one that lacks it.
recover(n, ix, to) ==
    sent' = sent \cup ({appentry(n, nter[n], myhist[n], ix, TRUE)} \X to)

handle_nack(n, m, to) ==
    /\ m.kind = "nack"
    /\ nter[n] = m.term
    /\ is_leader[n]
    /\ filled(myhist[n], m.ix)
    /\ recover(n, m.ix, to)
    /\ UNCHANGED <<term_vars, log_vars, commit_vars, my_repliers, heard>>

\* The acknowledgement counts: it is of this term, for an entry of this term
\* not yet known to be committed.
counts(n, m) ==
    /\ nter[n] = m.term
    /\ logtix(myhist[n], m.ix, m.term)
    /\ commited[n] <= m.ix

\* The values of the entries from firstix to lastix.
report_commits(n, firstix, lastix) ==
    [k \in 1 .. lastix + 1 - firstix |-> valix(myhist[n], firstix + k - 1)]

\* With a majority, everything up to the entry is committed and reported.
commit(n, ix) ==
    /\ commited' = [commited EXCEPT ![n] = ix + 1]
    /\ reported' = [reported EXCEPT ![n] = @ \o report_commits(n, commited[n], ix)]
    /\ by' = by \cup {<<n, ix, nter[n], my_repliers'[n][ix]>>}

handle_appended_reply_msg(n, m, to) ==
    /\ m.kind = "enappeneded"
    /\ is_leader[n]
    /\ IF m.isrecover /\ filled(myhist[n], m.ix + 1)
       THEN recover(n, m.ix + 1, to)
       ELSE UNCHANGED sent
    /\ \/ /\ counts(n, m)
          /\ my_repliers' = [my_repliers EXCEPT ![n][m.ix] = @ \cup {m.node}]
          /\ IF majority(my_repliers'[n][m.ix]) THEN commit(n, m.ix) ELSE UNCHANGED commit_vars
       \/ /\ ~counts(n, m)
          /\ UNCHANGED <<my_repliers, commit_vars>>
    /\ UNCHANGED <<term_vars, log_vars, heard>>
-----------------------------------------------------------------------------
recv(n, m) ==
    \/ handle_append_entries(n, m)
    \/ handle_rqst_vote(n, m)
    \/ handle_rqst_vote_nolog(n, m)
    \/ handle_appended_reply_msg(n, m, {m.node})
    \/ handle_vote_cand_msg(n, m)
    \/ handle_keepalive(n, m)
    \/ handle_nack(n, m, {m.node})

Next ==
    \/ \E n \in Node, v \in Value : req_append_new_entry(n, v, Node)
    \/ \E n \in Node : timer(n)
    \/ \E s \in sent : recv(s[2], s[1])

Spec == Init /\ [][Next]_vars
-----------------------------------------------------------------------------
\* The logs whose entries lie at indices.
History == {h \in Seq(Entry) : \A k \in 1 .. Len(h) : k - 1 \in Index}

\* Every variable has its type.
TypeOK ==
    /\ nter \in [Node -> Term]
    /\ is_leader \in [Node -> BOOLEAN]
    /\ myhist \in [Node -> History]
    /\ my_voters \in [Node -> SUBSET Node]
    /\ my_repliers \in [Node -> [Index -> SUBSET Node]]
    /\ commited \in [Node -> Nat]
    /\ heard \in [Node -> 0 .. timeout - 1]
    /\ sent \subseteq Message \X Node
    /\ reported \in [Node -> Seq(Value)]
    /\ elected \subseteq Term \X Node \X SUBSET Node
    /\ term_hist \in [Term -> History]
    /\ valid \subseteq History
    /\ by \subseteq Node \X Index \X Term \X SUBSET Node

\* A term has one leader, although candidates choose their terms by adding
\* their own number and may choose the same one.
OneLeaderPerTerm ==
    \A e1, e2 \in elected : e1[1] = e2[1] => e1[2] = e2[2]

\* A server votes once in a term and has left the lower terms by then; the voters
\* a candidate or a leader counts did vote for it in its term, never in another.
VoteOncePerTerm ==
    \A n \in Node, t \in Term, c1, c2 \in Node :
        vote_cand_msg(n, t, c1) /\ vote_cand_msg(n, t, c2) => c1 = c2
VotersHaveLeft ==
    \A n \in Node, t \in Term, c \in Node : vote_cand_msg(n, t, c) => t <= nter[n]
VotersVoted == \A n \in Node : \A v \in my_voters[n] : vote_cand_msg(v, nter[n], n)
LeadersHaveVotes ==
    \A e \in elected :
        /\ majority(e[3])
        /\ \A v \in e[3] : vote_cand_msg(v, e[1], e[2])

VotesAreKept == VoteOncePerTerm /\ VotersHaveLeft /\ VotersVoted /\ LeadersHaveVotes

\* Two logs, of any servers at any times, that have entries of one term at an
\* index are the same up to there.
LogsMatch ==
    \A h1, h2 \in valid, ix \in Index :
        filled(h1, ix) /\ filled(h2, ix) /\ get_logt(h1, ix) = get_logt(h2, ix) =>
            strip_from(h1, ix + 1) = strip_from(h2, ix + 1)

\* n holds the entry at ix of term t since it acknowledged it, or leads t.
strong_vote(n, t, ix) ==
    appended_reply_msg(t, n, ix) \/ \E e \in elected : e[1] = t /\ e[2] = n

\* The entry of t at ix is in the log of the term's leader, and a majority has
\* it or may still come to acknowledge it.
choosable(t, ix) ==
    /\ logtix(term_hist[t], ix, t)
    /\ \E q \in Majorities : \A n \in q : strong_vote(n, t, ix) \/ nter[n] <= t

\* As long as an entry may be committed, those who acknowledged it keep it,
\* whatever stale messages arrive, and each later leader has it.
ChoosableIsKept ==
    \A t \in Term, ix \in Index : choosable(t, ix) =>
        /\ \A n \in Node : strong_vote(n, t, ix) => logtix(myhist[n], ix, t)
        /\ \A e \in elected : e[1] > t => logtix(term_hist[e[1]], ix, t)

Log == INSTANCE CommittedLog

\* The servers implement one log that only grows and that each of them reports
\* in order, without gaps or repetitions.
LogSpec == Log!Spec
=============================================================================
