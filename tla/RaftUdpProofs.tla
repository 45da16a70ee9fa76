---------------------------- MODULE RaftUdpProofs ----------------------------
(***************************************************************************)
(* The earlier Raft over UDP takes, in both builds, only steps that        *)
(* RaftProofs allows the servers of raft.ivy with any destinations; what   *)
(* is proved there of elections, logs and commits holds here as well.      *)
(* Behind it, the process of such a server (Console).                      *)
(***************************************************************************)
EXTENDS RaftUdp, TLAPS

-----------------------------------------------------------------------------
(***************************************************************************)
(* The refinement mapping.                                                 *)
(***************************************************************************)
Term == 0 .. MaxTerm
Index == 0 .. MaxLog - 1

first_uncommited(s) == IF s.has_commits THEN s.last_commited_ix + 1 ELSE 0
all_repliers(s) == [ix \in Index |-> get_repliers(s, ix)]

terms == [n \in Node |-> server[n].term]
leaders == [n \in Node |-> server[n].is_leader]
logs == [n \in Node |-> server[n].hist]
voters == [n \in Node |-> server[n].voters]
repliers == [n \in Node |-> all_repliers(server[n])]
first_uncommiteds == [n \in Node |-> first_uncommited(server[n])]
silences == [n \in Node |-> server[n].quiet_for]

R == INSTANCE RaftProofs WITH
    timeout <- quiet, nter <- terms, is_leader <- leaders, myhist <- logs,
    my_voters <- voters, my_repliers <- repliers, commited <- first_uncommiteds,
    heard <- silences

\* What RaftProofs assumes of its constants holds of these.
LEMMA RaftData ==
  /\ Size \in Nat \ {0}
  /\ Term \subseteq Nat /\ 0 \in Term /\ \A t \in Term : 0 .. t \subseteq Term
  /\ Index \subseteq Nat /\ 0 \in Index /\ \A i \in Index : 0 .. i \subseteq Index
  /\ quiet \in Nat \ {0}
<1>1. MaxTerm \in Nat /\ MaxLog \in Nat /\ MaxLog >= 1
  BY BoundsAssumption
<1>2. \A t \in Term : 0 .. t \subseteq Term
  BY <1>1 DEF Term
<1>3. \A i \in Index : 0 .. i \subseteq Index
  BY <1>1 DEF Index
<1> QED
  BY <1>1, <1>2, <1>3, SizeAssumption, QuietAssumption DEF Term, Index

\* Both have the same nodes and majorities.
LEMMA SameNodes == R!Node = Node /\ \A q : R!majority(q) <=> majority(q)
  BY DEF R!Node, Node, R!majority, majority, R!card, card, R!all, all,
         R!Cardinality, Cardinality

-----------------------------------------------------------------------------
(***************************************************************************)
(* The state of a server.                                                  *)
(***************************************************************************)
State ==
    [hist : Seq(R!Entry), voters : SUBSET Node, repliers : Seq(SUBSET Node),
     is_leader : BOOLEAN, term : Nat, quiet_for : Nat, has_commits : BOOLEAN,
     last_commited_ix : Nat]

TypeOK == server \in [Node -> State]

Inv == TypeOK /\ R!LogInv /\ R!Commits

\* A server of another term starts without votes and acknowledgements.
LEMMA Moved ==
  ASSUME NEW s \in State, NEW t \in Nat
  PROVE  LET z == move_to_term(s, t)
         IN  /\ z \in State /\ z.term = t /\ ~z.is_leader /\ z.voters = {}
             /\ all_repliers(z) = R!no_repliers
             /\ z.hist = s.hist /\ first_uncommited(z) = first_uncommited(s)
             /\ z.quiet_for = s.quiet_for
<1>0. <<>> \in Seq(SUBSET Node)
  OBVIOUS
<1>1. PICK z : z = move_to_term(s, t)
  OBVIOUS
<1>2. /\ z \in State /\ z.term = t /\ ~z.is_leader /\ z.voters = {}
      /\ z.repliers = <<>> /\ z.hist = s.hist /\ z.quiet_for = s.quiet_for
      /\ z.has_commits = s.has_commits /\ z.last_commited_ix = s.last_commited_ix
  BY <1>0, <1>1 DEF move_to_term, State
<1>3. all_repliers(z) = R!no_repliers
  <2>1. \A ix \in Index : get_repliers(z, ix) = {}
    BY <1>2, RaftData DEF get_repliers
  <2> QED
    BY <2>1 DEF all_repliers, R!no_repliers
<1> QED
  BY <1>1, <1>2, <1>3 DEF first_uncommited

LEMMA Delayed ==
  ASSUME NEW s \in State
  PROVE  LET z == delay_leader_election(s)
         IN  /\ z \in State /\ z.quiet_for = 0 /\ z.term = s.term /\ z.is_leader = s.is_leader
             /\ z.voters = s.voters /\ all_repliers(z) = all_repliers(s) /\ z.hist = s.hist
             /\ first_uncommited(z) = first_uncommited(s)
  BY DEF delay_leader_election, State, all_repliers, get_repliers, first_uncommited

LEMMA Voted ==
  ASSUME NEW s \in State, NEW p \in Node
  PROVE  LET z == add_vote(s, p)
         IN  /\ z \in State /\ z.voters = s.voters \cup {p} /\ z.quiet_for = s.quiet_for
             /\ z.term = s.term /\ z.is_leader = s.is_leader
             /\ all_repliers(z) = all_repliers(s) /\ z.hist = s.hist
             /\ first_uncommited(z) = first_uncommited(s)
  BY DEF add_vote, State, all_repliers, get_repliers, first_uncommited

LEMMA Led ==
  ASSUME NEW s \in State
  PROVE  LET z == become_leader(s)
         IN  /\ z \in State /\ z.is_leader /\ z.voters = s.voters
             /\ z.quiet_for = s.quiet_for /\ z.term = s.term
             /\ all_repliers(z) = all_repliers(s) /\ z.hist = s.hist
             /\ first_uncommited(z) = first_uncommited(s)
  BY DEF become_leader, State, all_repliers, get_repliers, first_uncommited

LEMMA Later ==
  ASSUME NEW s \in State
  PROVE  LET z == increase_time(s)
         IN  /\ z \in State /\ z.is_leader = s.is_leader /\ z.voters = s.voters
             /\ z.quiet_for = s.quiet_for + 1 /\ z.term = s.term
             /\ all_repliers(z) = all_repliers(s) /\ z.hist = s.hist
             /\ first_uncommited(z) = first_uncommited(s)
<1>1. s.quiet_for + 1 \in Nat
  BY DEF State
<1>2. PICK z : z = increase_time(s)
  OBVIOUS
<1>3. /\ z \in State /\ z.is_leader = s.is_leader /\ z.voters = s.voters
      /\ z.quiet_for = s.quiet_for + 1 /\ z.term = s.term
      /\ z.repliers = s.repliers /\ z.hist = s.hist
      /\ z.has_commits = s.has_commits /\ z.last_commited_ix = s.last_commited_ix
  BY <1>1, <1>2 DEF increase_time, State
<1> QED
  BY <1>2, <1>3 DEF all_repliers, get_repliers, first_uncommited

-----------------------------------------------------------------------------
(***************************************************************************)
(* Steps of one server, as RaftProofs sees them.                           *)
(***************************************************************************)
becomes(n, z) ==
    /\ terms' = [terms EXCEPT ![n] = z.term]
    /\ leaders' = [leaders EXCEPT ![n] = z.is_leader]
    /\ logs' = [logs EXCEPT ![n] = z.hist]
    /\ voters' = [voters EXCEPT ![n] = z.voters]
    /\ repliers' = [repliers EXCEPT ![n] = all_repliers(z)]
    /\ first_uncommiteds' = [first_uncommiteds EXCEPT ![n] = first_uncommited(z)]
    /\ silences' = [silences EXCEPT ![n] = z.quiet_for]

\* The server n in the mapping.
LEMMA Mapped ==
  ASSUME NEW n \in Node
  PROVE  /\ terms[n] = server[n].term /\ leaders[n] = server[n].is_leader
         /\ logs[n] = server[n].hist /\ voters[n] = server[n].voters
         /\ repliers[n] = all_repliers(server[n])
         /\ first_uncommiteds[n] = first_uncommited(server[n])
         /\ silences[n] = server[n].quiet_for
  BY DEF terms, leaders, logs, voters, repliers, first_uncommiteds, silences

LEMMA BecomesAt ==
  ASSUME NEW n \in Node, NEW z, server'[n] = z,
         \A p \in Node : p # n => server'[p] = server[p]
  PROVE  becomes(n, z)
<1>1. terms' = [terms EXCEPT ![n] = z.term]
  BY DEF terms
<1>2. leaders' = [leaders EXCEPT ![n] = z.is_leader]
  BY DEF leaders
<1>3. logs' = [logs EXCEPT ![n] = z.hist]
  BY DEF logs
<1>4. voters' = [voters EXCEPT ![n] = z.voters]
  BY DEF voters
<1>5. repliers' = [repliers EXCEPT ![n] = all_repliers(z)]
  BY DEF repliers
<1>6. first_uncommiteds' = [first_uncommiteds EXCEPT ![n] = first_uncommited(z)]
  BY DEF first_uncommiteds
<1>7. silences' = [silences EXCEPT ![n] = z.quiet_for]
  BY DEF silences
<1> QED
  BY <1>1, <1>2, <1>3, <1>4, <1>5, <1>6, <1>7 DEF becomes

LEMMA Becomes ==
  ASSUME TypeOK, NEW n \in Node, NEW z \in State, server' = [server EXCEPT ![n] = z]
  PROVE  TypeOK' /\ becomes(n, z)
<1>1. server'[n] = z /\ \A p \in Node : p # n => server'[p] = server[p]
  BY DEF TypeOK
<1>2. TypeOK'
  BY DEF TypeOK
<1> QED
  BY <1>1, <1>2, BecomesAt

\* What a step leaves as it is.
LEMMA Unmoved ==
  ASSUME NEW n \in Node, NEW z, becomes(n, z)
  PROVE  /\ z.term = server[n].term => terms' = terms
         /\ z.is_leader = server[n].is_leader => leaders' = leaders
         /\ z.hist = server[n].hist => logs' = logs
         /\ z.voters = server[n].voters => voters' = voters
         /\ all_repliers(z) = all_repliers(server[n]) => repliers' = repliers
         /\ first_uncommited(z) = first_uncommited(server[n])
              => first_uncommiteds' = first_uncommiteds
         /\ z.quiet_for = server[n].quiet_for => silences' = silences
<1>1. z.term = server[n].term => terms' = terms
  BY Mapped DEF becomes, terms
<1>2. z.is_leader = server[n].is_leader => leaders' = leaders
  BY Mapped DEF becomes, leaders
<1>3. z.hist = server[n].hist => logs' = logs
  BY Mapped DEF becomes, logs
<1>4. z.voters = server[n].voters => voters' = voters
  BY Mapped DEF becomes, voters
<1>5. all_repliers(z) = all_repliers(server[n]) => repliers' = repliers
  BY Mapped DEF becomes, repliers
<1>6. first_uncommited(z) = first_uncommited(server[n])
        => first_uncommiteds' = first_uncommiteds
  BY Mapped DEF becomes, first_uncommiteds
<1>7. z.quiet_for = server[n].quiet_for => silences' = silences
  BY Mapped DEF becomes, silences
<1> QED
  BY <1>1, <1>2, <1>3, <1>4, <1>5, <1>6, <1>7

\* Steps of a server that keep its log and what it knows to be committed, and do
\* not make it a leader.
keeps(s, z) ==
    /\ z \in State
    /\ z.hist = s.hist
    /\ first_uncommited(z) = first_uncommited(s)
    /\ z.is_leader => s.is_leader /\ z.term = s.term

\* The history of a step that keeps the log of n and does not make it a leader.
LEMMA KeptHistory ==
  ASSUME Inv, NEW n \in Node, NEW r, record(n, server[n], r), r.server.hist = server[n].hist,
         r.server.is_leader => server[n].is_leader /\ r.server.term = server[n].term
  PROVE  UNCHANGED <<elected, valid, term_hist>>
<1>1. elected' = elected
  BY DEF record
<1>2. valid' = valid
  <2>1. server[n].hist \in valid
    BY Mapped, SameNodes DEF Inv, R!LogInv, R!LogsAreKept, R!Histories, R!LogsAreValid
  <2> QED
    BY <2>1 DEF record
<1>3. term_hist' = term_hist
  <2>1. CASE r.server.is_leader
    <3>1. term_hist[r.server.term] = r.server.hist
      BY <2>1, Mapped, SameNodes
         DEF Inv, R!LogInv, R!LogsAreKept, R!Histories, R!LeadersLog
    <3>2. term_hist \in [Term -> R!History]
      BY DEF Inv, R!LogInv, R!TypeOK
    <3> QED
      BY <2>1, <3>1, <3>2 DEF record
  <2>2. CASE ~r.server.is_leader
    BY <2>2 DEF record
  <2> QED
    BY <2>1, <2>2
<1> QED
  BY <1>1, <1>2, <1>3

\* A step without reports reports nothing.
LEMMA NoReports ==
  ASSUME Inv, NEW n \in Node, NEW z, NEW out, step(n, does(z, out))
  PROVE  /\ server' = [server EXCEPT ![n] = z] /\ sent' = sent \cup out
         /\ record(n, server[n], does(z, out))
         /\ UNCHANGED <<reported, by>>
<1>1. /\ server' = [server EXCEPT ![n] = z] /\ sent' = sent \cup out
      /\ reported' = [reported EXCEPT ![n] = @ \o <<>>]
      /\ record(n, server[n], does(z, out))
  BY DEF step, does
<1>2. reported' = reported
  <2>1. reported \in [Node -> Seq(Value)]
    BY SameNodes DEF Inv, R!LogInv, R!TypeOK
  <2>2. reported[n] \o <<>> = reported[n]
    BY <2>1
  <2> QED
    BY <1>1, <2>1, <2>2
<1>3. by' = by
  BY <1>1 DEF record, does
<1> QED
  BY <1>1, <1>2, <1>3

LEMMA KeepingStep ==
  ASSUME Inv, NEW n \in Node, NEW z, keeps(server[n], z), NEW out, step(n, does(z, out))
  PROVE  /\ TypeOK' /\ becomes(n, z) /\ sent' = sent \cup out
         /\ UNCHANGED <<R!log_vars, R!commit_vars, elected>>
<1>1. /\ server' = [server EXCEPT ![n] = z] /\ sent' = sent \cup out
      /\ record(n, server[n], does(z, out)) /\ UNCHANGED <<reported, by>>
  BY NoReports
<1>2. TypeOK' /\ becomes(n, z)
  BY <1>1, Becomes DEF Inv, keeps
<1>3. logs' = logs /\ first_uncommiteds' = first_uncommiteds
  BY <1>2, Unmoved DEF keeps
<1>4. UNCHANGED <<elected, valid, term_hist>>
  BY <1>1, KeptHistory DEF keeps, does
<1> QED
  BY <1>1, <1>2, <1>3, <1>4 DEF R!log_vars, R!commit_vars

\* n moves to a term, and the timer starts again.
LEMMA MovingStep ==
  ASSUME Inv, NEW n \in Node, NEW t, NEW V, NEW z, keeps(server[n], z), NEW out,
         step(n, does(z, out)), z.term = t, ~z.is_leader, z.voters = V,
         all_repliers(z) = R!no_repliers, z.quiet_for = 0
  PROVE  /\ TypeOK' /\ R!move_to_term(n, t, V) /\ sent' = sent \cup out
         /\ UNCHANGED <<R!log_vars, R!commit_vars>>
<1>1. /\ TypeOK' /\ becomes(n, z) /\ sent' = sent \cup out
      /\ UNCHANGED <<R!log_vars, R!commit_vars, elected>>
  BY KeepingStep
<1>2. z.is_leader = FALSE
  BY DEF keeps, State
<1> QED
  BY <1>1, <1>2 DEF becomes, R!move_to_term

LEMMA MovedAfresh ==
  ASSUME NEW s \in State, NEW t \in Nat, NEW z, z = delay_leader_election(move_to_term(s, t))
  PROVE  /\ keeps(s, z) /\ z.term = t /\ ~z.is_leader /\ z.voters = {}
         /\ all_repliers(z) = R!no_repliers /\ z.quiet_for = 0
<1>1. PICK x : x = move_to_term(s, t)
  OBVIOUS
<1>2. /\ x \in State /\ x.term = t /\ ~x.is_leader /\ x.voters = {}
      /\ all_repliers(x) = R!no_repliers
      /\ x.hist = s.hist /\ first_uncommited(x) = first_uncommited(s)
  BY <1>1, Moved
<1>3. z = delay_leader_election(x)
  BY <1>1
<1>4. /\ z \in State /\ z.quiet_for = 0 /\ z.term = x.term /\ z.is_leader = x.is_leader
      /\ z.voters = x.voters /\ all_repliers(z) = all_repliers(x) /\ z.hist = x.hist
      /\ first_uncommited(z) = first_uncommited(x)
  BY <1>2, <1>3, Delayed
<1> QED
  BY <1>2, <1>4 DEF keeps

\* A step that changes nothing.
LEMMA IdleStep ==
  ASSUME Inv, NEW n \in Node, step(n, nothing(server[n]))
  PROVE  TypeOK' /\ UNCHANGED R!vars
<1>1. server[n] \in State
  BY DEF Inv, TypeOK
<1>2. keeps(server[n], server[n])
  BY <1>1 DEF keeps
<1>3. step(n, does(server[n], {}))
  BY DEF nothing
<1>4. /\ TypeOK' /\ becomes(n, server[n]) /\ sent' = sent \cup {}
      /\ UNCHANGED <<R!log_vars, R!commit_vars, elected>>
  BY <1>2, <1>3, KeepingStep
<1> QED
  BY <1>4, Unmoved DEF R!vars, R!term_vars, R!log_vars

\* The fields of messages are numbers and nodes.
LEMMA MessageNumbers ==
  ASSUME NEW m \in R!Message
  PROVE  /\ m.term \in Nat
         /\ m.kind \in {"rqvote", "enappeneded", "nack", "appentry"} => m.ix \in Nat
         /\ m.kind \in {"rqvote", "rqvotenolog", "vtcandidate"} => m.cand \in Node
         /\ m.kind \in {"vtcandidate", "enappeneded", "nack", "appentry"} => m.node \in Node
         /\ m.kind \in {"rqvote", "appentry"} => m.logt \in Nat
  BY R!MessageType, RaftData, SameNodes DEF R!Message

LEMMA KeepaliveStep ==
  ASSUME Inv, NEW n \in Node, NEW m \in R!Message, m.kind = "keepalive",
         step(n, handle_keepalive(n, server[n], m))
  PROVE  TypeOK' /\ (R!handle_keepalive(n, m) \/ UNCHANGED R!vars)
<1>1. PICK s : s = server[n]
  OBVIOUS
<1>2. s \in State /\ m.term \in Nat /\ s.term \in Nat
  BY <1>1, MessageNumbers DEF Inv, TypeOK, State
<1>3. CASE s.term < m.term
  <2>1. PICK z : z = delay_leader_election(move_to_term(s, m.term))
    OBVIOUS
  <2>2. /\ keeps(s, z) /\ z.term = m.term /\ ~z.is_leader /\ z.voters = {}
        /\ all_repliers(z) = R!no_repliers /\ z.quiet_for = 0
    BY <1>2, <2>1, MovedAfresh
  <2>3. step(n, does(z, {}))
    BY <1>1, <1>2, <1>3, <2>1, Moved DEF handle_keepalive, nothing
  <2>4. /\ TypeOK' /\ R!move_to_term(n, m.term, {}) /\ sent' = sent
        /\ UNCHANGED <<R!log_vars, R!commit_vars>>
    BY <1>1, <2>2, <2>3, MovingStep
  <2> QED
    BY <1>1, <1>3, <2>4, Mapped DEF R!handle_keepalive
<1>4. CASE s.term = m.term
  <2>1. PICK z : z = delay_leader_election(s)
    OBVIOUS
  <2>2. /\ keeps(s, z) /\ z.term = s.term /\ z.is_leader = s.is_leader
        /\ z.voters = s.voters /\ all_repliers(z) = all_repliers(s) /\ z.quiet_for = 0
    BY <1>2, <2>1, Delayed DEF keeps
  <2>3. step(n, does(z, {}))
    BY <1>1, <1>2, <1>4, <2>1 DEF handle_keepalive, nothing
  <2>4. /\ TypeOK' /\ becomes(n, z) /\ sent' = sent
        /\ UNCHANGED <<R!log_vars, R!commit_vars, elected>>
    BY <1>1, <2>2, <2>3, KeepingStep
  <2>5. UNCHANGED <<R!term_vars, repliers>> /\ silences' = [silences EXCEPT ![n] = 0]
    BY <1>1, <2>2, <2>4, Unmoved DEF R!term_vars, becomes
  <2> QED
    BY <1>1, <1>4, <2>4, <2>5, Mapped DEF R!handle_keepalive
<1>5. CASE m.term < s.term
  <2>1. step(n, nothing(server[n]))
    BY <1>1, <1>2, <1>5 DEF handle_keepalive
  <2> QED
    BY <2>1, IdleStep
<1> QED
  BY <1>2, <1>3, <1>4, <1>5

\* What a candidate says of its log is the same.
LEMMA RequestSent ==
  ASSUME Inv, NEW n \in Node, NEW t
  PROVE  LET s == server[n]
             ix == get_last_ix(s.hist)
         IN  (IF filled(s.hist, 0)
              THEN send_rqst_vote_msg(n, get_logt(s.hist, ix), ix, t)
              ELSE send_rqst_vote_m_nolog(n, t)) = R!broadcast(R!request(n, t))
  BY Mapped, SameNodes
     DEF R!request, R!broadcast, broadcast, filled, R!filled, get_last_ix, get_next_ix,
         R!get_next_ix, get_logt, R!get_logt, send_rqst_vote_msg, send_rqst_vote_m_nolog,
         R!rqvote, R!rqvotenolog

LEMMA VoteSent ==
  ASSUME NEW n, NEW t, NEW c
  PROVE  send_vote_cand_msg(n, t, c) = R!unicast(R!vtcandidate(n, t, c), c)
  BY DEF send_vote_cand_msg, unicast, R!unicast, R!vtcandidate

LEMMA TimerStep ==
  ASSUME Inv, NEW n \in Node, second(n)
  PROVE  TypeOK' /\ R!timer(n)
<1>1. PICK s : s = server[n]
  OBVIOUS
<1>2. s \in State /\ s.term \in Nat /\ n \in Nat
  <2>1. s \in State
    BY <1>1 DEF Inv, TypeOK
  <2>2. n \in Nat
    BY DEF Node
  <2> QED
    BY <2>1, <2>2, RaftData DEF State
<1>3. PICK y : y = increase_time(s)
  OBVIOUS
<1>4. /\ y \in State /\ y.is_leader = s.is_leader /\ y.voters = s.voters
      /\ y.quiet_for = s.quiet_for + 1 /\ y.term = s.term
      /\ all_repliers(y) = all_repliers(s) /\ y.hist = s.hist
      /\ first_uncommited(y) = first_uncommited(s)
  BY <1>2, <1>3, Later
<1>5. CASE s.is_leader
  <2>1. step(n, does(s, send_keepalive(s.term)))
    BY <1>1, <1>5 DEF second, sec_timeout
  <2>2. keeps(s, s)
    BY <1>2 DEF keeps
  <2>3. /\ TypeOK' /\ becomes(n, s) /\ sent' = sent \cup send_keepalive(s.term)
        /\ UNCHANGED <<R!log_vars, R!commit_vars, elected>>
    BY <1>1, <2>1, <2>2, KeepingStep
  <2>4. send_keepalive(s.term) = R!broadcast(R!keepalive(terms[n]))
    BY <1>1, Mapped, SameNodes DEF send_keepalive, broadcast, R!broadcast, R!keepalive
  <2>5. UNCHANGED <<R!term_vars, repliers, silences>>
    BY <1>1, <2>3, Unmoved DEF R!term_vars
  <2> QED
    BY <1>1, <1>5, <2>3, <2>4, <2>5, Mapped DEF R!timer
<1>6. CASE ~s.is_leader /\ ~is_leader_too_quiet(y)
  <2>1. step(n, does(y, {}))
    BY <1>1, <1>3, <1>6 DEF second, sec_timeout, nothing
  <2>2. keeps(s, y)
    BY <1>4 DEF keeps
  <2>3. /\ TypeOK' /\ becomes(n, y) /\ sent' = sent \cup {}
        /\ UNCHANGED <<R!log_vars, R!commit_vars, elected>>
    BY <1>1, <2>1, <2>2, KeepingStep
  <2>4. silences' = [silences EXCEPT ![n] = @ + 1] /\ UNCHANGED <<R!term_vars, repliers>>
    BY <1>1, <1>4, <2>3, Unmoved, Mapped DEF R!term_vars, becomes
  <2>5. ~R!is_leader_too_quiet(silences[n] + 1)
    BY <1>1, <1>4, <1>6, Mapped DEF is_leader_too_quiet, R!is_leader_too_quiet
  <2> QED
    BY <1>1, <1>6, <2>3, <2>4, <2>5, Mapped DEF R!timer
<1>7. CASE ~s.is_leader /\ is_leader_too_quiet(y)
  <2>1. PICK t : t = s.term + 1 + n
    OBVIOUS
  <2>2. t \in Nat
    BY <1>2, <2>1
  <2>3. PICK x, z : x = move_to_term(y, t) /\ z = delay_leader_election(add_vote(x, n))
    OBVIOUS
  <2>4. /\ x \in State /\ x.term = t /\ ~x.is_leader /\ x.voters = {}
        /\ all_repliers(x) = R!no_repliers
        /\ x.hist = y.hist /\ first_uncommited(x) = first_uncommited(y)
    BY <1>4, <2>2, <2>3, Moved
  <2>5. /\ keeps(s, z) /\ z.term = t /\ ~z.is_leader /\ z.voters = {n}
        /\ all_repliers(z) = R!no_repliers /\ z.quiet_for = 0
    BY <1>4, <2>3, <2>4, Voted, Delayed DEF keeps
  <2>6. PICK out : out = send_vote_cand_msg(n, t, n) \cup R!broadcast(R!request(n, t))
    OBVIOUS
  <2>7. step(n, does(z, out)) /\ t <= MaxTerm
    <3>1. z = delay_leader_election(add_vote(increase_term_by_nodeid(n, y), n))
      BY <1>4, <2>1, <2>3 DEF increase_term_by_nodeid
    <3>2. R!broadcast(R!request(n, t)) =
            IF filled(y.hist, 0)
            THEN send_rqst_vote_msg(n, get_logt(y.hist, get_last_ix(y.hist)),
                                    get_last_ix(y.hist), z.term)
            ELSE send_rqst_vote_m_nolog(n, z.term)
      BY <1>1, <1>4, <2>5, RequestSent
    <3>3. announce_candidacy(n, y) = does(z, out)
      BY <2>5, <2>6, <3>1, <3>2 DEF announce_candidacy
    <3>4. step(n, does(z, out))
      BY <1>1, <1>3, <1>7, <3>3 DEF second, sec_timeout
    <3> QED
      BY <3>4, <2>5 DEF step, does
  <2>8. /\ TypeOK' /\ R!move_to_term(n, t, {n}) /\ sent' = sent \cup out
        /\ UNCHANGED <<R!log_vars, R!commit_vars>>
    BY <1>1, <2>5, <2>7, MovingStep
  <2>9. t \in Term /\ t = terms[n] + 1 + n
    BY <1>1, <2>1, <2>2, <2>7, BoundsAssumption, Mapped DEF Term
  <2>10. R!announce_candidacy(n)
    BY <2>6, <2>8, <2>9, VoteSent DEF R!announce_candidacy
  <2>11. R!is_leader_too_quiet(silences[n] + 1)
    BY <1>1, <1>4, <1>7, Mapped DEF is_leader_too_quiet, R!is_leader_too_quiet
  <2> QED
    BY <1>1, <1>7, <2>8, <2>10, <2>11, Mapped DEF R!timer
<1> QED
  BY <1>5, <1>6, <1>7

\* A vote: n moves to the term of the request unless it was there.
LEMMA VotedStep ==
  ASSUME Inv, NEW n \in Node, NEW m \in R!Message,
         m.kind \in {"rqvote", "rqvotenolog"}, step(n, voted(n, server[n], m))
  PROVE  /\ TypeOK'
         /\ \/ /\ R!has_not_voted(n, m)
               /\ sent' = sent \cup R!unicast(R!vtcandidate(n, m.term, m.cand), m.cand)
               /\ R!move_to_term(n, m.term, {})
               /\ UNCHANGED <<R!log_vars, R!commit_vars>>
            \/ UNCHANGED R!vars
<1>1. PICK s : s = server[n]
  OBVIOUS
<1>2. s \in State /\ m.term \in Nat /\ s.term \in Nat
  BY <1>1, MessageNumbers DEF Inv, TypeOK, State
<1>3. CASE s.term < m.term
  <2>1. PICK z : z = delay_leader_election(move_to_term(s, m.term))
    OBVIOUS
  <2>2. /\ keeps(s, z) /\ z.term = m.term /\ ~z.is_leader /\ z.voters = {}
        /\ all_repliers(z) = R!no_repliers /\ z.quiet_for = 0
    BY <1>2, <2>1, MovedAfresh
  <2>3. ~term_bigeq(s, m.term)
    BY <1>2, <1>3 DEF term_bigeq
  <2>4. step(n, does(z, send_vote_cand_msg(n, m.term, m.cand)))
    BY <1>1, <2>1, <2>3 DEF voted
  <2>5. /\ TypeOK' /\ R!move_to_term(n, m.term, {})
        /\ sent' = sent \cup send_vote_cand_msg(n, m.term, m.cand)
        /\ UNCHANGED <<R!log_vars, R!commit_vars>>
    BY <1>1, <2>2, <2>4, MovingStep
  <2> QED
    BY <1>1, <1>3, <2>5, VoteSent, Mapped DEF R!has_not_voted
<1>4. CASE m.term <= s.term
  <2>1. step(n, nothing(server[n]))
    BY <1>1, <1>4 DEF voted, term_bigeq
  <2> QED
    BY <2>1, IdleStep
<1> QED
  BY <1>2, <1>3, <1>4

LEMMA RqstVoteStep ==
  ASSUME Inv, NEW n \in Node, NEW m \in R!Message, m.kind = "rqvote",
         step(n, handle_rqst_vote(n, server[n], m))
  PROVE  TypeOK' /\ (R!handle_rqst_vote(n, m) \/ UNCHANGED R!vars)
<1>1. CASE step(n, nothing(server[n]))
  BY <1>1, IdleStep
<1>2. CASE R!log_is_as_good(n, m) /\ step(n, voted(n, server[n], m))
  BY <1>2, VotedStep DEF R!handle_rqst_vote
<1>3. PICK h : h = server[n].hist
  OBVIOUS
<1>4. (filled(h, 0) =>
        ~(m.logt < get_logt(h, get_last_ix(h))
          \/ (get_logt(h, get_last_ix(h)) = m.logt /\ m.ix < get_last_ix(h))))
      => R!log_is_as_good(n, m)
  <2>1. PICK t, i : t = get_logt(h, get_last_ix(h)) /\ i = get_last_ix(h)
    OBVIOUS
  <2>2. R!log_is_as_good(n, m) <=>
          (filled(h, 0) => t < m.logt \/ (t = m.logt /\ i <= m.ix))
    BY <1>3, <2>1, Mapped
       DEF R!log_is_as_good, R!filled, filled, R!get_next_ix, get_next_ix, get_last_ix,
           R!get_logt, get_logt
  <2>3. filled(h, 0) => t \in Nat /\ i \in Nat
    <3>1. h \in Seq(R!Entry)
      BY <1>3 DEF Inv, TypeOK, State
    <3>2. CASE filled(h, 0)
      <4>1. Len(h) \in 1 .. Len(h)
        BY <3>1, <3>2 DEF filled
      <4>2. h[Len(h)] \in R!Entry
        BY <3>1, <4>1
      <4> QED
        <5>1. get_last_ix(h) = Len(h) - 1 /\ Len(h) - 1 + 1 = Len(h) /\ Len(h) - 1 \in Nat
          BY <3>1, <4>1 DEF get_last_ix, get_next_ix
        <5>2. t = h[Len(h)].logt
          BY <2>1, <5>1 DEF get_logt
        <5>3. h[Len(h)].logt \in Nat
          BY <4>2, RaftData DEF R!Entry
        <5> QED
          BY <2>1, <5>1, <5>2, <5>3
    <3> QED
      BY <3>2
  <2>4. m.logt \in Nat /\ m.ix \in Nat
    BY MessageNumbers
  <2> QED
    BY <2>1, <2>2, <2>3, <2>4
<1> QED
  BY <1>1, <1>2, <1>3, <1>4 DEF handle_rqst_vote

LEMMA RqstVoteNologStep ==
  ASSUME Inv, NEW n \in Node, NEW m \in R!Message, m.kind = "rqvotenolog",
         step(n, handle_rqst_vote_nolog(n, server[n], m))
  PROVE  TypeOK' /\ (R!handle_rqst_vote_nolog(n, m) \/ UNCHANGED R!vars)
<1>1. CASE filled(server[n].hist, 0)
  BY <1>1, IdleStep DEF handle_rqst_vote_nolog
<1>2. CASE ~filled(server[n].hist, 0)
  <2>1. step(n, voted(n, server[n], m))
    BY <1>2 DEF handle_rqst_vote_nolog
  <2>2. ~R!filled(logs[n], 0)
    BY <1>2, Mapped DEF filled, R!filled
  <2> QED
    BY <2>1, <2>2, VotedStep DEF R!handle_rqst_vote_nolog
<1> QED
  BY <1>1, <1>2

\* The log of a server is in its term's history when it becomes the leader.
LEMMA VoteCandStep ==
  ASSUME Inv, NEW n \in Node, NEW m \in R!Message, m.kind = "vtcandidate",
         step(n, handle_vote_cand_msg(n, server[n], m))
  PROVE  TypeOK' /\ (R!handle_vote_cand_msg(n, m) \/ UNCHANGED R!vars)
<1>1. PICK s : s = server[n]
  OBVIOUS
<1>2. s \in State /\ m.node \in Node
  BY <1>1, MessageNumbers DEF Inv, TypeOK
<1>3. CASE n # m.cand \/ s.term # m.term \/ s.is_leader
  BY <1>1, <1>3, IdleStep DEF handle_vote_cand_msg
<1>4. CASE n = m.cand /\ s.term = m.term /\ ~s.is_leader
  <2>1. PICK y : y = add_vote(s, m.node)
    OBVIOUS
  <2>2. /\ y \in State /\ y.voters = s.voters \cup {m.node} /\ y.quiet_for = s.quiet_for
        /\ y.term = s.term /\ y.is_leader = s.is_leader
        /\ all_repliers(y) = all_repliers(s) /\ y.hist = s.hist
        /\ first_uncommited(y) = first_uncommited(s)
    BY <1>2, <2>1, Voted
  <2>3. /\ R!majority(y.voters) <=> majority(y.voters)
        /\ n = m.cand /\ terms[n] = m.term /\ ~leaders[n]
        /\ voters[n] \cup {m.node} = y.voters
    BY <1>1, <1>4, <2>2, SameNodes, Mapped
  <2>4. CASE ~majority(y.voters)
    <3>1. step(n, does(y, {})) /\ keeps(s, y)
      BY <1>1, <1>4, <2>1, <2>2, <2>4 DEF handle_vote_cand_msg, nothing, keeps
    <3>2. /\ TypeOK' /\ becomes(n, y) /\ sent' = sent \cup {}
          /\ UNCHANGED <<R!log_vars, R!commit_vars, elected>>
      BY <1>1, <3>1, KeepingStep
    <3>3. UNCHANGED <<terms, leaders, repliers, silences>>
      BY <1>1, <2>2, <3>2, Unmoved
    <3>4. voters' = [voters EXCEPT ![n] = @ \cup {m.node}] /\ voters'[n] = y.voters
      BY <2>3, <3>2 DEF becomes, voters
    <3> QED
      BY <2>3, <2>4, <3>2, <3>3, <3>4 DEF R!handle_vote_cand_msg, R!log_vars
  <2>5. CASE majority(y.voters)
    <3>1. PICK z : z = become_leader(y)
      OBVIOUS
    <3>2. /\ z \in State /\ z.is_leader /\ z.voters = y.voters
          /\ z.quiet_for = s.quiet_for /\ z.term = s.term
          /\ all_repliers(z) = all_repliers(s) /\ z.hist = s.hist
          /\ first_uncommited(z) = first_uncommited(s)
      BY <2>2, <3>1, Led
    <3>3. step(n, does(z, {}))
      BY <1>1, <1>4, <2>1, <2>5, <3>1 DEF handle_vote_cand_msg, nothing
    <3>4. /\ server' = [server EXCEPT ![n] = z] /\ sent' = sent \cup {}
          /\ record(n, s, does(z, {})) /\ UNCHANGED <<reported, by>>
      BY <1>1, <3>3, NoReports
    <3>5. TypeOK' /\ becomes(n, z)
      BY <3>2, <3>4, Becomes DEF Inv
    <3>6. UNCHANGED <<terms, logs, repliers, silences, first_uncommiteds>>
      BY <1>1, <3>2, <3>5, Unmoved
    <3>7. /\ voters' = [voters EXCEPT ![n] = @ \cup {m.node}] /\ voters'[n] = y.voters
          /\ leaders' = [leaders EXCEPT ![n] = TRUE]
      <4>1. z.is_leader = TRUE
        BY <3>2 DEF State
      <4> QED
        BY <2>3, <3>2, <3>5, <4>1 DEF becomes, voters
    <3>8. /\ elected' = elected \cup {<<m.term, n, y.voters>>}
          /\ term_hist' = [term_hist EXCEPT ![m.term] = logs[n]]
          /\ valid' = valid \cup {s.hist}
      BY <1>1, <1>4, <3>2, <3>4, Mapped DEF record, does
    <3>9. valid' = valid
      <4>1. s.hist \in valid
        BY <1>1, Mapped, SameNodes DEF Inv, R!LogInv, R!LogsAreKept, R!Histories, R!LogsAreValid
      <4> QED
        BY <3>8, <4>1
    <3> QED
      BY <2>3, <2>5, <3>4, <3>5, <3>6, <3>7, <3>8, <3>9
         DEF R!handle_vote_cand_msg, R!commit_vars
  <2> QED
    BY <2>4, <2>5
<1> QED
  BY <1>3, <1>4
-----------------------------------------------------------------------------
(***************************************************************************)
(* Replication.                                                            *)
(***************************************************************************)

\* Both read logs alike.
LEMMA SameLogs ==
  /\ \A h, ix : filled(h, ix) <=> R!filled(h, ix)
  /\ \A h, ix, t : logtix(h, ix, t) <=> R!logtix(h, ix, t)
  /\ \A h, ix : get_logt(h, ix) = R!get_logt(h, ix) /\ valix(h, ix) = R!valix(h, ix)
  BY DEF filled, R!filled, logtix, R!logtix, get_logt, R!get_logt, valix, R!valix

\* An entry behind all others is appended; one with a hole before it never comes.
LEMMA SameAppend ==
  ASSUME NEW h \in Seq(R!Entry), NEW t \in Term, NEW v \in Value
  PROVE  append(h, Len(h), t, v) = R!append(h, t, v)
<1>1. PICK e \in R!Entry : e = [logt |-> t, val |-> v]
  BY DEF R!Entry
<1>2. append(h, Len(h), t, v) = [k \in 1 .. Len(h) + 1 |-> IF k <= Len(h) THEN h[k] ELSE e]
  BY <1>1 DEF append
<1>3. Append(h, e) = [k \in 1 .. Len(h) + 1 |-> IF k <= Len(h) THEN h[k] ELSE e]
  <2>1. Append(h, e) \in Seq(R!Entry) /\ Len(Append(h, e)) = Len(h) + 1 /\ Len(h) \in Nat
    OBVIOUS
  <2>2. Append(h, e) = [k \in 1 .. Len(h) + 1 |-> Append(h, e)[k]]
    <3>1. \A o \in Seq(R!Entry) : o = [k \in 1 .. Len(o) |-> o[k]]
      OBVIOUS
    <3> QED
      BY <2>1, <3>1
  <2>3. \A k \in 1 .. Len(h) + 1 : Append(h, e)[k] = IF k <= Len(h) THEN h[k] ELSE e
    BY <2>1
  <2> QED
    BY <2>2, <2>3
<1> QED
  BY <1>1, <1>2, <1>3 DEF R!append

\* The log of a server is one of RaftProofs.
LEMMA LogType ==
  ASSUME Inv, NEW n \in Node
  PROVE  /\ server[n] \in State /\ server[n].hist \in R!History
         /\ server[n].hist \in Seq(R!Entry) /\ Len(server[n].hist) \in Nat
<1>1. server[n] \in State
  BY DEF Inv, TypeOK
<1>2. server[n].hist \in R!History
  BY Mapped, SameNodes DEF Inv, R!LogInv, R!TypeOK
<1> QED
  BY <1>1, <1>2 DEF State, R!History

\* What is stored is what was cut at the index and the new entry.
LEMMA StoredLog ==
  ASSUME Inv, NEW n \in Node, NEW m \in R!Message, m.kind = "appentry",
         has_previous(server[n], m)
  PROVE  LET h == server[n].hist
             before == IF m.ix = 0 THEN clear ELSE strip(h, m.ix - 1)
             stored == append(before, m.ix, m.logt, m.val)
         IN  /\ stored = R!append(R!strip_from(h, m.ix), m.logt, m.val)
             /\ stored \in Seq(R!Entry)
<1>1. PICK h : h = server[n].hist
  OBVIOUS
<1>2. h \in R!History /\ h \in Seq(R!Entry) /\ Len(h) \in Nat
  BY <1>1, LogType
<1>3. m.ix \in Index /\ m.ix \in Nat /\ m.logt \in Term /\ m.val \in Value
  BY R!MessageType, RaftData
<1>4. m.ix <= Len(h)
  BY <1>1, <1>2, <1>3 DEF has_previous, logtix, filled
<1>5. R!strip_from(h, m.ix) \in R!History /\ Len(R!strip_from(h, m.ix)) = m.ix
  BY <1>2, <1>3, <1>4, R!StripType, RaftData
<1>6. (IF m.ix = 0 THEN clear ELSE strip(h, m.ix - 1)) = R!strip_from(h, m.ix)
  <2>1. CASE m.ix = 0
    <3>1. SubSeq(h, 1, 0) = <<>>
      BY <1>2
    <3> QED
      BY <2>1, <3>1 DEF clear, R!strip_from
  <2>2. CASE m.ix # 0
    <3>1. m.ix - 1 + 1 = m.ix
      BY <1>3
    <3> QED
      BY <2>2, <3>1 DEF strip, R!strip_from
  <2> QED
    BY <2>1, <2>2
<1>7. R!strip_from(h, m.ix) \in Seq(R!Entry)
  BY <1>5 DEF R!History
<1>8. append(R!strip_from(h, m.ix), m.ix, m.logt, m.val)
        = R!append(R!strip_from(h, m.ix), m.logt, m.val)
  BY <1>3, <1>5, <1>7, SameAppend
<1>9. R!append(R!strip_from(h, m.ix), m.logt, m.val) \in Seq(R!Entry)
  BY <1>3, <1>7 DEF R!append, R!Entry
<1> QED
  BY <1>1, <1>6, <1>8, <1>9

\* The server takes the entry, has it, or misses the one before it; in the build
\* raft2 a server that misses it says so and does nothing else.
LEMMA AppendEntriesStep ==
  ASSUME Inv, NEW n \in Node, NEW m \in R!Message, m.kind = "appentry",
         step(n, handle_append_entries(n, server[n], m))
  PROVE  TypeOK' /\ (R!handle_append_entries(n, m) \/ R!refuse(n, m) \/ UNCHANGED R!vars)
<1>1. PICK s : s = server[n]
  OBVIOUS
<1>2. /\ s \in State /\ s.term \in Nat /\ m.term \in Nat /\ m.ix \in Nat /\ m.node \in Node
  BY <1>1, MessageNumbers DEF Inv, TypeOK, State
<1>3. CASE stale(s, m)
  BY <1>1, <1>3, IdleStep DEF handle_append_entries
<1>4. ASSUME ~stale(s, m) PROVE R!accepts(n, m) /\ ~s.is_leader
  BY <1>1, <1>2, <1>4, Mapped DEF stale, R!accepts
<1>5. R!has_previous(n, m) <=> has_previous(s, m)
  BY <1>1, Mapped, SameLogs DEF R!has_previous, has_previous
<1>6. PICK z : z = delay_leader_election(move_to_term(s, m.term))
  OBVIOUS
<1>7. /\ keeps(s, z) /\ z.term = m.term /\ ~z.is_leader /\ z.voters = {}
      /\ all_repliers(z) = R!no_repliers /\ z.quiet_for = 0
  BY <1>2, <1>6, MovedAfresh
<1>8. CASE ~stale(s, m) /\ ~has_previous(s, m)
  <2>1. PICK out : out = send_nack(n, m.node, m.term, m.ix - 1)
    OBVIOUS
  <2>2. out = R!unicast(R!nack(m.term, n, m.ix - 1), m.node)
    BY <2>1 DEF send_nack, unicast, R!unicast, R!nack
  <2>3. step(n, does(after_nack(s, m.term), out))
    BY <1>1, <1>8, <2>1 DEF handle_append_entries
  <2>4. CASE build = "raft"
    <3>1. step(n, does(z, out))
      BY <1>6, <2>3, <2>4 DEF after_nack
    <3>2. /\ TypeOK' /\ R!move_to_term(n, m.term, {}) /\ sent' = sent \cup out
          /\ UNCHANGED <<R!log_vars, R!commit_vars>>
      BY <1>1, <1>7, <3>1, MovingStep
    <3> QED
      BY <1>4, <1>5, <1>8, <2>2, <3>2 DEF R!handle_append_entries, R!reject
  <2>5. CASE build # "raft"
    <3>1. step(n, does(s, out)) /\ keeps(s, s)
      BY <1>2, <2>3, <2>5 DEF after_nack, keeps
    <3>2. /\ TypeOK' /\ becomes(n, s) /\ sent' = sent \cup out
          /\ UNCHANGED <<R!log_vars, R!commit_vars, elected>>
      BY <1>1, <3>1, KeepingStep
    <3>3. UNCHANGED <<R!term_vars, repliers, silences>>
      BY <1>1, <3>2, Unmoved DEF R!term_vars
    <3> QED
      BY <1>4, <1>5, <1>8, <2>2, <3>2, <3>3 DEF R!refuse, R!reject
  <2> QED
    BY <2>4, <2>5
<1>9. CASE ~stale(s, m) /\ has_previous(s, m) /\ logtix(s.hist, m.ix, m.logt)
  <2>1. step(n, does(z, {}))
    BY <1>1, <1>6, <1>9 DEF handle_append_entries, nothing
  <2>2. /\ TypeOK' /\ R!move_to_term(n, m.term, {}) /\ sent' = sent \cup {}
        /\ UNCHANGED <<R!log_vars, R!commit_vars>>
    BY <1>1, <1>7, <2>1, MovingStep
  <2>3. R!logtix(logs[n], m.ix, m.logt)
    BY <1>1, <1>9, Mapped, SameLogs
  <2> QED
    BY <1>4, <1>5, <1>9, <2>2, <2>3 DEF R!handle_append_entries, R!ignore
<1>10. CASE ~stale(s, m) /\ has_previous(s, m) /\ ~logtix(s.hist, m.ix, m.logt)
  <2>1. PICK h : h = append(IF m.ix = 0 THEN clear ELSE strip(s.hist, m.ix - 1),
                            m.ix, m.logt, m.val)
    OBVIOUS
  <2>2. h \in Seq(R!Entry) /\ h = R!append(R!strip_from(logs[n], m.ix), m.logt, m.val)
    BY <1>1, <1>10, <2>1, StoredLog, Mapped
  <2>3. PICK x : x = [z EXCEPT !.hist = h]
    OBVIOUS
  <2>4. /\ x \in State /\ x.hist = h /\ x.term = m.term /\ x.is_leader = FALSE
        /\ x.voters = {} /\ x.quiet_for = 0
    BY <1>7, <2>2, <2>3 DEF keeps, State
  <2>5. all_repliers(x) = R!no_repliers /\ first_uncommited(x) = first_uncommited(s)
    <3>1. /\ x.repliers = z.repliers /\ x.has_commits = z.has_commits
          /\ x.last_commited_ix = z.last_commited_ix
      BY <1>7, <2>3 DEF keeps, State
    <3> QED
      BY <1>7, <3>1 DEF keeps, all_repliers, get_repliers, first_uncommited
  <2>6. PICK out : out = send_appended_reply_msg(m.node, m.term, n, m.ix, m.isrecover)
    OBVIOUS
  <2>7. out = R!unicast(R!enappeneded(m.term, n, m.ix, m.isrecover), m.node)
    BY <2>6 DEF send_appended_reply_msg, unicast, R!unicast, R!enappeneded
  <2>8. step(n, does(x, out))
    BY <1>1, <1>6, <1>10, <2>1, <2>3, <2>6 DEF handle_append_entries
  <2>9. /\ server' = [server EXCEPT ![n] = x] /\ sent' = sent \cup out
        /\ record(n, s, does(x, out)) /\ UNCHANGED <<reported, by>>
    BY <1>1, <2>8, NoReports
  <2>10. TypeOK' /\ becomes(n, x)
    BY <2>4, <2>9, Becomes DEF Inv
  <2>11. elected' = elected /\ term_hist' = term_hist /\ valid' = valid \cup {h}
    BY <2>4, <2>9 DEF record, does
  <2>12. first_uncommiteds' = first_uncommiteds
    BY <1>1, <2>5, <2>10, Unmoved
  <2>13. R!move_to_term(n, m.term, {}) /\ logs' = [logs EXCEPT ![n] = h]
    BY <2>4, <2>5, <2>10, <2>11 DEF becomes, R!move_to_term
  <2>14. ~R!logtix(logs[n], m.ix, m.logt)
    BY <1>1, <1>10, Mapped, SameLogs
  <2>15. R!store(n, m)
    BY <1>5, <1>10, <2>2, <2>7, <2>9, <2>11, <2>13, <2>14 DEF R!store
  <2> QED
    BY <1>4, <1>10, <2>9, <2>10, <2>12, <2>13, <2>15 DEF R!handle_append_entries, R!commit_vars
<1> QED
  BY <1>3, <1>8, <1>9, <1>10

\* An entry of the log is sent to one server or to all.
one_or_all(n, s, ix, r, p) ==
    \/ req_replicate_entry_from_log(n, s, ix, r, p)
         = {R!appentry(n, s.term, s.hist, ix, r)} \X {p}
    \/ req_replicate_entry_from_log(n, s, ix, r, p)
         = {R!appentry(n, s.term, s.hist, ix, r)} \X Node

LEMMA EntrySent ==
  ASSUME NEW n, NEW s, NEW ix, NEW r, NEW p, s.is_leader, filled(s.hist, ix)
  PROVE  one_or_all(n, s, ix, r, p)
<1>1. PICK e : e = R!appentry(n, s.term, s.hist, ix, r)
  OBVIOUS
<1>2. e = [kind |-> "appentry", term |-> s.term, val |-> valix(s.hist, ix),
           logt |-> get_logt(s.hist, ix), node |-> n, ix |-> ix,
           prevlogt |-> IF ix = 0 THEN 0 ELSE get_logt(s.hist, ix - 1), isrecover |-> r]
  BY <1>1, SameLogs DEF R!appentry
<1>3. req_replicate_entry_from_log(n, s, ix, r, p) = destinations(e, p)
  BY <1>2 DEF req_replicate_entry_from_log, msg_append_send
<1>4. destinations(e, p) = {<<e, p>>} \/ destinations(e, p) = {e} \X Node
  BY DEF destinations, unicast, broadcast
<1> QED
  BY <1>1, <1>3, <1>4 DEF one_or_all

sent_somewhere(n, s, ix, r, p) ==
    \E to \in SUBSET Node :
        req_replicate_entry_from_log(n, s, ix, r, p)
          = {R!appentry(n, s.term, s.hist, ix, r)} \X to

LEMMA SentSomewhere ==
  ASSUME NEW n, NEW s, NEW ix, NEW r, NEW p \in Node, s.is_leader, filled(s.hist, ix)
  PROVE  sent_somewhere(n, s, ix, r, p)
<1>1. PICK e, out : /\ e = R!appentry(n, s.term, s.hist, ix, r)
                    /\ out = req_replicate_entry_from_log(n, s, ix, r, p)
  OBVIOUS
<1>2. out = {e} \X {p} \/ out = {e} \X Node
  BY <1>1, EntrySent DEF one_or_all
<1>3. {p} \in SUBSET Node /\ Node \in SUBSET Node
  OBVIOUS
<1>4. \E to \in SUBSET Node : out = {e} \X to
  BY <1>2, <1>3
<1> QED
  BY <1>1, <1>4 DEF sent_somewhere

LEMMA NackStep ==
  ASSUME Inv, NEW n \in Node, NEW m \in R!Message, m.kind = "nack",
         step(n, handle_nack(n, server[n], m))
  PROVE  TypeOK' /\ ((\E to \in SUBSET Node : R!handle_nack(n, m, to)) \/ UNCHANGED R!vars)
<1>1. PICK s : s = server[n]
  OBVIOUS
<1>2. s \in State /\ m.node \in Node
  BY <1>1, MessageNumbers DEF Inv, TypeOK
<1>3. CASE ~(s.term = m.term /\ s.is_leader /\ filled(s.hist, m.ix))
  <2>1. step(n, nothing(server[n]))
    BY <1>1, <1>3 DEF handle_nack, req_replicate_entry_from_log, nothing
  <2> QED
    BY <2>1, IdleStep
<1>4. CASE s.term = m.term /\ s.is_leader /\ filled(s.hist, m.ix)
  <2>1. PICK out : out = req_replicate_entry_from_log(n, s, m.ix, TRUE, m.node)
    OBVIOUS
  <2>2. step(n, does(s, out)) /\ keeps(s, s)
    BY <1>1, <1>2, <1>4, <2>1 DEF handle_nack, keeps
  <2>3. /\ TypeOK' /\ becomes(n, s) /\ sent' = sent \cup out
        /\ UNCHANGED <<R!log_vars, R!commit_vars, elected>>
    BY <1>1, <2>2, KeepingStep
  <2>4. UNCHANGED <<R!term_vars, repliers, silences>>
    BY <1>1, <2>3, Unmoved DEF R!term_vars
  <2>5. PICK to \in SUBSET Node : out = {R!appentry(n, s.term, s.hist, m.ix, TRUE)} \X to
    <3>1. sent_somewhere(n, s, m.ix, TRUE, m.node)
      BY <1>2, <1>4, SentSomewhere
    <3> QED
      BY <2>1, <3>1 DEF sent_somewhere
  <2>6. R!recover(n, m.ix, to)
    BY <1>1, <2>3, <2>5, Mapped DEF R!recover
  <2>7. R!handle_nack(n, m, to)
    BY <1>1, <1>4, <2>3, <2>4, <2>6, Mapped, SameLogs DEF R!handle_nack
  <2> QED
    BY <2>3, <2>7
<1> QED
  BY <1>3, <1>4

\* The array of repliers as a function.
LEMMA Replied ==
  ASSUME NEW s \in State, NEW ix \in Index, NEW p \in Node
  PROVE  LET z == add_replier(s, ix, p)
         IN  /\ z \in State
             /\ all_repliers(z) = [all_repliers(s) EXCEPT ![ix] = @ \cup {p}]
             /\ z.hist = s.hist /\ z.term = s.term /\ z.voters = s.voters
             /\ z.is_leader = s.is_leader /\ z.quiet_for = s.quiet_for
             /\ z.has_commits = s.has_commits /\ z.last_commited_ix = s.last_commited_ix
<1>1. PICK z : z = add_replier(s, ix, p)
  OBVIOUS
<1>2. PICK end : end = IF Len(s.repliers) <= ix THEN ix + 1 ELSE Len(s.repliers)
  OBVIOUS
<1>3. PICK q : q = [k \in 1 .. end |->
                      get_repliers(s, k - 1) \cup (IF k = ix + 1 THEN {p} ELSE {})]
  OBVIOUS
<1>4. z = [s EXCEPT !.repliers = q]
  BY <1>1, <1>2, <1>3 DEF add_replier
<1>5. s.repliers \in Seq(SUBSET Node) /\ Len(s.repliers) \in Nat /\ ix \in Nat /\ end \in Nat
  BY <1>2, RaftData DEF State
<1>6. \A i \in Nat : get_repliers(s, i) \in SUBSET Node
  <2>1. ASSUME NEW i \in Nat, i < Len(s.repliers) PROVE s.repliers[i + 1] \in SUBSET Node
    BY <1>5, <2>1
  <2> QED
    BY <2>1 DEF get_repliers
<1>7. q \in Seq(SUBSET Node) /\ Len(q) = end
  <2>1. \A k \in 1 .. end :
          get_repliers(s, k - 1) \cup (IF k = ix + 1 THEN {p} ELSE {}) \in SUBSET Node
    BY <1>5, <1>6
  <2>2. q \in [1 .. end -> SUBSET Node]
    BY <1>3, <2>1
  <2> QED
    BY <1>5, <2>2
<1>8. /\ z \in State /\ z.repliers = q
      /\ z.hist = s.hist /\ z.term = s.term /\ z.voters = s.voters
      /\ z.is_leader = s.is_leader /\ z.quiet_for = s.quiet_for
      /\ z.has_commits = s.has_commits /\ z.last_commited_ix = s.last_commited_ix
  BY <1>4, <1>7 DEF State
<1>9. \A k \in 1 .. end : q[k] = get_repliers(s, k - 1) \cup (IF k = ix + 1 THEN {p} ELSE {})
  BY <1>3
<1>10. ASSUME NEW i \in Index
       PROVE  get_repliers(z, i)
                = IF i = ix THEN get_repliers(s, i) \cup {p} ELSE get_repliers(s, i)
  <2>1. i \in Nat
    BY RaftData
  <2>2. CASE i < end
    <3>1. PICK j : j = i + 1
      OBVIOUS
    <3>2. j \in 1 .. end /\ j - 1 = i /\ (j = ix + 1 <=> i = ix)
      BY <1>5, <2>1, <2>2, <3>1
    <3>3. q[j] = get_repliers(s, j - 1) \cup (IF j = ix + 1 THEN {p} ELSE {})
      BY <1>9, <3>2
    <3>4. q[j] = get_repliers(s, i) \cup (IF i = ix THEN {p} ELSE {})
      BY <3>2, <3>3
    <3>5. get_repliers(z, i) = q[j]
      BY <1>7, <1>8, <2>2, <3>1 DEF get_repliers
    <3> QED
      BY <3>4, <3>5
  <2>3. CASE ~(i < end)
    <3>1. i # ix /\ ~(i < Len(s.repliers))
      BY <1>2, <1>5, <2>1, <2>3
    <3> QED
      BY <1>7, <1>8, <2>3, <3>1 DEF get_repliers
  <2> QED
    BY <2>2, <2>3
<1>11. all_repliers(z) = [all_repliers(s) EXCEPT ![ix] = @ \cup {p}]
  BY <1>10 DEF all_repliers
<1> QED
  BY <1>1, <1>8, <1>11

\* The entry behind one that was recovered is sent when there is one.
recovers(n, ix, isrecover, to, out) ==
    IF isrecover /\ R!filled(logs[n], ix + 1)
    THEN out = {R!appentry(n, terms[n], logs[n], ix + 1, TRUE)} \X to
    ELSE out = {}

LEMMA NextRecovery ==
  ASSUME Inv, NEW n \in Node, NEW m \in R!Message, m.kind = "enappeneded", server[n].is_leader
  PROVE  \E to \in SUBSET Node :
           recovers(n, m.ix, m.isrecover, to, next_recovery(n, server[n], m))
<1>1. PICK s, out : s = server[n] /\ out = next_recovery(n, s, m)
  OBVIOUS
<1>2. s.is_leader /\ Len(s.hist) \in Nat /\ m.ix \in Nat /\ m.node \in Node
  BY <1>1, LogType, MessageNumbers
<1>3. filled(s.hist, 0) /\ m.ix < get_last_ix(s.hist) <=> filled(s.hist, m.ix + 1)
  BY <1>2 DEF filled, get_last_ix, get_next_ix
<1>4. R!filled(logs[n], m.ix + 1) <=> filled(s.hist, m.ix + 1)
  BY <1>1, Mapped, SameLogs
<1>5. CASE m.isrecover /\ filled(s.hist, m.ix + 1)
  <2>1. out = req_replicate_entry_from_log(n, s, m.ix + 1, TRUE, m.node)
    BY <1>1, <1>2, <1>3, <1>5 DEF next_recovery
  <2>2. sent_somewhere(n, s, m.ix + 1, TRUE, m.node)
    BY <1>2, <1>5, SentSomewhere
  <2>3. PICK to \in SUBSET Node : out = {R!appentry(n, s.term, s.hist, m.ix + 1, TRUE)} \X to
    BY <2>1, <2>2 DEF sent_somewhere
  <2>4. recovers(n, m.ix, m.isrecover, to, out)
    BY <1>1, <1>4, <1>5, <2>3, Mapped DEF recovers
  <2> QED
    BY <1>1, <2>4
<1>6. CASE ~(m.isrecover /\ filled(s.hist, m.ix + 1))
  <2>1. out = {}
    BY <1>1, <1>3, <1>6 DEF next_recovery
  <2>2. recovers(n, m.ix, m.isrecover, {}, out)
    BY <1>4, <1>6, <2>1 DEF recovers
  <2> QED
    BY <1>1, <2>2
<1> QED
  BY <1>5, <1>6

\* Both count the same acknowledgements.
LEMMA SameCounts ==
  ASSUME Inv, NEW n \in Node, NEW m \in R!Message, m.kind = "enappeneded"
  PROVE  /\ counts(server[n], m) <=> server[n].is_leader /\ R!counts(n, m)
         /\ counts(server[n], m) =>
              /\ m.ix \in Index /\ first_uncommited(server[n]) \in Nat
              /\ first_uncommited(server[n]) <= m.ix
<1>1. PICK s : s = server[n]
  OBVIOUS
<1>2. s.has_commits \in BOOLEAN /\ s.last_commited_ix \in Nat /\ m.ix \in Nat
  BY <1>1, MessageNumbers DEF Inv, TypeOK, State
<1>3. m.ix \in Index
  BY R!MessageType, RaftData
<1>4. first_uncommited(s) \in Nat
  BY <1>2 DEF first_uncommited
<1>5. (commited_in(s, 0) => s.last_commited_ix < m.ix) <=> first_uncommited(s) <= m.ix
  BY <1>2 DEF commited_in, first_uncommited
<1>6. R!counts(n, m) <=>
        /\ s.term = m.term /\ logtix(s.hist, m.ix, m.term)
        /\ first_uncommited(s) <= m.ix
  BY <1>1, Mapped, SameLogs DEF R!counts
<1> QED
  BY <1>1, <1>3, <1>4, <1>5, <1>6 DEF counts

\* A server that takes an acknowledgement of the entry at ix.
LEMMA RepliedAt ==
  ASSUME Inv, NEW n \in Node, NEW ix \in Index, NEW p \in Node, NEW z,
         all_repliers(z) = all_repliers(add_replier(server[n], ix, p)), becomes(n, z)
  PROVE  /\ repliers' = [repliers EXCEPT ![n][ix] = @ \cup {p}]
         /\ repliers'[n][ix] = get_repliers(add_replier(server[n], ix, p), ix)
<1>1. PICK s : s = server[n]
  OBVIOUS
<1>2. PICK f : f = all_repliers(add_replier(s, ix, p))
  OBVIOUS
<1>3. f = [all_repliers(s) EXCEPT ![ix] = @ \cup {p}]
  <2>1. s \in State
    BY <1>1, LogType
  <2>2. PICK y : y = add_replier(s, ix, p)
    OBVIOUS
  <2>3. all_repliers(y) = [all_repliers(s) EXCEPT ![ix] = @ \cup {p}]
    BY <2>1, <2>2, Replied
  <2> QED
    BY <1>2, <2>2, <2>3
<1>4. repliers' = [repliers EXCEPT ![n] = f] /\ repliers[n] = all_repliers(s)
  BY <1>1, <1>2, Mapped DEF becomes
<1>5. repliers'[n] = f
  BY <1>4 DEF repliers
<1>6. f[ix] = get_repliers(add_replier(s, ix, p), ix)
  BY <1>2 DEF all_repliers
<1> QED
  BY <1>1, <1>3, <1>4, <1>5, <1>6

\* An acknowledgement that counts, and that makes up a majority, commits all up to
\* the entry.
LEMMA AppendedReplyStep ==
  ASSUME Inv, NEW n \in Node, NEW m \in R!Message, m.kind = "enappeneded",
         step(n, handle_appended_reply_msg(n, server[n], m))
  PROVE  TypeOK' /\ ((\E to \in SUBSET Node : R!handle_appended_reply_msg(n, m, to))
                      \/ UNCHANGED R!vars)
<1>1. PICK s, out : s = server[n] /\ out = next_recovery(n, s, m)
  OBVIOUS
<1>2. s \in State /\ m.node \in Node
  BY <1>1, MessageNumbers DEF Inv, TypeOK
<1>3. CASE ~s.is_leader
  <2>1. ~counts(s, m) /\ out = {}
    BY <1>1, <1>3 DEF counts, next_recovery
  <2>2. step(n, nothing(server[n]))
    BY <1>1, <2>1 DEF handle_appended_reply_msg, nothing
  <2> QED
    BY <2>2, IdleStep
<1>4. CASE s.is_leader
  <2>1. PICK to \in SUBSET Node : recovers(n, m.ix, m.isrecover, to, out)
    BY <1>1, <1>4, NextRecovery
  <2>2. ASSUME sent' = sent \cup out
        PROVE  IF m.isrecover /\ R!filled(logs[n], m.ix + 1)
               THEN R!recover(n, m.ix + 1, to) ELSE UNCHANGED sent
    BY <2>1, <2>2 DEF recovers, R!recover
  <2>3. counts(s, m) <=> R!counts(n, m)
    BY <1>1, <1>4, SameCounts
  <2>4. CASE ~counts(s, m)
    <3>1. step(n, does(s, out)) /\ keeps(s, s)
      BY <1>1, <1>2, <2>4 DEF handle_appended_reply_msg, keeps
    <3>2. /\ TypeOK' /\ becomes(n, s) /\ sent' = sent \cup out
          /\ UNCHANGED <<R!log_vars, R!commit_vars, elected>>
      BY <1>1, <3>1, KeepingStep
    <3>3. UNCHANGED <<R!term_vars, repliers, silences>>
      BY <1>1, <3>2, Unmoved DEF R!term_vars
    <3>4. R!handle_appended_reply_msg(n, m, to)
      BY <1>1, <1>4, <2>2, <2>3, <2>4, <3>2, <3>3, Mapped DEF R!handle_appended_reply_msg
    <3> QED
      BY <3>2, <3>4
  <2>5. CASE counts(s, m)
    <3>1. m.ix \in Index /\ first_uncommited(s) \in Nat /\ first_uncommited(s) <= m.ix
      BY <1>1, <2>5, SameCounts
    <3>2. PICK y : y = add_replier(s, m.ix, m.node)
      OBVIOUS
    <3>3. /\ y \in State /\ y.hist = s.hist /\ y.term = s.term /\ y.voters = s.voters
          /\ y.is_leader = s.is_leader /\ y.quiet_for = s.quiet_for
          /\ y.has_commits = s.has_commits /\ y.last_commited_ix = s.last_commited_ix
      BY <1>2, <3>1, <3>2, Replied
    <3>4. PICK q : q = get_repliers(y, m.ix)
      OBVIOUS
    <3>5. R!majority(q) <=> majority(q)
      BY SameNodes
    <3>6. CASE ~majority(q)
      <4>1. step(n, does(y, out))
        BY <1>1, <2>5, <3>2, <3>4, <3>6 DEF handle_appended_reply_msg
      <4>2. keeps(s, y)
        BY <3>3 DEF keeps, first_uncommited
      <4>3. /\ TypeOK' /\ becomes(n, y) /\ sent' = sent \cup out
            /\ UNCHANGED <<R!log_vars, R!commit_vars, elected>>
        BY <1>1, <4>1, <4>2, KeepingStep
      <4>4. UNCHANGED <<R!term_vars, silences>>
        BY <1>1, <3>3, <4>3, Unmoved DEF R!term_vars
      <4>5. repliers' = [repliers EXCEPT ![n][m.ix] = @ \cup {m.node}] /\ repliers'[n][m.ix] = q
        BY <1>1, <1>2, <3>1, <3>2, <3>4, <4>3, RepliedAt
      <4>6. R!handle_appended_reply_msg(n, m, to)
        BY <1>1, <1>4, <2>2, <2>3, <2>5, <3>5, <3>6, <4>3, <4>4, <4>5, Mapped
           DEF R!handle_appended_reply_msg
      <4> QED
        BY <4>3, <4>6
    <3>7. CASE majority(q)
      <4>1. PICK z : z = set_last_commited_ix(y, m.ix)
        OBVIOUS
      <4>2. /\ z \in State /\ z.hist = s.hist /\ z.term = s.term /\ z.voters = s.voters
            /\ z.is_leader = s.is_leader /\ z.quiet_for = s.quiet_for
            /\ z.last_commited_ix = m.ix /\ first_uncommited(z) = m.ix + 1
            /\ z.repliers = y.repliers
        <5>1. m.ix \in Nat
          BY MessageNumbers
        <5> QED
          BY <3>3, <4>1, <5>1 DEF set_last_commited_ix, State, first_uncommited
      <4>3. all_repliers(z) = all_repliers(y) /\ get_repliers(z, m.ix) = q
        BY <3>4, <4>2 DEF all_repliers, get_repliers
      <4>4. PICK reports : reports = report_commits(s.hist, first_uncommited(s), m.ix)
        OBVIOUS
      <4>5. reports = R!report_commits(n, first_uncommiteds[n], m.ix) /\ reports # <<>>
        <5>1. reports = R!report_commits(n, first_uncommiteds[n], m.ix)
          <6>1. logs[n] = s.hist /\ first_uncommiteds[n] = first_uncommited(s)
            BY <1>1, Mapped
          <6> QED
            BY <4>4, <6>1 DEF report_commits, R!report_commits, valix, R!valix
        <5>2. m.ix + 1 - first_uncommited(s) \in Nat /\ m.ix + 1 - first_uncommited(s) >= 1
          <6>1. m.ix \in Nat
            BY MessageNumbers
          <6> QED
            BY <3>1, <6>1
        <5>3. 1 \in DOMAIN reports
          <6>1. PICK k : k = m.ix + 1 - first_uncommited(s)
            OBVIOUS
          <6>2. k \in Nat /\ 1 \in 1 .. k
            BY <3>1, <5>2, <6>1
          <6>3. DOMAIN reports = 1 .. k
            BY <4>4, <6>1 DEF report_commits
          <6> QED
            BY <6>2, <6>3
        <5> QED
          BY <5>1, <5>3
      <4>6. PICK r : r = [server |-> z, out |-> out, reports |-> reports]
        OBVIOUS
      <4>7. step(n, r)
        <5>1. first_uncommited(s) = IF commited_in(s, 0) THEN s.last_commited_ix + 1 ELSE 0
          BY <1>2 DEF State, first_uncommited, commited_in
        <5> QED
          BY <1>1, <2>5, <3>2, <3>4, <3>7, <4>1, <4>4, <4>6, <5>1 DEF handle_appended_reply_msg
      <4>8. /\ server' = [server EXCEPT ![n] = z] /\ sent' = sent \cup out
            /\ reported' = [reported EXCEPT ![n] = @ \o reports]
            /\ record(n, s, r)
        BY <1>1, <4>6, <4>7 DEF step
      <4>9. TypeOK' /\ becomes(n, z)
        BY <4>2, <4>8, Becomes DEF Inv
      <4>10. UNCHANGED <<elected, valid, term_hist>>
        BY <1>1, <4>2, <4>6, <4>8, KeptHistory
      <4>11. by' = by \cup {<<n, m.ix, terms[n], q>>}
        BY <1>1, <4>2, <4>3, <4>5, <4>6, <4>8, Mapped DEF record
      <4>12. UNCHANGED <<terms, leaders, voters, logs, silences>>
        BY <1>1, <4>2, <4>9, Unmoved
      <4>13. repliers' = [repliers EXCEPT ![n][m.ix] = @ \cup {m.node}] /\ repliers'[n][m.ix] = q
        BY <1>1, <1>2, <3>1, <3>2, <3>4, <4>3, <4>9, RepliedAt
      <4>14. first_uncommiteds' = [first_uncommiteds EXCEPT ![n] = m.ix + 1]
        BY <4>2, <4>9 DEF becomes
      <4>15. R!commit(n, m.ix)
        BY <4>5, <4>8, <4>11, <4>13, <4>14 DEF R!commit
      <4>16. leaders[n] /\ UNCHANGED <<R!term_vars, R!log_vars, silences>>
        BY <1>1, <1>4, <4>10, <4>12, Mapped DEF R!term_vars, R!log_vars
      <4>17. R!handle_appended_reply_msg(n, m, to)
        BY <2>2, <2>3, <2>5, <3>5, <3>7, <4>8, <4>13, <4>15, <4>16
           DEF R!handle_appended_reply_msg
      <4> QED
        BY <4>9, <4>17
    <3> QED
      BY <3>6, <3>7
  <2> QED
    BY <2>4, <2>5
<1> QED
  BY <1>3, <1>4

\* A client's value is appended by the leader, which in the build raft2 sends it to
\* a node of any number.
LEMMA ClientStep ==
  ASSUME Inv, NEW n \in Node, client(n)
  PROVE  TypeOK' /\ ((\E to \in SUBSET Node, v \in Value : R!req_append_new_entry(n, v, to))
                      \/ UNCHANGED R!vars)
<1>1. PICK s : s = server[n]
  OBVIOUS
<1>2. s \in State /\ s.hist \in R!History /\ s.hist \in Seq(R!Entry) /\ Len(s.hist) \in Nat
  BY <1>1, LogType
<1>3. PICK v \in of_clients[n], c \in Node \cup {-1} :
        Len(s.hist) < MaxLog /\ step(n, req_append_new_entry(n, s, v, c))
  BY <1>1 DEF client
<1>4. v \in Value
  BY <1>3, ClientsAssumption
<1>5. PICK ix : ix = Len(s.hist)
  OBVIOUS
<1>6. ix \in Index
  BY <1>2, <1>3, <1>5, BoundsAssumption DEF Index
<1>7. CASE ~s.is_leader
  <2>1. step(n, nothing(server[n]))
    BY <1>1, <1>3, <1>7 DEF req_append_new_entry
  <2> QED
    BY <2>1, IdleStep
<1>8. CASE s.is_leader
  <2>1. s.term \in Term
    BY <1>1, Mapped, SameNodes DEF Inv, R!LogInv, R!TypeOK
  <2>2. PICK h : h = append(s.hist, ix, s.term, v)
    OBVIOUS
  <2>3. h = R!append(s.hist, s.term, v) /\ h \in Seq(R!Entry) /\ filled(h, ix)
    <3>1. h = R!append(s.hist, s.term, v)
      BY <1>2, <1>4, <1>5, <2>1, <2>2, SameAppend
    <3>2. [logt |-> s.term, val |-> v] \in R!Entry
      BY <1>4, <2>1 DEF R!Entry
    <3>3. h \in Seq(R!Entry) /\ Len(h) = ix + 1
      BY <1>2, <1>5, <3>1, <3>2 DEF R!append
    <3> QED
      BY <1>2, <1>5, <3>1, <3>3 DEF filled
  <2>4. PICK y : y = [s EXCEPT !.hist = h]
    OBVIOUS
  <2>5. /\ y \in State /\ y.hist = h /\ y.term = s.term /\ y.voters = s.voters
        /\ y.is_leader = s.is_leader /\ y.quiet_for = s.quiet_for
        /\ y.has_commits = s.has_commits /\ y.last_commited_ix = s.last_commited_ix
        /\ y.repliers = s.repliers
    BY <1>2, <2>3, <2>4 DEF State
  <2>6. PICK z : z = add_replier(y, ix, n)
    OBVIOUS
  <2>7. /\ z \in State /\ z.hist = h /\ z.term = s.term /\ z.voters = s.voters
        /\ z.is_leader = s.is_leader /\ z.quiet_for = s.quiet_for
        /\ z.has_commits = s.has_commits /\ z.last_commited_ix = s.last_commited_ix
        /\ all_repliers(z) = [all_repliers(y) EXCEPT ![ix] = @ \cup {n}]
    BY <1>6, <2>5, <2>6, Replied
  <2>8. PICK sends, out : /\ sends = req_replicate_entry_from_log(n, z, ix, FALSE, c)
                          /\ out = {p \in sends : p[2] \in Node}
    OBVIOUS
  <2>9. step(n, does(z, out))
    <3>1. req_append_new_entry(n, s, v, c) = does(z, out)
      BY <1>2, <1>5, <1>8, <2>2, <2>4, <2>6, <2>8 DEF req_append_new_entry, get_next_ix
    <3> QED
      BY <1>3, <3>1
  <2>10. PICK to \in SUBSET Node : out = {R!appentry(n, s.term, h, ix, FALSE)} \X to
    <3>1. PICK e : e = R!appentry(n, s.term, h, ix, FALSE)
      OBVIOUS
    <3>2. sends = {e} \X {c} \/ sends = {e} \X Node
      <4>1. one_or_all(n, z, ix, FALSE, c)
        BY <1>8, <2>3, <2>7, EntrySent
      <4> QED
        BY <2>7, <2>8, <3>1, <4>1 DEF one_or_all
    <3>3. CASE sends = {e} \X {c}
      <4>1. out = {e} \X ({c} \cap Node) /\ {c} \cap Node \in SUBSET Node
        BY <2>8, <3>3
      <4> QED
        BY <3>1, <4>1
    <3>4. CASE sends = {e} \X Node
      <4>1. out = {e} \X Node /\ Node \in SUBSET Node
        BY <2>8, <3>4
      <4> QED
        BY <3>1, <4>1
    <3> QED
      BY <3>2, <3>3, <3>4
  <2>11. /\ server' = [server EXCEPT ![n] = z] /\ sent' = sent \cup out
         /\ record(n, s, does(z, out)) /\ UNCHANGED <<reported, by>>
    BY <1>1, <2>9, NoReports
  <2>12. TypeOK' /\ becomes(n, z)
    BY <2>7, <2>11, Becomes DEF Inv
  <2>13. /\ elected' = elected /\ term_hist' = [term_hist EXCEPT ![s.term] = h]
         /\ valid' = valid \cup {h}
    BY <1>8, <2>7, <2>11 DEF record, does
  <2>14. first_uncommited(z) = first_uncommited(s)
    BY <2>7 DEF first_uncommited
  <2>15. UNCHANGED <<terms, leaders, voters, first_uncommiteds, silences>>
    BY <1>1, <2>7, <2>12, <2>14, Unmoved
  <2>16. logs' = [logs EXCEPT ![n] = h]
    BY <2>7, <2>12 DEF becomes
  <2>17. repliers' = [repliers EXCEPT ![n][ix] = @ \cup {n}]
    <3>1. all_repliers(y) = all_repliers(s)
      BY <2>5 DEF all_repliers, get_repliers
    <3>2. PICK f : f = all_repliers(z)
      OBVIOUS
    <3>3. f = [repliers[n] EXCEPT ![ix] = @ \cup {n}]
      BY <1>1, <2>7, <3>1, <3>2, Mapped
    <3>4. repliers' = [repliers EXCEPT ![n] = f]
      BY <2>12, <3>2 DEF becomes
    <3> QED
      BY <3>3, <3>4
  <2>18. logs[n] = s.hist /\ terms[n] = s.term /\ leaders[n]
    BY <1>1, <1>8, Mapped
  <2>19. /\ ix = R!get_next_ix(logs[n]) /\ h = R!append(logs[n], terms[n], v)
    BY <1>5, <2>3, <2>18 DEF R!get_next_ix
  <2>20. R!req_append_new_entry(n, v, to)
    BY <1>6, <2>10, <2>11, <2>13, <2>15, <2>16, <2>17, <2>18, <2>19
       DEF R!req_append_new_entry, R!term_vars, R!commit_vars
  <2> QED
    BY <1>4, <2>12, <2>20
<1> QED
  BY <1>7, <1>8

-----------------------------------------------------------------------------
(***************************************************************************)
(* Every step is one of RaftProofs.                                        *)
(***************************************************************************)

\* A server that reads a message does what RaftProofs allows it.
LEMMA ReadStep ==
  ASSUME Inv, NEW p \in sent, read(p)
  PROVE  TypeOK' /\ ((\E to \in SUBSET Node : R!receive(p[2], p[1], to)) \/ UNCHANGED R!vars)
<1>1. PICK m \in R!Message, n \in Node : m = p[1] /\ n = p[2]
  BY SameNodes DEF Inv, R!LogInv, R!TypeOK
<1>2. step(n, recv(n, server[n], m))
  BY <1>1 DEF read
<1>3. {} \in SUBSET Node
  OBVIOUS
<1>4. CASE m.kind = "appentry"
  <2>1. step(n, handle_append_entries(n, server[n], m))
    BY <1>2, <1>4 DEF recv
  <2> QED
    BY <1>1, <1>3, <1>4, <2>1, AppendEntriesStep DEF R!receive
<1>5. CASE m.kind = "rqvote"
  <2>1. step(n, handle_rqst_vote(n, server[n], m))
    BY <1>2, <1>5 DEF recv
  <2> QED
    BY <1>1, <1>3, <1>5, <2>1, RqstVoteStep DEF R!receive
<1>6. CASE m.kind = "rqvotenolog"
  <2>1. step(n, handle_rqst_vote_nolog(n, server[n], m))
    BY <1>2, <1>6 DEF recv
  <2> QED
    BY <1>1, <1>3, <1>6, <2>1, RqstVoteNologStep DEF R!receive
<1>7. CASE m.kind = "enappeneded"
  <2>1. step(n, handle_appended_reply_msg(n, server[n], m))
    BY <1>2, <1>7 DEF recv
  <2> QED
    BY <1>1, <1>7, <2>1, AppendedReplyStep DEF R!receive
<1>8. CASE m.kind = "vtcandidate"
  <2>1. step(n, handle_vote_cand_msg(n, server[n], m))
    BY <1>2, <1>8 DEF recv
  <2> QED
    BY <1>1, <1>3, <1>8, <2>1, VoteCandStep DEF R!receive
<1>9. CASE m.kind = "keepalive"
  <2>1. step(n, handle_keepalive(n, server[n], m))
    BY <1>2, <1>9 DEF recv
  <2> QED
    BY <1>1, <1>3, <1>9, <2>1, KeepaliveStep DEF R!receive
<1>10. CASE m.kind = "nack"
  <2>1. step(n, handle_nack(n, server[n], m))
    BY <1>2, <1>10 DEF recv
  <2> QED
    BY <1>1, <1>10, <2>1, NackStep DEF R!receive
<1>11. m.kind \in {"appentry", "rqvote", "rqvotenolog", "enappeneded", "vtcandidate",
                   "keepalive", "nack"}
  BY DEF R!Message
<1> QED
  BY <1>4, <1>5, <1>6, <1>7, <1>8, <1>9, <1>10, <1>11

LEMMA StepIsAny == Inv /\ [Next]_vars => TypeOK' /\ [R!AnyNext]_(R!vars)
<1> SUFFICES ASSUME Inv, [Next]_vars PROVE TypeOK' /\ (R!AnyNext \/ UNCHANGED R!vars)
  OBVIOUS
<1>1. {} \in SUBSET Node /\ R!Node = Node
  BY SameNodes
<1>2. ASSUME NEW n \in Node, client(n) PROVE TypeOK' /\ (R!AnyNext \/ UNCHANGED R!vars)
  BY <1>1, <1>2, ClientStep DEF R!AnyNext
<1>3. ASSUME NEW n \in Node, second(n) PROVE TypeOK' /\ (R!AnyNext \/ UNCHANGED R!vars)
  BY <1>1, <1>3, TimerStep DEF R!AnyNext
<1>4. ASSUME NEW p \in sent, read(p) PROVE TypeOK' /\ (R!AnyNext \/ UNCHANGED R!vars)
  BY <1>1, <1>4, ReadStep DEF R!AnyNext
<1>5. CASE UNCHANGED vars
  <2>1. server' = server /\ UNCHANGED <<sent, reported, elected, term_hist, valid, by>>
    BY <1>5 DEF vars, history
  <2>2. /\ terms' = terms /\ leaders' = leaders /\ logs' = logs /\ voters' = voters
        /\ repliers' = repliers /\ first_uncommiteds' = first_uncommiteds
        /\ silences' = silences
    BY <2>1 DEF terms, leaders, logs, voters, repliers, first_uncommiteds, silences
  <2>3. TypeOK'
    BY <2>1 DEF Inv, TypeOK
  <2> QED
    BY <2>1, <2>2, <2>3 DEF R!vars, R!term_vars, R!log_vars, R!commit_vars
<1> QED
  BY <1>2, <1>3, <1>4, <1>5 DEF Next

LEMMA InitIsInit == Init => TypeOK /\ R!Init
<1> SUFFICES ASSUME Init PROVE TypeOK /\ R!Init
  OBVIOUS
<1>1. PICK s : s = initially
  OBVIOUS
<1>2. <<>> \in Seq(R!Entry) /\ <<>> \in Seq(SUBSET Node) /\ Len(<<>>) = 0
  OBVIOUS
<1>3. /\ s \in State /\ s.hist = <<>> /\ s.voters = {} /\ s.repliers = <<>>
      /\ s.is_leader = FALSE /\ s.term = 0 /\ s.quiet_for = 0 /\ s.has_commits = FALSE
  BY <1>1, <1>2 DEF initially, clear, State
<1>4. first_uncommited(s) = 0
  BY <1>3 DEF first_uncommited
<1>5. all_repliers(s) = R!no_repliers
  BY <1>2, <1>3, RaftData DEF all_repliers, get_repliers, R!no_repliers
<1>6. server = [n \in Node |-> s]
  BY <1>1 DEF Init
<1>7. TypeOK
  BY <1>3, <1>6 DEF TypeOK
<1>8. /\ terms = [n \in Node |-> 0] /\ leaders = [n \in Node |-> FALSE]
      /\ logs = [n \in Node |-> <<>>] /\ voters = [n \in Node |-> {}]
      /\ silences = [n \in Node |-> 0]
  BY <1>3, <1>6 DEF terms, leaders, logs, voters, silences
<1>9. /\ repliers = [n \in Node |-> R!no_repliers]
      /\ first_uncommiteds = [n \in Node |-> 0]
  BY <1>4, <1>5, <1>6 DEF repliers, first_uncommiteds
<1>10. /\ sent = {} /\ reported = [n \in Node |-> <<>>] /\ elected = {} /\ valid = {<<>>}
       /\ by = {} /\ term_hist = [t \in Term |-> <<>>]
  BY DEF Init, clear, Term
<1> QED
  BY <1>7, <1>8, <1>9, <1>10, SameNodes DEF R!Init

\* The servers take the steps of the servers of raft.ivy, but for whom a leader
\* sends its entries to and when a server moves to the term of a message.
LEMMA Inductive ==
  /\ Init => Inv
  /\ Inv /\ [Next]_vars => Inv' /\ [R!Log!Next]_reported
<1>1. Init => R!LogInv /\ R!Commits
  BY InitIsInit, RaftData, R!TypeInit, R!VotesInit, R!LogInit, R!CommitInit DEF R!LogInv
<1>2. ASSUME Inv, [Next]_vars PROVE Inv' /\ [R!Log!Next]_reported
  <2>1. TypeOK' /\ [R!AnyNext]_(R!vars) /\ R!LogInv /\ R!Commits
    BY <1>2, StepIsAny DEF Inv
  <2>2. R!LogInv'
    BY <2>1, RaftData, R!LogStep
  <2>3. R!Commits' /\ [R!Log!Next]_reported
    BY <2>1, RaftData, R!CommitStep
  <2> QED
    BY <2>1, <2>2, <2>3 DEF Inv
<1> QED
  BY <1>1, <1>2, InitIsInit DEF Inv

\* Elections, logs and commits of RaftUdp are as RaftProofs has them.
THEOREM Invariance == Spec => []Inv
  BY Inductive, PTL DEF Spec

\* A term has one leader in either build, although candidates may choose one term
\* and a vote or a request may be delivered many times.
THEOREM OneLeader == Spec => []R!OneLeaderPerTerm
<1>1. Inv => R!OneLeaderPerTerm
  BY RaftData, R!VotesGiveOneLeader DEF Inv, R!LogInv
<1> QED
  BY <1>1, Invariance, PTL

\* The logs of two servers match up to an entry of one term, in either build.
THEOREM LogsMatchHold == Spec => []LogsMatch
<1>1. Inv => LogsMatch
  <2> SUFFICES ASSUME Inv, NEW n \in Node, NEW p \in Node, NEW ix \in 0 .. MaxLog - 1,
                      filled(server[n].hist, ix), filled(server[p].hist, ix),
                      get_logt(server[n].hist, ix) = get_logt(server[p].hist, ix)
               PROVE  strip(server[n].hist, ix) = strip(server[p].hist, ix)
    BY DEF LogsMatch
  <2>1. R!LogsMatch
    BY RaftData, R!FollowersMatch DEF Inv, R!LogInv, R!LogsAreKept, R!Histories
  <2>2. server[n].hist \in valid /\ server[p].hist \in valid
    BY Mapped, SameNodes DEF Inv, R!LogInv, R!LogsAreKept, R!Histories, R!LogsAreValid
  <2>3. R!strip_from(server[n].hist, ix + 1) = R!strip_from(server[p].hist, ix + 1)
    BY <2>1, <2>2, SameLogs DEF R!LogsMatch, Index
  <2> QED
    BY <2>3 DEF R!strip_from, strip
<1> QED
  BY <1>1, Invariance, PTL

\* Over a network that loses, repeats and reorders, the servers of either build
\* implement one log that only grows and that each reports in order.
THEOREM ImplementsLog == Spec => LogSpec
<1>1. Init => Log!Init
  BY DEF Init, Log!Init
<1>2. R!Log!Next <=> Log!Next
  BY SameNodes
     DEF R!Log!Next, Log!Next, R!Log!report_commits, Log!report_commits, R!Log!begins_with,
         Log!begins_with
<1>3. Inv /\ [Next]_vars => [Log!Next]_reported
  BY <1>2, Inductive
<1> QED
  BY <1>1, <1>3, Invariance, PTL DEF Spec, LogSpec, Log!Spec
-----------------------------------------------------------------------------
(***************************************************************************)
(* The process around such a server: its threads and its lock.             *)
(***************************************************************************)
CONSTANTS Scripts, Unended, MaxTicks, MaxDatagrams

VARIABLES lock, pc, whole, bound, arrived, ticks, traffic, script, typed, buf, eof, cmd,
          served, cancelled

Con == INSTANCE Console

Outside == {"new", "idle", "bind_lock", "call_lock", "dead"}
Inside == {"call", "test", "bind", "unlock"}
Constructing == {"install_reader", "install_timer", "derive"}
Joining == {"join_reader", "join_timer"}
Serving == {"lines", "process", "call_lock", "exit", "ended"}

\* Who is where it may use the server has the lock; main may also keep it behind an
\* exception.
Locked ==
    /\ \A t \in Con!Installed : pc[t] \in Inside => lock = t
    /\ lock \in Con!Installed => pc[lock] \in Inside
    /\ pc["main"] \in Constructing \cup Inside \cup Joining => lock = "main"

\* The object is whole unless main constructs it.
Constructed == whole \/ pc["main"] \in Constructing

\* Only the destructor cancels, and when it has ended so have the threads.
Cancelled ==
    /\ cancelled \subseteq Con!Installed
    /\ cancelled # {} => pc["main"] \in Joining \cup {"ended"}
    /\ pc["main"] \in {"join_timer", "ended"} => pc["reader"] = "dead"
    /\ pc["main"] = "ended" => pc["timer"] = "dead"
    /\ \A t \in Con!Installed : pc[t] = "dead" => t \in cancelled

\* Who is about to bind the socket has seen that it is not bound, and still is alone.
BoundOnce == \A t \in Con!Thread : pc[t] = "bind" => ~bound

ProcessInv ==
    /\ pc \in [Con!Thread -> Outside \cup Inside \cup Constructing \cup Joining \cup Serving]
    /\ \A t \in Con!Installed : pc[t] \in Outside \cup Inside
    /\ pc["main"] \in Constructing \cup Inside \cup Joining \cup Serving
    /\ Locked /\ Constructed /\ Cancelled /\ BoundOnce

LEMMA ProcessInit == Con!Init => ProcessInv
BY DEF Con!Init, ProcessInv, Locked, Constructed, Cancelled, BoundOnce, Con!Thread,
       Con!Installed, Outside, Inside, Constructing, Joining, Serving

\* What the main thread does.
LEMMA MainStep ==
  ASSUME ProcessInv, Con!main
  PROVE  ProcessInv'
<1>1. CASE Con!install_reader
  BY <1>1
     DEF Con!install_reader, Con!console, Con!network, ProcessInv, Locked, Constructed,
         Cancelled, BoundOnce, Con!Thread, Con!Installed, Con!goes, Outside, Inside,
         Constructing, Joining, Serving
<1>2. CASE Con!install_timer
  BY <1>2
     DEF Con!install_timer, Con!console, Con!network, ProcessInv, Locked, Constructed,
         Cancelled, BoundOnce, Con!Thread, Con!Installed, Con!goes, Outside, Inside,
         Constructing, Joining, Serving
<1>3. CASE Con!derive
  BY <1>3
     DEF Con!derive, Con!lets_go, Con!console, Con!network, ProcessInv, Locked, Constructed,
         Cancelled, BoundOnce, Con!Thread, Con!Installed, Con!goes, Outside, Inside,
         Constructing, Joining, Serving
<1>4. CASE Con!read_stdin
  BY <1>4
     DEF Con!read_stdin, Con!network, ProcessInv, Locked, Constructed,
         Cancelled, BoundOnce, Con!Thread, Con!Installed, Con!goes, Outside, Inside,
         Constructing, Joining, Serving
<1>5. CASE Con!read_end
  BY <1>5
     DEF Con!read_end, Con!network, ProcessInv, Locked, Constructed,
         Cancelled, BoundOnce, Con!Thread, Con!Installed, Con!goes, Outside, Inside,
         Constructing, Joining, Serving
<1>6. CASE Con!next_line
  BY <1>6
     DEF Con!next_line, Con!network, ProcessInv, Locked, Constructed,
         Cancelled, BoundOnce, Con!Thread, Con!Installed, Con!goes, Outside, Inside,
         Constructing, Joining, Serving
<1>7. CASE Con!last_line
  BY <1>7
     DEF Con!last_line, Con!console, Con!network, ProcessInv, Locked, Constructed,
         Cancelled, BoundOnce, Con!Thread, Con!Installed, Con!goes, Outside, Inside,
         Constructing, Joining, Serving
<1>8. CASE Con!process
  BY <1>8
     DEF Con!process, Con!network, ProcessInv, Locked, Constructed,
         Cancelled, BoundOnce, Con!Thread, Con!Installed, Con!goes, Outside, Inside,
         Constructing, Joining, Serving
<1>9. CASE Con!execute
  BY <1>9
     DEF Con!execute, Con!network, ProcessInv, Locked, Constructed,
         Cancelled, BoundOnce, Con!Thread, Con!Installed, Con!goes, Outside, Inside,
         Constructing, Joining, Serving
<1>10. CASE Con!exit
  BY <1>10
     DEF Con!exit, Con!takes_lock, Con!console, Con!network, ProcessInv, Locked, Constructed,
         Cancelled, BoundOnce, Con!Thread, Con!Installed, Con!goes, Outside, Inside,
         Constructing, Joining, Serving
<1>11. CASE Con!join_reader
  BY <1>11
     DEF Con!join_reader, Con!console, Con!network, ProcessInv, Locked, Constructed,
         Cancelled, BoundOnce, Con!Thread, Con!Installed, Con!goes, Outside, Inside,
         Constructing, Joining, Serving
<1>12. CASE Con!join_timer
  BY <1>12
     DEF Con!join_timer, Con!lets_go, Con!console, Con!network, ProcessInv, Locked, Constructed,
         Cancelled, BoundOnce, Con!Thread, Con!Installed, Con!goes, Outside, Inside,
         Constructing, Joining, Serving
<1> QED
  BY <1>1, <1>2, <1>3, <1>4, <1>5, <1>6, <1>7, <1>8, <1>9, <1>10, <1>11, <1>12 DEF Con!main

\* What comes from outside: a datagram or the next second.
LEMMA OutsideStep ==
  ASSUME ProcessInv, Con!arrive \/ Con!receive \/ Con!sleep
  PROVE  ProcessInv'
<1>1. CASE Con!arrive
  BY <1>1
     DEF Con!arrive, Con!console, ProcessInv, Locked, Constructed,
         Cancelled, BoundOnce, Con!Thread, Con!Installed, Con!goes, Outside, Inside,
         Constructing, Joining, Serving
<1>2. CASE Con!receive
  BY <1>2
     DEF Con!receive, Con!console, ProcessInv, Locked, Constructed,
         Cancelled, BoundOnce, Con!Thread, Con!Installed, Con!goes, Outside, Inside,
         Constructing, Joining, Serving
<1>3. CASE Con!sleep
  BY <1>3
     DEF Con!sleep, Con!console, Con!network, ProcessInv, Locked, Constructed,
         Cancelled, BoundOnce, Con!Thread, Con!Installed, Con!goes, Outside, Inside,
         Constructing, Joining, Serving
<1> QED
  BY <1>1, <1>2, <1>3

\* What a thread does for a call of the server.
LEMMA ThreadStep ==
  ASSUME ProcessInv, NEW t \in Con!Thread, Con!steps(t)
  PROVE  ProcessInv'
<1>1. CASE Con!acquire(t)
  BY <1>1
     DEF Con!acquire, Con!takes_lock, ProcessInv, Locked, Constructed,
         Cancelled, BoundOnce, Con!Thread, Con!Installed, Con!goes, Outside, Inside,
         Constructing, Joining, Serving
<1>2. CASE Con!call(t)
  BY <1>2
     DEF Con!call, ProcessInv, Locked, Constructed,
         Cancelled, BoundOnce, Con!Thread, Con!Installed, Con!goes, Outside, Inside,
         Constructing, Joining, Serving
<1>3. CASE Con!test(t)
  BY <1>3
     DEF Con!test, ProcessInv, Locked, Constructed,
         Cancelled, BoundOnce, Con!Thread, Con!Installed, Con!goes, Outside, Inside,
         Constructing, Joining, Serving
<1>4. CASE Con!release(t)
  BY <1>4
     DEF Con!release, Con!lets_go, ProcessInv, Locked, Constructed,
         Cancelled, BoundOnce, Con!Thread, Con!Installed, Con!goes, Outside, Inside,
         Constructing, Joining, Serving
<1>5. CASE Con!die(t)
  BY <1>5
     DEF Con!die, ProcessInv, Locked, Constructed,
         Cancelled, BoundOnce, Con!Thread, Con!Installed, Con!goes, Outside, Inside,
         Constructing, Joining, Serving
<1>6. CASE Con!bind_int(t)
  BY <1>6
     DEF Con!bind_int, ProcessInv, Locked, Constructed,
         Cancelled, BoundOnce, Con!Thread, Con!Installed, Con!goes, Outside, Inside,
         Constructing, Joining, Serving
<1> QED
  BY <1>1, <1>2, <1>3, <1>4, <1>5, <1>6 DEF Con!steps

LEMMA ProcessStep == ProcessInv /\ [Con!Next]_(Con!vars) => ProcessInv'
<1> SUFFICES ASSUME ProcessInv, [Con!Next]_(Con!vars) PROVE ProcessInv'
  OBVIOUS
<1>1. CASE Con!Next
  BY <1>1, MainStep, OutsideStep, ThreadStep DEF Con!Next
<1>2. CASE UNCHANGED Con!vars
  BY <1>2 DEF Con!vars, ProcessInv, Locked, Constructed, Cancelled, BoundOnce
<1> QED
  BY <1>1, <1>2

\* Mutual exclusion in the process, the construction of the object and its end are
\* inductive, whatever is typed, whenever datagrams come and however often the
\* timer fires.
THEOREM ProcessInvariance == Con!Spec => []ProcessInv
BY ProcessInit, ProcessStep, PTL DEF Con!Spec

\* The threads that the constructor of the base class has started do not call the
\* server before the derived class is constructed.
THEOREM CallsFind == Con!Spec => []Con!CallsFindTheWholeObject
<1>1. ProcessInv => Con!CallsFindTheWholeObject
  BY DEF ProcessInv, Locked, Constructed, Con!CallsFindTheWholeObject,
         Con!Thread, Con!Installed, Inside, Constructing
<1> QED
  BY <1>1, ProcessInvariance, PTL

\* The destructor cancels with the lock in hand: no thread dies that has it.
THEOREM NobodyDies == Con!Spec => []Con!NobodyDiesHoldingTheLock
<1>1. ProcessInv => Con!NobodyDiesHoldingTheLock
  BY DEF ProcessInv, Locked, Con!NobodyDiesHoldingTheLock, Con!Thread,
         Con!Installed, Outside, Inside, Constructing, Joining, Serving
<1> QED
  BY <1>1, ProcessInvariance, PTL

\* No thread binds the socket a second time, which would end the process: what it
\* saw of the flag is still so, for it has the lock.
THEOREM NeverBoundTwice == Con!Spec => [](\A t \in Con!Thread : pc[t] # "exited")
<1>1. ProcessInv => \A t \in Con!Thread : pc[t] # "exited"
  BY DEF ProcessInv, Con!Thread, Con!Installed, Outside, Inside, Constructing, Joining, Serving
<1> QED
  BY <1>1, ProcessInvariance, PTL
=============================================================================
