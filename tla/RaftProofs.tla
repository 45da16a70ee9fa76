----------------------------- MODULE RaftProofs -----------------------------
(***************************************************************************)
(* The Raft servers, for clusters of any size and any terms, indices and   *)
(* values: types, one leader per term, logs match, an entry that may be    *)
(* committed is kept, and the servers implement one log.                   *)
(***************************************************************************)
EXTENDS Raft, FiniteSetTheorems, TLAPS

-----------------------------------------------------------------------------
(***************************************************************************)
(* Whom a leader sends its entries to, and whether a server that misses an *)
(* entry also moves to the term it is told of, matters to progress only.   *)
(* What follows is proved of AnyNext, which leaves both open: the servers  *)
(* of raft.ivy take its steps, and so do those of RaftUdp.                 *)
(***************************************************************************)

\* n misses the entry before: it asks for it and does nothing else.
refuse(n, m) ==
    /\ m.kind = "appentry"
    /\ accepts(n, m)
    /\ reject(n, m)
    /\ UNCHANGED <<term_vars, commit_vars, my_repliers, heard>>

receive(n, m, to) ==
    \/ handle_append_entries(n, m)
    \/ refuse(n, m)
    \/ handle_rqst_vote(n, m)
    \/ handle_rqst_vote_nolog(n, m)
    \/ handle_appended_reply_msg(n, m, to)
    \/ handle_vote_cand_msg(n, m)
    \/ handle_keepalive(n, m)
    \/ handle_nack(n, m, to)

AnyNext == \E to \in SUBSET Node :
    \/ \E n \in Node, v \in Value : req_append_new_entry(n, v, to)
    \/ \E n \in Node : timer(n)
    \/ \E s \in sent : receive(s[2], s[1], to)

-----------------------------------------------------------------------------
\* A cluster has finitely many nodes.
LEMMA NodeIsFinite == IsFiniteSet(Node)
<1>1. 0 \in Int /\ Size - 1 \in Int
  BY SizeAssumption
<1> QED
  BY <1>1, FS_Interval DEF Node

\* [majorities_intersect] of nset in nodes.ivy: two majorities share a node.
LEMMA MajoritiesIntersect == \A S, T \in Majorities : S \cap T # {}
<1> SUFFICES ASSUME NEW S \in SUBSET Node, NEW T \in SUBSET Node,
                    majority(S), majority(T)
             PROVE  S \cap T # {}
  BY DEF Majorities
<1>1. IsFiniteSet(S) /\ IsFiniteSet(T)
  BY NodeIsFinite, FS_Subset
<1>2. /\ Cardinality(S) \in Nat /\ Cardinality(T) \in Nat
      /\ Cardinality(Node) \in Nat
  BY <1>1, NodeIsFinite, FS_CardinalityType
<1>3. Cardinality(S) + Cardinality(T) > Cardinality(Node)
  BY <1>2 DEF majority, card, all
<1> QED
  BY <1>3, NodeIsFinite, FS_MajoritiesIntersect

\* What is smaller than an index, or than a term, is one.
LEMMA InitialSegments ==
  /\ Term \subseteq Int /\ Index \subseteq Int
  /\ \A i \in Index : \A j \in Int : 0 <= j /\ j <= i => j \in Index
  BY TermsAssumption, IndicesAssumption

\* The parts of an entry of a log.
LEMMA EntryType ==
  ASSUME NEW h \in History, NEW ix \in Nat, filled(h, ix)
  PROVE  /\ ix \in Index
         /\ get_logt(h, ix) \in Term
         /\ valix(h, ix) \in Value
<1>1. h \in Seq(Entry) /\ ix + 1 \in 1 .. Len(h)
  BY DEF History, filled
<1>2. h[ix + 1] \in Entry
  BY <1>1
<1>3. ix + 1 - 1 \in Index
  BY <1>1 DEF History
<1> QED
  BY <1>2, <1>3 DEF Entry, get_logt, valix

\* Appending at an index gives a log.
LEMMA AppendType ==
  ASSUME NEW h \in History, Len(h) \in Index, NEW t \in Term, NEW v \in Value
  PROVE  append(h, t, v) \in History
<1>1. h \in Seq(Entry) /\ [logt |-> t, val |-> v] \in Entry
  BY DEF History, Entry
<1>2. /\ append(h, t, v) \in Seq(Entry)
      /\ Len(append(h, t, v)) = Len(h) + 1
  BY <1>1 DEF append
<1>3. \A k \in 1 .. Len(h) + 1 : k - 1 \in Index
  BY <1>1 DEF History
<1> QED
  BY <1>2, <1>3 DEF History

\* Stripping a log up to an index at most its length gives a log of that length.
LEMMA StripType ==
  ASSUME NEW h \in History, NEW ix \in Index, ix <= Len(h)
  PROVE  /\ strip_from(h, ix) \in History
         /\ Len(strip_from(h, ix)) = ix
<1>1. h \in Seq(Entry) /\ Len(h) \in Nat /\ ix \in Nat
  BY IndicesAssumption DEF History
<1>2. /\ strip_from(h, ix) \in Seq(Entry)
      /\ Len(strip_from(h, ix)) = ix
  BY <1>1 DEF strip_from
<1> QED
  BY <1>1, <1>2 DEF History

\* The messages of each kind and what they carry.
LEMMA MessageType ==
  ASSUME NEW m \in Message
  PROVE  /\ m.kind \in {"rqvote", "rqvotenolog"} => m.cand \in Node /\ m.term \in Term
         /\ m.kind = "vtcandidate" => m.node \in Node /\ m.term \in Term /\ m.cand \in Node
         /\ m.kind = "enappeneded" =>
              m.term \in Term /\ m.node \in Node /\ m.ix \in Index /\ m.isrecover \in BOOLEAN
         /\ m.kind = "keepalive" => m.term \in Term
         /\ m.kind = "nack" => m.term \in Term /\ m.node \in Node /\ m.ix \in Index
         /\ m.kind = "appentry" =>
              /\ m.node \in Node /\ m.term \in Term /\ m.ix \in Index /\ m.logt \in Term
              /\ m.val \in Value /\ m.prevlogt \in Term /\ m.isrecover \in BOOLEAN
  BY DEF Message

\* The messages the servers build are messages.
LEMMA ConstructedMessages ==
  /\ \A c \in Node, l \in Term, i \in Index, t \in Term : rqvote(c, l, i, t) \in Message
  /\ \A c \in Node, t \in Term : rqvotenolog(c, t) \in Message
  /\ \A n \in Node, t \in Term, c \in Node : vtcandidate(n, t, c) \in Message
  /\ \A t \in Term, n \in Node, i \in Index, r \in BOOLEAN : enappeneded(t, n, i, r) \in Message
  /\ \A t \in Term : keepalive(t) \in Message
  /\ \A t \in Term, n \in Node, i \in Index : nack(t, n, i) \in Message
  BY DEF Message, rqvote, rqvotenolog, vtcandidate, enappeneded, keepalive, nack

\* So are the appends of a leader.
LEMMA AppendMessage ==
  ASSUME NEW n \in Node, NEW t \in Term, NEW h \in History, NEW ix \in Nat,
         filled(h, ix), NEW r \in BOOLEAN
  PROVE  appentry(n, t, h, ix, r) \in Message
<1>1. ix \in Index /\ get_logt(h, ix) \in Term /\ valix(h, ix) \in Value
  BY EntryType
<1>2. (IF ix = 0 THEN 0 ELSE get_logt(h, ix - 1)) \in Term
  <2>1. CASE ix = 0
    BY <2>1, TermsAssumption
  <2>2. CASE ix # 0
    <3>1. ix - 1 \in Nat /\ Len(h) \in Nat
      BY <2>2 DEF History
    <3>2. filled(h, ix - 1)
      BY <3>1 DEF filled
    <3> QED
      BY <2>2, <3>1, <3>2, EntryType
  <2> QED
    BY <2>1, <2>2
<1> QED
  BY <1>1, <1>2 DEF appentry, Message

-----------------------------------------------------------------------------
\* The initial state is typed.
LEMMA TypeInit == Init => TypeOK
<1> SUFFICES ASSUME Init PROVE TypeOK
  OBVIOUS
<1>1. <<>> \in History /\ 0 \in Term
  BY TermsAssumption DEF History
<1>2. 0 \in 0 .. timeout - 1
  BY TimeoutAssumption
<1>3. no_repliers \in [Index -> SUBSET Node]
  BY DEF no_repliers
<1>4. <<>> \in Seq(Value)
  OBVIOUS
<1> QED
  BY <1>1, <1>2, <1>3, <1>4 DEF Init, TypeOK

-----------------------------------------------------------------------------
\* What a step of a server may change: each lemma is about one part of TypeOK.

\* Sending a message to a node, or to all, keeps the network typed.
LEMMA SendType ==
  ASSUME sent \subseteq Message \X Node, NEW m \in Message
  PROVE  /\ sent \cup broadcast(m) \subseteq Message \X Node
         /\ \A to \in SUBSET Node : sent \cup ({m} \X to) \subseteq Message \X Node
         /\ \A d \in Node : sent \cup unicast(m, d) \subseteq Message \X Node
  BY DEF broadcast, unicast

\* The types of what a move to another term assigns.
TermTypeOK ==
  /\ nter \in [Node -> Term]
  /\ is_leader \in [Node -> BOOLEAN]
  /\ my_voters \in [Node -> SUBSET Node]
  /\ my_repliers \in [Node -> [Index -> SUBSET Node]]
  /\ heard \in [Node -> 0 .. timeout - 1]
  /\ elected \subseteq Term \X Node \X SUBSET Node

\* A move to another term keeps them.
LEMMA MoveType ==
  ASSUME TypeOK, NEW n \in Node, NEW t \in Term, NEW Q \in SUBSET Node, move_to_term(n, t, Q)
  PROVE  TermTypeOK'
<1>1. no_repliers \in [Index -> SUBSET Node]
  BY DEF no_repliers
<1>2. 0 \in 0 .. timeout - 1
  BY TimeoutAssumption
<1> QED
  BY <1>1, <1>2 DEF TypeOK, TermTypeOK, move_to_term

LEMMA TimerType ==
  ASSUME TypeOK, NEW n \in Node, timer(n)
  PROVE  TypeOK'
<1> USE DEF TypeOK
<1>0. UNCHANGED <<log_vars, commit_vars>>
  BY DEF timer
<1>1. CASE announce_candidacy(n)
  <2> DEFINE t == nter[n] + 1 + n
  <2>1. /\ t \in Term
        /\ move_to_term(n, t, {n})
        /\ sent' = sent \cup broadcast(request(n, t)) \cup unicast(vtcandidate(n, t, n), n)
    BY <1>1 DEF announce_candidacy
  <2>2. request(n, t) \in Message
    <3>1. CASE ~filled(myhist[n], 0)
      BY <2>1, <3>1, ConstructedMessages DEF request
    <3>2. CASE filled(myhist[n], 0)
      <4> DEFINE ix == get_next_ix(myhist[n]) - 1
      <4>1. ix \in Nat /\ filled(myhist[n], ix)
        BY <3>2 DEF filled, get_next_ix, History
      <4>2. ix \in Index /\ get_logt(myhist[n], ix) \in Term
        BY <4>1, EntryType
      <4> QED
        BY <2>1, <3>2, <4>2, ConstructedMessages DEF request
    <3> QED
      BY <3>1, <3>2
  <2>3. vtcandidate(n, t, n) \in Message
    BY <2>1, ConstructedMessages
  <2>4. sent' \subseteq Message \X Node
    BY <2>1, <2>2, <2>3 DEF broadcast, unicast
  <2>5. TermTypeOK'
    BY <2>1, MoveType
  <2> QED
    BY <2>4, <2>5, <1>0 DEF TermTypeOK, log_vars, commit_vars
<1>2. CASE ~is_leader_too_quiet(heard[n] + 1) /\ heard' = [heard EXCEPT ![n] = @ + 1]
           /\ UNCHANGED <<term_vars, my_repliers, sent>>
  <2>1. heard[n] + 1 \in 0 .. timeout - 1
    BY <1>2, TimeoutAssumption DEF is_leader_too_quiet
  <2> QED
    BY <1>0, <1>2, <2>1 DEF term_vars, log_vars, commit_vars
<1>3. CASE sent' = sent \cup broadcast(keepalive(nter[n]))
           /\ UNCHANGED <<term_vars, my_repliers, heard>>
  <2>1. keepalive(nter[n]) \in Message
    BY ConstructedMessages
  <2> QED
    BY <1>0, <1>3, <2>1, SendType DEF term_vars, log_vars, commit_vars
<1> QED
  BY <1>1, <1>2, <1>3 DEF timer

LEMMA VotingType ==
  ASSUME TypeOK, NEW n \in Node, NEW m \in Message,
         handle_rqst_vote(n, m) \/ handle_rqst_vote_nolog(n, m)
  PROVE  TypeOK'
<1>1. /\ m.term \in Term /\ m.cand \in Node
      /\ move_to_term(n, m.term, {})
      /\ sent' = sent \cup unicast(vtcandidate(n, m.term, m.cand), m.cand)
      /\ UNCHANGED <<log_vars, commit_vars>>
  BY MessageType DEF handle_rqst_vote, handle_rqst_vote_nolog
<1>2. vtcandidate(n, m.term, m.cand) \in Message
  BY <1>1, ConstructedMessages
<1>3. sent' \subseteq Message \X Node
  BY <1>1, <1>2, SendType DEF TypeOK
<1>4. TermTypeOK'
  BY <1>1, MoveType
<1> QED
  BY <1>1, <1>3, <1>4 DEF TypeOK, TermTypeOK, log_vars, commit_vars

LEMMA KeepaliveType ==
  ASSUME TypeOK, NEW n \in Node, NEW m \in Message, handle_keepalive(n, m)
  PROVE  TypeOK'
<1>0. m.term \in Term /\ UNCHANGED <<log_vars, commit_vars, sent>>
  BY MessageType DEF handle_keepalive
<1>1. CASE move_to_term(n, m.term, {})
  <2>1. TermTypeOK'
    BY <1>0, <1>1, MoveType
  <2> QED
    BY <1>0, <2>1 DEF TypeOK, TermTypeOK, log_vars, commit_vars
<1>2. CASE heard' = [heard EXCEPT ![n] = 0] /\ UNCHANGED <<term_vars, my_repliers>>
  <2>1. 0 \in 0 .. timeout - 1
    BY TimeoutAssumption
  <2> QED
    BY <1>0, <1>2, <2>1 DEF TypeOK, term_vars, log_vars, commit_vars
<1> QED
  BY <1>1, <1>2 DEF handle_keepalive

LEMMA ElectionType ==
  ASSUME TypeOK, NEW n \in Node, NEW m \in Message, handle_vote_cand_msg(n, m)
  PROVE  TypeOK'
<1>1. /\ m.term \in Term /\ m.node \in Node
      /\ my_voters' = [my_voters EXCEPT ![n] = @ \cup {m.node}]
      /\ UNCHANGED <<nter, myhist, valid, commit_vars, my_repliers, heard, sent>>
  BY MessageType DEF handle_vote_cand_msg
<1>2. my_voters' \in [Node -> SUBSET Node] /\ my_voters'[n] \in SUBSET Node
  BY <1>1 DEF TypeOK
<1>3. /\ is_leader' \in [Node -> BOOLEAN]
      /\ elected' \subseteq Term \X Node \X SUBSET Node
      /\ term_hist' \in [Term -> History]
  <2>1. CASE /\ is_leader' = [is_leader EXCEPT ![n] = TRUE]
             /\ elected' = elected \cup {<<m.term, n, my_voters'[n]>>}
             /\ term_hist' = [term_hist EXCEPT ![m.term] = myhist[n]]
    BY <1>1, <1>2, <2>1 DEF TypeOK
  <2>2. CASE UNCHANGED <<is_leader, elected, term_hist>>
    BY <2>2 DEF TypeOK
  <2> QED
    BY <2>1, <2>2 DEF handle_vote_cand_msg
<1> QED
  BY <1>1, <1>2, <1>3 DEF TypeOK, commit_vars

LEMMA ClientType ==
  ASSUME TypeOK, NEW n \in Node, NEW v \in Value, NEW to \in SUBSET Node,
         req_append_new_entry(n, v, to)
  PROVE  TypeOK'
<1> DEFINE t == nter[n]
           ix == get_next_ix(myhist[n])
           h == append(myhist[n], t, v)
<1>1. /\ ix \in Index
      /\ myhist' = [myhist EXCEPT ![n] = h]
      /\ valid' = valid \cup {h}
      /\ term_hist' = [term_hist EXCEPT ![t] = h]
      /\ my_repliers' = [my_repliers EXCEPT ![n][ix] = @ \cup {n}]
      /\ sent' = sent \cup ({appentry(n, t, h, ix, FALSE)} \X to)
      /\ UNCHANGED <<term_vars, commit_vars, heard>>
  BY DEF req_append_new_entry
<1>2. t \in Term /\ myhist[n] \in History
  BY DEF TypeOK
<1>3. h \in History
  BY <1>1, <1>2, AppendType DEF get_next_ix
<1>4. ix \in Nat /\ filled(h, ix)
  BY <1>2 DEF filled, append, get_next_ix, History
<1>5. appentry(n, t, h, ix, FALSE) \in Message
  BY <1>2, <1>3, <1>4, AppendMessage
<1> HIDE DEF t, ix, h
<1>6. sent' \subseteq Message \X Node
  BY <1>1, <1>5, SendType DEF TypeOK
<1>7. my_repliers' \in [Node -> [Index -> SUBSET Node]]
  BY <1>1 DEF TypeOK
<1> QED
  BY <1>1, <1>2, <1>3, <1>6, <1>7 DEF TypeOK, term_vars, commit_vars

\* A server that misses an entry says so in a message of its type.
LEMMA RejectType ==
  ASSUME TypeOK, NEW n \in Node, NEW m \in Message, m.kind = "appentry", reject(n, m)
  PROVE  sent' \subseteq Message \X Node
<1>1. /\ m.node \in Node /\ m.term \in Term /\ m.ix \in Index
      /\ myhist[n] \in History /\ m.ix \in Nat
  BY MessageType, IndicesAssumption DEF TypeOK
<1>2. m.ix - 1 \in Index
  BY <1>1, IndicesAssumption, InitialSegments DEF reject, has_previous
<1>3. nack(m.term, n, m.ix - 1) \in Message
  BY <1>1, <1>2, ConstructedMessages
<1> QED
  BY <1>1, <1>3, SendType DEF reject, TypeOK

LEMMA AppendEntriesType ==
  ASSUME TypeOK, NEW n \in Node, NEW m \in Message, handle_append_entries(n, m)
  PROVE  TypeOK'
<1>1. /\ m.node \in Node /\ m.term \in Term /\ m.ix \in Index /\ m.logt \in Term
      /\ m.val \in Value /\ m.isrecover \in BOOLEAN
      /\ move_to_term(n, m.term, {})
      /\ UNCHANGED commit_vars
  BY MessageType DEF handle_append_entries
<1>2. myhist[n] \in History /\ m.ix \in Nat
  BY <1>1, IndicesAssumption DEF TypeOK
<1>3. TermTypeOK'
  BY <1>1, MoveType
<1>4. CASE store(n, m)
  <2> DEFINE h == append(strip_from(myhist[n], m.ix), m.logt, m.val)
  <2>1. /\ has_previous(n, m)
        /\ myhist' = [myhist EXCEPT ![n] = h]
        /\ valid' = valid \cup {h}
        /\ sent' = sent \cup unicast(enappeneded(m.term, n, m.ix, m.isrecover), m.node)
        /\ UNCHANGED term_hist
    BY <1>4 DEF store
  <2>2. m.ix <= Len(myhist[n])
    BY <1>2, <2>1 DEF has_previous, logtix, filled, History
  <2>3. h \in History
    BY <1>1, <1>2, <2>2, StripType, AppendType
  <2>4. enappeneded(m.term, n, m.ix, m.isrecover) \in Message
    BY <1>1, ConstructedMessages
  <2> HIDE DEF h
  <2>5. sent' \subseteq Message \X Node
    BY <1>1, <2>1, <2>4, SendType DEF TypeOK
  <2> QED
    BY <1>1, <2>1, <2>3, <2>5, <1>3 DEF TypeOK, TermTypeOK, commit_vars
<1>5. CASE reject(n, m)
  <2>1. sent' \subseteq Message \X Node
    BY <1>5, RejectType DEF handle_append_entries
  <2> QED
    BY <1>1, <1>5, <2>1, <1>3 DEF reject, TypeOK, TermTypeOK, commit_vars, log_vars
<1>6. CASE ignore(n, m)
  BY <1>1, <1>6, <1>3 DEF ignore, TypeOK, TermTypeOK, commit_vars, log_vars
<1> QED
  BY <1>4, <1>5, <1>6 DEF handle_append_entries

LEMMA RefuseType ==
  ASSUME TypeOK, NEW n \in Node, NEW m \in Message, refuse(n, m)
  PROVE  TypeOK'
<1>1. sent' \subseteq Message \X Node
  BY RejectType DEF refuse
<1> QED
  BY <1>1 DEF refuse, reject, TypeOK, term_vars, log_vars, commit_vars

LEMMA NackType ==
  ASSUME TypeOK, NEW n \in Node, NEW m \in Message, NEW to \in SUBSET Node,
         handle_nack(n, m, to)
  PROVE  TypeOK'
<1>1. /\ m.node \in Node /\ m.ix \in Nat
      /\ filled(myhist[n], m.ix)
      /\ recover(n, m.ix, to)
      /\ UNCHANGED <<term_vars, log_vars, commit_vars, my_repliers, heard>>
  BY MessageType, IndicesAssumption DEF handle_nack
<1>2. appentry(n, nter[n], myhist[n], m.ix, TRUE) \in Message
  BY <1>1, AppendMessage DEF TypeOK
<1>3. sent' \subseteq Message \X Node
  BY <1>1, <1>2, SendType DEF recover, TypeOK
<1> QED
  BY <1>1, <1>3 DEF TypeOK, term_vars, log_vars, commit_vars

\* What is reported when entries are committed are values.
LEMMA ReportType ==
  ASSUME TypeOK, NEW n \in Node, NEW ix \in Nat, filled(myhist[n], ix), commited[n] <= ix
  PROVE  report_commits(n, commited[n], ix) \in Seq(Value)
<1>1. /\ ix + 1 - commited[n] \in Nat /\ commited[n] \in Nat
      /\ ix < Len(myhist[n]) /\ Len(myhist[n]) \in Nat
      /\ myhist[n] \in History
  BY DEF TypeOK, filled, History
<1>2. ASSUME NEW k \in 1 .. ix + 1 - commited[n]
      PROVE  valix(myhist[n], commited[n] + k - 1) \in Value
  <2>1. commited[n] + k - 1 \in Nat /\ filled(myhist[n], commited[n] + k - 1)
    BY <1>1 DEF filled
  <2> QED
    BY <1>1, <2>1, EntryType
<1>3. report_commits(n, commited[n], ix) \in [1 .. ix + 1 - commited[n] -> Value]
  BY <1>2 DEF report_commits
<1>4. \A q \in Nat : [1 .. q -> Value] \subseteq Seq(Value)
  OBVIOUS
<1> QED
  BY <1>1, <1>3, <1>4

LEMMA AppendedReplyType ==
  ASSUME TypeOK, NEW n \in Node, NEW m \in Message, NEW to \in SUBSET Node,
         handle_appended_reply_msg(n, m, to)
  PROVE  TypeOK'
<1>1. /\ m.node \in Node /\ m.ix \in Index /\ m.ix \in Nat
      /\ UNCHANGED <<term_vars, log_vars, heard>>
  BY MessageType, IndicesAssumption DEF handle_appended_reply_msg
<1>2. sent' \subseteq Message \X Node
  <2>1. CASE m.isrecover /\ filled(myhist[n], m.ix + 1)
    <3> DEFINE e == appentry(n, nter[n], myhist[n], m.ix + 1, TRUE)
    <3>1. /\ m.ix + 1 \in Nat /\ filled(myhist[n], m.ix + 1)
          /\ nter[n] \in Term /\ myhist[n] \in History
      BY <1>1, <2>1 DEF TypeOK
    <3>2. e \in Message
      BY <3>1, AppendMessage
    <3>3. sent' = sent \cup ({e} \X to)
      BY <2>1 DEF handle_appended_reply_msg, recover
    <3> HIDE DEF e
    <3> QED
      BY <1>1, <3>2, <3>3, SendType DEF TypeOK
  <2>2. CASE ~(m.isrecover /\ filled(myhist[n], m.ix + 1))
    BY <2>2 DEF handle_appended_reply_msg, TypeOK
  <2> QED
    BY <2>1, <2>2
<1>3. CASE ~counts(n, m)
  BY <1>1, <1>2, <1>3 DEF handle_appended_reply_msg, TypeOK, term_vars, log_vars, commit_vars
<1>4. CASE counts(n, m)
  <2>1. my_repliers' = [my_repliers EXCEPT ![n][m.ix] = @ \cup {m.node}]
    BY <1>4 DEF handle_appended_reply_msg
  <2>2. my_repliers' \in [Node -> [Index -> SUBSET Node]]
    BY <1>1, <2>1 DEF TypeOK
  <2>3. CASE UNCHANGED commit_vars
    BY <1>1, <1>2, <2>2, <2>3 DEF TypeOK, term_vars, log_vars, commit_vars
  <2>4. CASE commit(n, m.ix)
    <3>1. filled(myhist[n], m.ix) /\ commited[n] <= m.ix
      BY <1>4 DEF counts, logtix
    <3>2. report_commits(n, commited[n], m.ix) \in Seq(Value)
      BY <1>1, <3>1, ReportType
    <3>3. reported' \in [Node -> Seq(Value)]
      BY <2>4, <3>2 DEF commit, TypeOK
    <3>4. commited' \in [Node -> Nat]
      BY <1>1, <2>4 DEF commit, TypeOK
    <3>5. by' \subseteq Node \X Index \X Term \X SUBSET Node
      BY <1>1, <2>2, <2>4 DEF commit, TypeOK
    <3> QED
      BY <1>1, <1>2, <2>2, <3>3, <3>4, <3>5 DEF TypeOK, term_vars, log_vars
  <2> QED
    BY <1>4, <2>3, <2>4 DEF handle_appended_reply_msg
<1> QED
  BY <1>3, <1>4

\* Every step of the servers keeps the types.
LEMMA TypeStep == TypeOK /\ [AnyNext]_vars => TypeOK'
<1> SUFFICES ASSUME TypeOK, [AnyNext]_vars PROVE TypeOK'
  OBVIOUS
<1>1. CASE UNCHANGED vars
  BY <1>1 DEF TypeOK, vars, term_vars, log_vars, commit_vars
<1>2. ASSUME NEW to \in SUBSET Node, NEW n \in Node, NEW v \in Value,
             req_append_new_entry(n, v, to)
      PROVE  TypeOK'
  BY <1>2, ClientType
<1>3. ASSUME NEW n \in Node, timer(n) PROVE TypeOK'
  BY <1>3, TimerType
<1>4. ASSUME NEW to \in SUBSET Node, NEW s \in sent, receive(s[2], s[1], to) PROVE TypeOK'
  <2>1. s[1] \in Message /\ s[2] \in Node
    BY DEF TypeOK
  <2> QED
    BY <1>4, <2>1, AppendEntriesType, VotingType, AppendedReplyType, ElectionType,
       KeepaliveType, NackType, RefuseType DEF receive
<1> QED
  BY <1>1, <1>2, <1>3, <1>4 DEF AnyNext

\* The servers of raft.ivy send a new entry to everyone and a missing one to the
\* server that misses it.
LEMMA NextIsAny == TypeOK /\ [Next]_vars => [AnyNext]_vars
<1> SUFFICES ASSUME TypeOK, Next PROVE AnyNext
  OBVIOUS
<1>1. ASSUME NEW n \in Node, NEW v \in Value, req_append_new_entry(n, v, Node) PROVE AnyNext
  BY <1>1 DEF AnyNext
<1>2. ASSUME NEW n \in Node, timer(n) PROVE AnyNext
  BY <1>2 DEF AnyNext
<1>3. ASSUME NEW s \in sent, recv(s[2], s[1]) PROVE AnyNext
  <2>1. \E to \in SUBSET Node : receive(s[2], s[1], to)
    <3>1. s[1] \in Message
      BY DEF TypeOK
    <3>2. CASE \/ handle_appended_reply_msg(s[2], s[1], {s[1].node})
               \/ handle_nack(s[2], s[1], {s[1].node})
      <4>1. {s[1].node} \in SUBSET Node
        BY <3>1, <3>2, MessageType DEF handle_appended_reply_msg, handle_nack
      <4> QED
        BY <3>2, <4>1 DEF receive
    <3> QED
      BY <1>3, <3>2 DEF recv, receive
  <2> QED
    BY <2>1 DEF AnyNext
<1> QED
  BY <1>1, <1>2, <1>3 DEF Next

\* Every variable of raft.ivy's servers keeps its type.
THEOREM TypeCorrect == Spec => []TypeOK
  BY TypeInit, TypeStep, NextIsAny, PTL DEF Spec
-----------------------------------------------------------------------------
\* One leader per term.

\* A vote is a message of its kind.
LEMMA VoteMessage ==
  ASSUME TypeOK, NEW s \in sent, s[1].kind = "vtcandidate"
  PROVE  vote_cand_msg(s[1].node, s[1].term, s[1].cand)
<1>1. s[1] \in Message
  BY DEF TypeOK
<1>2. s[1] = vtcandidate(s[1].node, s[1].term, s[1].cand)
  BY <1>1 DEF Message, vtcandidate
<1> QED
  BY <1>2 DEF vote_cand_msg

\* Sending messages of other kinds casts no vote.
LEMMA NoVoteSent ==
  ASSUME NEW S, sent' = sent \cup S, \A s \in S : s[1].kind # "vtcandidate"
  PROVE  \A p, u, c : vote_cand_msg(p, u, c)' <=> vote_cand_msg(p, u, c)
  BY DEF vote_cand_msg, vtcandidate

\* Sending votes of n in t for c casts no other.
LEMMA OneVoteSent ==
  ASSUME NEW S, sent' = sent \cup S, NEW n, NEW t, NEW c,
         \A s \in S : s[1].kind = "vtcandidate" => s[1] = vtcandidate(n, t, c)
  PROVE  \A p, u, d : vote_cand_msg(p, u, d)' =>
            vote_cand_msg(p, u, d) \/ (p = n /\ u = t /\ d = c)
  BY DEF vote_cand_msg, vtcandidate

\* Votes stay.
LEMMA VotesStay ==
  ASSUME sent \subseteq sent'
  PROVE  \A p, u, c : vote_cand_msg(p, u, c) => vote_cand_msg(p, u, c)'
  BY DEF vote_cand_msg

\* A move to a term keeps the votes, whether or not n votes for c there, when
\* it was not there before, and counts only votes it has as its own.
LEMMA MoveKeepsVotes ==
  ASSUME TypeOK, VotesAreKept, NEW n \in Node, NEW t \in Term, NEW c \in Node,
         NEW Q \in SUBSET Node, move_to_term(n, t, Q), nter[n] <= t, sent \subseteq sent',
         \A p, u, d : vote_cand_msg(p, u, d)' =>
            vote_cand_msg(p, u, d) \/ (nter[n] < t /\ p = n /\ u = t /\ d = c),
         \A v \in Q : vote_cand_msg(v, t, n)'
  PROVE  VotesAreKept'
<1>1. /\ nter' = [nter EXCEPT ![n] = t]
      /\ my_voters' = [my_voters EXCEPT ![n] = Q]
      /\ UNCHANGED elected
  BY DEF move_to_term
<1>2. /\ nter \in [Node -> Int] /\ my_voters \in [Node -> SUBSET Node]
      /\ Term \subseteq Int
  <2>1. \A p \in Node : nter[p] \in Int
    BY InitialSegments DEF TypeOK
  <2> QED
    BY <2>1, InitialSegments DEF TypeOK
<1>3. \A p, u, d : vote_cand_msg(p, u, d) => vote_cand_msg(p, u, d)'
  BY VotesStay
<1>4. VoteOncePerTerm'
  <2> SUFFICES ASSUME NEW p \in Node, NEW u \in Term, NEW c1 \in Node, NEW c2 \in Node,
                      vote_cand_msg(p, u, c1)', vote_cand_msg(p, u, c2)'
               PROVE  c1 = c2
    BY DEF VoteOncePerTerm
  <2>1. \A d \in Node : vote_cand_msg(p, u, d) => u <= nter[p]
    BY DEF VotesAreKept, VotersHaveLeft
  <2>2. CASE nter[n] < t /\ p = n /\ u = t
    <3>1. \A d \in Node : ~vote_cand_msg(p, u, d)
      BY <1>2, <2>1, <2>2
    <3> QED
      BY <3>1
  <2>3. CASE ~(nter[n] < t /\ p = n /\ u = t)
    <3>1. vote_cand_msg(p, u, c1) /\ vote_cand_msg(p, u, c2)
      BY <2>3
    <3> QED
      BY <3>1 DEF VotesAreKept, VoteOncePerTerm
  <2> QED
    BY <2>2, <2>3
<1>5. VotersHaveLeft'
  <2> SUFFICES ASSUME NEW p \in Node, NEW u \in Term, NEW d \in Node,
                      vote_cand_msg(p, u, d)'
               PROVE  u <= nter'[p]
    BY DEF VotersHaveLeft
  <2>1. nter[p] <= nter'[p] /\ nter[p] \in Int /\ nter'[p] \in Int /\ u \in Int
    BY <1>1, <1>2
  <2>2. CASE vote_cand_msg(p, u, d)
    <3>1. u <= nter[p]
      BY <2>2 DEF VotesAreKept, VotersHaveLeft
    <3> QED
      BY <2>1, <3>1
  <2>3. CASE nter[n] < t /\ p = n /\ u = t
    BY <1>1, <1>2, <2>3
  <2> QED
    BY <2>2, <2>3
<1>6. VotersVoted'
  BY <1>1, <1>2, <1>3 DEF VotesAreKept, VotersVoted
<1>7. LeadersHaveVotes'
  BY <1>1, <1>3 DEF VotesAreKept, LeadersHaveVotes
<1> QED
  BY <1>4, <1>5, <1>6, <1>7 DEF VotesAreKept

\* A step that neither votes nor moves to a term keeps the votes.
LEMMA StayKeepsVotes ==
  ASSUME VotesAreKept, UNCHANGED <<nter, my_voters, elected>>,
         \A p, u, c : vote_cand_msg(p, u, c)' <=> vote_cand_msg(p, u, c)
  PROVE  VotesAreKept'
  BY DEF VotesAreKept, VoteOncePerTerm, VotersHaveLeft, VotersVoted, LeadersHaveVotes

LEMMA VotesInit == Init => VotesAreKept
  BY DEF Init, VotesAreKept, VoteOncePerTerm, VotersHaveLeft, VotersVoted, LeadersHaveVotes,
         vote_cand_msg

LEMMA TimerVotes ==
  ASSUME TypeOK, VotesAreKept, NEW n \in Node, timer(n)
  PROVE  VotesAreKept'
<1>1. CASE announce_candidacy(n)
  <2>1. PICK t \in Term : t = nter[n] + 1 + n
    BY <1>1 DEF announce_candidacy
  <2> DEFINE S == broadcast(request(n, t)) \cup unicast(vtcandidate(n, t, n), n)
  <2>2. move_to_term(n, t, {n}) /\ sent' = sent \cup S
    BY <1>1, <2>1 DEF announce_candidacy
  <2>3. nter[n] < t
    <3>1. nter[n] \in Term
      BY DEF TypeOK
    <3>2. n \in Nat
      BY SizeAssumption DEF Node
    <3>3. nter[n] \in Int
      BY <3>1, InitialSegments
    <3> QED
      BY <2>1, <3>2, <3>3
  <2>4. \A s \in S : s[1].kind = "vtcandidate" => s[1] = vtcandidate(n, t, n)
    BY DEF broadcast, unicast, request, rqvote, rqvotenolog
  <2>5. vote_cand_msg(n, t, n)'
    <3>1. <<vtcandidate(n, t, n), n>> \in sent'
      BY <2>2 DEF unicast
    <3> QED
      BY <3>1 DEF vote_cand_msg
  <2> HIDE DEF S
  <2>6. \A p, u, d : vote_cand_msg(p, u, d)' =>
            vote_cand_msg(p, u, d) \/ (p = n /\ u = t /\ d = n)
    BY <2>2, <2>4, OneVoteSent
  <2>7. sent \subseteq sent' /\ nter[n] <= t /\ {n} \in SUBSET Node
    BY <2>2, <2>3, InitialSegments DEF TypeOK
  <2> QED
    BY <2>2, <2>3, <2>5, <2>6, <2>7, MoveKeepsVotes
<1>2. CASE UNCHANGED <<term_vars, my_repliers, sent>>
  BY <1>2, StayKeepsVotes DEF term_vars, vote_cand_msg
<1>3. CASE sent' = sent \cup broadcast(keepalive(nter[n])) /\ UNCHANGED term_vars
  <2>1. \A s \in broadcast(keepalive(nter[n])) : s[1].kind # "vtcandidate"
    BY DEF broadcast, keepalive
  <2> QED
    BY <1>3, <2>1, NoVoteSent, StayKeepsVotes DEF term_vars
<1> QED
  BY <1>1, <1>2, <1>3 DEF timer

LEMMA VotingVotes ==
  ASSUME TypeOK, VotesAreKept, NEW n \in Node, NEW m \in Message,
         handle_rqst_vote(n, m) \/ handle_rqst_vote_nolog(n, m)
  PROVE  VotesAreKept'
<1> DEFINE t == m.term
           c == m.cand
           S == unicast(vtcandidate(n, t, c), c)
<1>1. /\ t \in Term /\ c \in Node
      /\ move_to_term(n, t, {})
      /\ sent' = sent \cup S
      /\ nter[n] < t
  BY MessageType DEF handle_rqst_vote, handle_rqst_vote_nolog, has_not_voted
<1>2. \A s \in S : s[1].kind = "vtcandidate" => s[1] = vtcandidate(n, t, c)
  BY DEF unicast
<1> HIDE DEF t, c, S
<1>3. \A p, u, d : vote_cand_msg(p, u, d)' =>
          vote_cand_msg(p, u, d) \/ (p = n /\ u = t /\ d = c)
  BY <1>1, <1>2, OneVoteSent
<1>4. sent \subseteq sent' /\ nter[n] <= t
  BY <1>1, InitialSegments DEF TypeOK
<1> QED
  BY <1>1, <1>3, <1>4, MoveKeepsVotes

LEMMA KeepaliveVotes ==
  ASSUME TypeOK, VotesAreKept, NEW n \in Node, NEW m \in Message, handle_keepalive(n, m)
  PROVE  VotesAreKept'
<1>1. m.term \in Term /\ UNCHANGED sent
  BY MessageType DEF handle_keepalive
<1>2. \A p, u, d : vote_cand_msg(p, u, d)' <=> vote_cand_msg(p, u, d)
  BY <1>1 DEF vote_cand_msg
<1>3. CASE nter[n] < m.term /\ move_to_term(n, m.term, {})
  <2>1. nter[n] <= m.term /\ sent \subseteq sent'
    BY <1>1, <1>3, InitialSegments DEF TypeOK
  <2> QED
    BY <1>1, <1>2, <1>3, <2>1, MoveKeepsVotes
<1>4. CASE UNCHANGED <<term_vars, my_repliers>>
  BY <1>2, <1>4, StayKeepsVotes DEF term_vars
<1> QED
  BY <1>3, <1>4 DEF handle_keepalive

\* The server that wins counts only votes of its term.
LEMMA ElectionVotes ==
  ASSUME TypeOK, VotesAreKept, NEW s \in sent, NEW n \in Node, handle_vote_cand_msg(n, s[1])
  PROVE  VotesAreKept'
<1> DEFINE v == s[1].node
           V == my_voters[n] \cup {v}
<1>1. /\ n = s[1].cand /\ nter[n] = s[1].term
      /\ my_voters' = [my_voters EXCEPT ![n] = V]
      /\ UNCHANGED <<nter, sent>>
      /\ s[1].kind = "vtcandidate"
  BY DEF handle_vote_cand_msg
<1>2. vote_cand_msg(v, nter[n], n)
  BY <1>1, VoteMessage
<1>3. \A w \in V : vote_cand_msg(w, nter[n], n)
  BY <1>2 DEF VotesAreKept, VotersVoted
<1>4. my_voters'[n] = V
  BY <1>1 DEF TypeOK
<1> HIDE DEF V, v
<1>5. \A p, u, d : vote_cand_msg(p, u, d)' <=> vote_cand_msg(p, u, d)
  BY <1>1 DEF vote_cand_msg
<1>6. VoteOncePerTerm' /\ VotersHaveLeft'
  BY <1>1, <1>5 DEF VotesAreKept, VoteOncePerTerm, VotersHaveLeft
<1>7. VotersVoted'
  BY <1>1, <1>3, <1>5 DEF VotesAreKept, VotersVoted, TypeOK
<1>8. LeadersHaveVotes'
  <2>1. CASE elected' = elected \cup {<<s[1].term, n, my_voters'[n]>>} /\ majority(my_voters'[n])
    <3>1. elected' = elected \cup {<<nter[n], n, V>>} /\ majority(V)
      BY <1>1, <1>4, <2>1
    <3> SUFFICES ASSUME NEW e \in elected'
                 PROVE  majority(e[3]) /\ \A w \in e[3] : vote_cand_msg(w, e[1], e[2])
      BY <1>5 DEF LeadersHaveVotes
    <3>2. CASE e \in elected
      BY <3>2 DEF VotesAreKept, LeadersHaveVotes
    <3>3. CASE e = <<nter[n], n, V>>
      BY <1>3, <3>1, <3>3
    <3> QED
      BY <3>1, <3>2, <3>3
  <2>2. CASE UNCHANGED elected
    BY <1>5, <2>2 DEF VotesAreKept, LeadersHaveVotes
  <2> QED
    BY <2>1, <2>2 DEF handle_vote_cand_msg
<1> QED
  BY <1>6, <1>7, <1>8 DEF VotesAreKept

\* A server that rejects an entry casts no vote.
LEMMA RejectVotes ==
  ASSUME NEW n, NEW m, reject(n, m)
  PROVE  \A p, u, c : vote_cand_msg(p, u, c)' <=> vote_cand_msg(p, u, c)
<1> DEFINE S == unicast(nack(m.term, n, m.ix - 1), m.node)
<1>1. sent' = sent \cup S
  BY DEF reject
<1>2. \A s \in S : s[1].kind # "vtcandidate"
  BY DEF unicast, nack
<1> HIDE DEF S
<1> QED
  BY <1>1, <1>2, NoVoteSent

LEMMA AppendEntriesVotes ==
  ASSUME TypeOK, VotesAreKept, NEW n \in Node, NEW m \in Message, handle_append_entries(n, m)
  PROVE  VotesAreKept'
<1>1. /\ m.term \in Term /\ nter[n] <= m.term /\ move_to_term(n, m.term, {})
      /\ store(n, m) \/ reject(n, m) \/ ignore(n, m)
  BY MessageType DEF handle_append_entries, accepts
<1>2. sent \subseteq sent' /\ \A p, u, d : vote_cand_msg(p, u, d)' <=> vote_cand_msg(p, u, d)
  <2>1. CASE store(n, m)
    <3> DEFINE S == unicast(enappeneded(m.term, n, m.ix, m.isrecover), m.node)
    <3>1. sent' = sent \cup S
      BY <2>1 DEF store
    <3>2. \A s \in S : s[1].kind # "vtcandidate"
      BY DEF unicast, enappeneded
    <3> HIDE DEF S
    <3> QED
      BY <3>1, <3>2, NoVoteSent
  <2>2. CASE reject(n, m)
    BY <2>2, RejectVotes DEF reject
  <2>3. CASE UNCHANGED sent
    BY <2>3 DEF vote_cand_msg
  <2> QED
    BY <1>1, <2>1, <2>2, <2>3 DEF ignore
<1> QED
  BY <1>1, <1>2, MoveKeepsVotes

\* A leader that recovers an entry casts no vote.
LEMMA RecoverVotes ==
  ASSUME NEW n, NEW ix, NEW to, recover(n, ix, to)
  PROVE  \A p, u, c : vote_cand_msg(p, u, c)' <=> vote_cand_msg(p, u, c)
<1> DEFINE S == {appentry(n, nter[n], myhist[n], ix, TRUE)} \X to
<1>1. sent' = sent \cup S
  BY DEF recover
<1>2. \A s \in S : s[1].kind # "vtcandidate"
  BY DEF appentry
<1> QED
  BY <1>1, <1>2, NoVoteSent

\* Neither do the client, a refused append, a rejected one and an acknowledgement.
LEMMA ReplicationVotes ==
  ASSUME TypeOK, VotesAreKept, NEW n \in Node, NEW to,
         \/ \E v \in Value : req_append_new_entry(n, v, to)
         \/ \E m \in Message :
              handle_nack(n, m, to) \/ handle_appended_reply_msg(n, m, to) \/ refuse(n, m)
  PROVE  VotesAreKept'
<1>1. UNCHANGED <<nter, my_voters, elected>>
  BY DEF req_append_new_entry, handle_nack, handle_appended_reply_msg, refuse, term_vars
<1>2. \A p, u, c : vote_cand_msg(p, u, c)' <=> vote_cand_msg(p, u, c)
  <2>1. ASSUME NEW v \in Value, req_append_new_entry(n, v, to)
        PROVE  \A p, u, c : vote_cand_msg(p, u, c)' <=> vote_cand_msg(p, u, c)
    <3> DEFINE h == append(myhist[n], nter[n], v)
               S == {appentry(n, nter[n], h, get_next_ix(myhist[n]), FALSE)} \X to
    <3>1. sent' = sent \cup S
      BY <2>1 DEF req_append_new_entry
    <3>2. \A s \in S : s[1].kind # "vtcandidate"
      BY DEF appentry
    <3> HIDE DEF S
    <3> QED
      BY <3>1, <3>2, NoVoteSent
  <2>2. ASSUME NEW m \in Message, handle_nack(n, m, to)
        PROVE  \A p, u, c : vote_cand_msg(p, u, c)' <=> vote_cand_msg(p, u, c)
    BY <2>2, RecoverVotes DEF handle_nack
  <2>3. ASSUME NEW m \in Message, handle_appended_reply_msg(n, m, to)
        PROVE  \A p, u, c : vote_cand_msg(p, u, c)' <=> vote_cand_msg(p, u, c)
    <3>1. CASE recover(n, m.ix + 1, to)
      BY <3>1, RecoverVotes
    <3>2. CASE UNCHANGED sent
      BY <3>2 DEF vote_cand_msg
    <3> QED
      BY <2>3, <3>1, <3>2 DEF handle_appended_reply_msg
  <2>4. ASSUME NEW m \in Message, refuse(n, m)
        PROVE  \A p, u, c : vote_cand_msg(p, u, c)' <=> vote_cand_msg(p, u, c)
    BY <2>4, RejectVotes DEF refuse
  <2> QED
    BY <2>1, <2>2, <2>3, <2>4
<1> QED
  BY <1>1, <1>2, StayKeepsVotes

\* Every step keeps what the servers know of votes.
LEMMA VotesStep == TypeOK /\ VotesAreKept /\ [AnyNext]_vars => VotesAreKept'
<1> SUFFICES ASSUME TypeOK, VotesAreKept, [AnyNext]_vars PROVE VotesAreKept'
  OBVIOUS
<1>1. CASE UNCHANGED vars
  BY <1>1, StayKeepsVotes DEF vars, term_vars, vote_cand_msg
<1>2. ASSUME NEW to, NEW n \in Node, NEW v \in Value, req_append_new_entry(n, v, to)
      PROVE  VotesAreKept'
  BY <1>2, ReplicationVotes
<1>3. ASSUME NEW n \in Node, timer(n) PROVE VotesAreKept'
  BY <1>3, TimerVotes
<1>4. ASSUME NEW to, NEW s \in sent, receive(s[2], s[1], to) PROVE VotesAreKept'
  <2>1. s[1] \in Message /\ s[2] \in Node
    BY DEF TypeOK
  <2> QED
    BY <1>4, <2>1, AppendEntriesVotes, VotingVotes, ReplicationVotes, ElectionVotes,
       KeepaliveVotes DEF receive
<1> QED
  BY <1>1, <1>2, <1>3, <1>4 DEF AnyNext

\* Votes are cast once in a term and counted in it only, whatever messages
\* arrive late or again.
THEOREM VotesInvariance == Spec => [](TypeOK /\ VotesAreKept)
  BY TypeInit, TypeStep, VotesInit, VotesStep, NextIsAny, PTL DEF Spec

\* Two leaders of a term would share a voter.
LEMMA VotesGiveOneLeader == TypeOK /\ VotesAreKept => OneLeaderPerTerm
<1> SUFFICES ASSUME TypeOK, VotesAreKept, NEW e1 \in elected, NEW e2 \in elected,
                    e1[1] = e2[1]
             PROVE  e1[2] = e2[2]
  BY DEF OneLeaderPerTerm
<1>1. /\ e1[1] \in Term /\ e1[2] \in Node /\ e2[2] \in Node
      /\ e1[3] \in SUBSET Node /\ e2[3] \in SUBSET Node
  BY DEF TypeOK
<1>2. e1[3] \in Majorities /\ e2[3] \in Majorities
  BY <1>1 DEF Majorities, VotesAreKept, LeadersHaveVotes
<1>3. PICK v : v \in e1[3] /\ v \in e2[3]
  BY <1>2, MajoritiesIntersect
<1>4. /\ v \in Node
      /\ vote_cand_msg(v, e1[1], e1[2]) /\ vote_cand_msg(v, e1[1], e2[2])
  BY <1>1, <1>3 DEF VotesAreKept, LeadersHaveVotes
<1> QED
  BY <1>1, <1>4 DEF VotesAreKept, VoteOncePerTerm

\* A term has at most one leader, for any cluster, although candidates may
\* choose the same term.
THEOREM OneLeader == Spec => []OneLeaderPerTerm
  BY VotesInvariance, VotesGiveOneLeader, PTL
-----------------------------------------------------------------------------
(***************************************************************************)
(* The logs.  The invariant is the one of object safetyproof in raft.ivy,  *)
(* said of the variables of Raft.  An entry at index ix is the element     *)
(* ix + 1 of a log.                                                        *)
(***************************************************************************)

\* Term t has a leader; n is it.
started(t) == \E e \in elected : e[1] = t
leads(n, t) == \E e \in elected : e[1] = t /\ e[2] = n

\* The first k entries of two logs are there and the same.
agree(h1, h2, k) ==
    k <= Len(h1) /\ k <= Len(h2) /\ \A j \in 1 .. k : h1[j] = h2[j]

\* A server leads the term it is in exactly if it was elected in it.  Leaders and
\* those who were voted for have been in the term.
LeadersLead == \A n \in Node : is_leader[n] <=> leads(n, nter[n])
LeadersWereThere == \A e \in elected : e[1] <= nter[e[2]]
CandidatesWereThere ==
    \A n, c \in Node, t \in Term : vote_cand_msg(n, t, c) => t <= nter[c]

Elections == LeadersLead /\ LeadersWereThere /\ CandidatesWereThere

\* term_hist has the logs of leaders only, and the log of a leader as it is.
LogsAreValid ==
    /\ \A n \in Node : myhist[n] \in valid
    /\ \A t \in Term : term_hist[t] \in valid
UnstartedIsEmpty == \A t \in Term : started(t) \/ term_hist[t] = <<>>
LeadersLog == \A n \in Node : is_leader[n] => myhist[n] = term_hist[nter[n]]

\* Every log, up to any of its entries, is what the leader of the entry's term had.
FollowsTerm ==
    \A h \in valid : \A k \in 1 .. Len(h) : agree(h, term_hist[h[k].logt], k)

\* No entry is of a later term than its log's leader, or its server, is in.
TermsOfTermHist ==
    \A t \in Term : \A k \in 1 .. Len(term_hist[t]) : term_hist[t][k].logt <= t
TermsOfLogs ==
    \A n \in Node : \A k \in 1 .. Len(myhist[n]) : myhist[n][k].logt <= nter[n]

Histories ==
    /\ LogsAreValid /\ UnstartedIsEmpty /\ LeadersLog
    /\ FollowsTerm /\ TermsOfTermHist /\ TermsOfLogs

\* What a candidate said of its log holds until its term has a leader.
request_holds(m) ==
    /\ m.term <= nter[m.cand]
    /\ m.kind = "rqvote" /\ nter[m.cand] = m.term /\ ~started(m.term) =>
         /\ Len(myhist[m.cand]) = m.ix + 1
         /\ get_logt(myhist[m.cand], m.ix) = m.logt
RequestsHold ==
    \A s \in sent : s[1].kind \in {"rqvote", "rqvotenolog"} => request_holds(s[1])

\* An append shows a part of the log of its term's leader.
append_holds(m) ==
    LET h == term_hist[m.term]
    IN  /\ leads(m.node, m.term)
        /\ m.ix < Len(h)
        /\ h[m.ix + 1] = [logt |-> m.logt, val |-> m.val]
        /\ m.ix # 0 => h[m.ix].logt = m.prevlogt
AppendsHold == \A s \in sent : s[1].kind = "appentry" => append_holds(s[1])

\* Only what is in the leader's log is acknowledged.
reply_holds(m) == m.ix < Len(term_hist[m.term]) /\ m.term <= nter[m.node]
RepliesHold == \A s \in sent : s[1].kind = "enappeneded" => reply_holds(s[1])

Messages == RequestsHold /\ AppendsHold /\ RepliesHold

\* Whoever acknowledged an entry that may be committed votes for candidates that
\* have it, which they keep until their term has a leader.
VotersAgree ==
    \A t \in Term, ix \in Index : choosable(t, ix) =>
        \A n, c \in Node, u \in Term :
            /\ strong_vote(n, t, ix) /\ t < u
            /\ vote_cand_msg(n, u, c) /\ nter[c] = u /\ ~started(u)
            => logtix(myhist[c], ix, t)

LogsAreKept == Elections /\ Histories /\ Messages /\ ChoosableIsKept /\ VotersAgree

LogInv == TypeOK /\ VotesAreKept /\ LogsAreKept
-----------------------------------------------------------------------------
(***************************************************************************)
(* Logs.                                                                   *)
(***************************************************************************)

\* The entries of a log.
LEMMA EntriesOf ==
  ASSUME NEW h \in History
  PROVE  /\ Len(h) \in Nat
         /\ \A k \in 1 .. Len(h) : h[k] \in Entry /\ h[k].logt \in Term /\ h[k].val \in Value
<1>1. h \in Seq(Entry)
  BY DEF History
<1>2. \A k \in 1 .. Len(h) : h[k] \in Entry
  BY <1>1
<1>3. \A e \in Entry : e.logt \in Term /\ e.val \in Value
  BY DEF Entry
<1> QED
  BY <1>1, <1>2, <1>3

\* Indices and terms are numbers.
LEMMA Numbers == Term \subseteq Nat /\ Index \subseteq Nat /\ Node \subseteq Nat
  BY TermsAssumption, IndicesAssumption, SizeAssumption DEF Node

\* Where an entry is, by its index and by its position.
LEMMA EntryAt ==
  ASSUME NEW h \in History, NEW ix \in Nat, NEW t
  PROVE  /\ filled(h, ix) <=> ix + 1 \in 1 .. Len(h)
         /\ logtix(h, ix, t) <=> (ix + 1 \in 1 .. Len(h) /\ h[ix + 1].logt = t)
  BY EntriesOf DEF filled, logtix

\* A log grows at its end.
LEMMA AppendGrows ==
  ASSUME NEW h \in History, NEW t \in Term, NEW v \in Value
  PROVE  /\ Len(append(h, t, v)) = Len(h) + 1
         /\ append(h, t, v)[Len(h) + 1] = [logt |-> t, val |-> v]
         /\ agree(h, append(h, t, v), Len(h))
<1>1. h \in Seq(Entry) /\ [logt |-> t, val |-> v] \in Entry
  BY DEF History, Entry
<1> QED
  BY <1>1 DEF append, agree

\* What is left of a log that is cut.
LEMMA StripKeeps ==
  ASSUME NEW h \in History, NEW ix \in Nat, ix <= Len(h)
  PROVE  Len(strip_from(h, ix)) = ix /\ agree(h, strip_from(h, ix), ix)
<1>1. h \in Seq(Entry)
  BY DEF History
<1> QED
  BY <1>1 DEF strip_from, agree

\* Agreeing is an equivalence that holds of shorter parts too.
LEMMA Agreeing ==
  ASSUME NEW h1, NEW h2, NEW h3, NEW k \in Nat, NEW j \in Nat, agree(h1, h2, k), agree(h2, h3, j)
  PROVE  /\ agree(h2, h1, k)
         /\ k <= j => agree(h1, h3, k)
         /\ j <= k => agree(h1, h3, j)
  BY DEF agree

\* Two logs with entries of one term at a position agree up to it.
LEMMA LogsAgree ==
  ASSUME TypeOK, FollowsTerm, NEW h1 \in valid, NEW h2 \in valid, NEW k \in 1 .. Len(h1),
         k \in 1 .. Len(h2), h1[k].logt = h2[k].logt
  PROVE  agree(h1, h2, k)
<1>1. agree(h1, term_hist[h1[k].logt], k) /\ agree(h2, term_hist[h1[k].logt], k)
  BY DEF FollowsTerm
<1>2. k \in Nat
  BY EntriesOf DEF TypeOK
<1> QED
  BY <1>1, <1>2 DEF agree

\* Logs that agree up to a position are the same, stripped from there on.
LEMMA AgreeingStrips ==
  ASSUME NEW h1 \in History, NEW h2 \in History, NEW k \in Nat, agree(h1, h2, k)
  PROVE  strip_from(h1, k) = strip_from(h2, k)
<1>1. h1 \in Seq(Entry) /\ h2 \in Seq(Entry)
  BY DEF History
<1> QED
  BY <1>1 DEF strip_from, agree

\* Logs match: what LogsMatch says follows from FollowsTerm.
LEMMA FollowersMatch == TypeOK /\ FollowsTerm => LogsMatch
<1> SUFFICES ASSUME TypeOK, FollowsTerm, NEW h1 \in valid, NEW h2 \in valid, NEW ix \in Index,
                    filled(h1, ix), filled(h2, ix), get_logt(h1, ix) = get_logt(h2, ix)
             PROVE  strip_from(h1, ix + 1) = strip_from(h2, ix + 1)
  BY DEF LogsMatch
<1>1. h1 \in History /\ h2 \in History /\ ix \in Nat /\ ix + 1 \in Nat
  BY Numbers DEF TypeOK
<1>2. ix + 1 \in 1 .. Len(h1) /\ ix + 1 \in 1 .. Len(h2) /\ h1[ix + 1].logt = h2[ix + 1].logt
  BY <1>1, EntryAt DEF get_logt
<1>3. agree(h1, h2, ix + 1)
  BY <1>2, LogsAgree
<1> QED
  BY <1>1, <1>3, AgreeingStrips
-----------------------------------------------------------------------------
(***************************************************************************)
(* What every step keeps.                                                  *)
(***************************************************************************)

\* Terms grow, and what was elected, sent and in the log of a leader remains.
Grows ==
    /\ \A n \in Node : nter[n] <= nter'[n]
    /\ elected \subseteq elected'
    /\ sent \subseteq sent'
    /\ \A t \in Term : agree(term_hist[t], term_hist'[t], Len(term_hist[t]))

\* Leaders stay leaders of their terms.
LEMMA LeadersStay ==
  ASSUME Grows
  PROVE  \A n, t : (leads(n, t) => leads(n, t)') /\ (started(t) => started(t)')
  BY DEF Grows, leads, started

LEMMA LeadsStarted == \A n, t : leads(n, t) => started(t)
  BY DEF leads, started

\* A term that has an entry of its own, or in its leader's log, has a leader.
LEMMA FilledIsStarted ==
  ASSUME TypeOK, UnstartedIsEmpty, NEW t \in Term, NEW k \in 1 .. Len(term_hist[t])
  PROVE  started(t)
<1>1. Len(<<>>) = 0
  OBVIOUS
<1> QED
  BY <1>1 DEF UnstartedIsEmpty

LEMMA EntryIsStarted ==
  ASSUME TypeOK, UnstartedIsEmpty, FollowsTerm, NEW h \in valid, NEW k \in 1 .. Len(h)
  PROVE  started(h[k].logt) /\ h[k].logt \in Term
<1>1. h \in History
  BY DEF TypeOK
<1>2. k \in Nat /\ h[k].logt \in Term /\ Len(term_hist[h[k].logt]) \in Nat
  BY <1>1, EntriesOf DEF TypeOK
<1>3. k \in 1 .. Len(term_hist[h[k].logt])
  BY <1>2 DEF FollowsTerm, agree
<1> QED
  BY <1>2, <1>3, FilledIsStarted

\* Leaders cannot be deposed by others in their term.
LEMMA OnlyLeader ==
  ASSUME TypeOK, VotesAreKept, NEW t, NEW n1, NEW n2, leads(n1, t), leads(n2, t)
  PROVE  n1 = n2
  BY VotesGiveOneLeader DEF OneLeaderPerTerm, leads
-----------------------------------------------------------------------------
(***************************************************************************)
(* Elections.                                                              *)
(***************************************************************************)

\* A server that moves to a later term, or to its own as no leader, changes who
\* leads nothing: it was not elected in a term it has not been in.
LEMMA MoveElections ==
  ASSUME TypeOK, Elections, NEW n \in Node, NEW t \in Term, NEW c \in Node,
         NEW Q \in SUBSET Node, move_to_term(n, t, Q),
         nter[n] < t \/ (nter[n] = t /\ ~is_leader[n]),
         \A p, u, d : vote_cand_msg(p, u, d)' =>
            vote_cand_msg(p, u, d) \/ (u = t /\ d = c /\ t <= nter'[c])
  PROVE  Elections'
<1>1. /\ nter' = [nter EXCEPT ![n] = t]
      /\ is_leader' = [is_leader EXCEPT ![n] = FALSE]
      /\ UNCHANGED elected
  BY DEF move_to_term
<1>2. \A p, u : leads(p, u)' <=> leads(p, u)
  BY <1>1 DEF leads
<1>3. \A p \in Node : nter[p] \in Nat /\ nter'[p] \in Nat /\ nter[p] <= nter'[p]
  <2> SUFFICES ASSUME NEW p \in Node
               PROVE  nter[p] \in Nat /\ nter'[p] \in Nat /\ nter[p] <= nter'[p]
    OBVIOUS
  <2>1. nter[p] \in Nat /\ nter[n] \in Nat /\ t \in Nat
    BY Numbers DEF TypeOK
  <2>2. nter'[p] = IF p = n THEN t ELSE nter[p]
    BY <1>1 DEF TypeOK
  <2> QED
    BY <2>1, <2>2
<1>4. ~leads(n, t)
  <2>1. leads(n, t) => t <= nter[n]
    BY DEF Elections, LeadersWereThere, leads
  <2>2. CASE nter[n] < t
    BY <1>3, <2>1, <2>2, Numbers
  <2>3. CASE nter[n] = t /\ ~is_leader[n]
    BY <2>3 DEF Elections, LeadersLead
  <2> QED
    BY <2>2, <2>3
<1>5. LeadersLead'
  <2> SUFFICES ASSUME NEW p \in Node PROVE (is_leader[p] <=> leads(p, nter[p]))'
    BY DEF LeadersLead
  <2>1. CASE p = n
    <3>1. nter'[p] = t /\ is_leader'[p] = FALSE
      BY <1>1, <2>1 DEF TypeOK
    <3> QED
      BY <1>1, <1>4, <2>1, <3>1 DEF leads
  <2>2. CASE p # n
    <3>1. nter'[p] = nter[p] /\ is_leader'[p] = is_leader[p]
      BY <1>1, <2>2 DEF TypeOK
    <3>2. is_leader[p] <=> leads(p, nter[p])
      BY DEF Elections, LeadersLead
    <3> QED
      BY <1>1, <3>1, <3>2 DEF leads
  <2> QED
    BY <2>1, <2>2
<1>6. LeadersWereThere'
  <2> SUFFICES ASSUME NEW e \in elected PROVE e[1] <= nter'[e[2]]
    BY <1>1 DEF LeadersWereThere
  <2>1. e[1] \in Nat /\ e[2] \in Node /\ e[1] <= nter[e[2]]
    BY Numbers DEF TypeOK, Elections, LeadersWereThere
  <2> QED
    BY <1>3, <2>1
<1>7. CandidatesWereThere'
  <2> SUFFICES ASSUME NEW p \in Node, NEW d \in Node, NEW u \in Term, vote_cand_msg(p, u, d)'
               PROVE  u <= nter'[d]
    BY DEF CandidatesWereThere
  <2>1. CASE vote_cand_msg(p, u, d)
    <3>1. u <= nter[d] /\ u \in Nat
      BY <2>1, Numbers DEF Elections, CandidatesWereThere
    <3> QED
      BY <1>3, <3>1
  <2> QED
    BY <2>1
<1> QED
  BY <1>5, <1>6, <1>7 DEF Elections

\* Nor does a step that neither votes nor moves.
LEMMA StayElections ==
  ASSUME Elections, UNCHANGED <<nter, is_leader, elected>>,
         \A p, u, c : vote_cand_msg(p, u, c)' <=> vote_cand_msg(p, u, c)
  PROVE  Elections'
<1>1. \A p, u : leads(p, u)' <=> leads(p, u)
  BY DEF leads
<1> QED
  BY <1>1 DEF Elections, LeadersLead, LeadersWereThere, CandidatesWereThere

\* n, with the votes of V, becomes the leader of its term.
wins(n, V) ==
    /\ is_leader' = [is_leader EXCEPT ![n] = TRUE]
    /\ elected' = elected \cup {<<nter[n], n, V>>}
    /\ term_hist' = [term_hist EXCEPT ![nter[n]] = myhist[n]]
    /\ UNCHANGED <<nter, myhist, valid, sent>>

\* A server wins a term that has no leader yet.
LEMMA WinsFirst ==
  ASSUME TypeOK, TypeOK', VotesAreKept', LeadersLead, NEW n \in Node, NEW V, wins(n, V), ~is_leader[n]
  PROVE  ~started(nter[n])
<1> SUFFICES ASSUME NEW e \in elected, e[1] = nter[n] PROVE FALSE
  BY DEF started
<1>1. <<nter[n], n, V>> \in elected' /\ e \in elected'
  BY DEF wins
<1>2. OneLeaderPerTerm'
  BY VotesGiveOneLeader, PTL
<1>3. e[2] = n
  BY <1>1, <1>2 DEF OneLeaderPerTerm
<1> QED
  BY <1>3 DEF LeadersLead, leads

LEMMA WinElections ==
  ASSUME TypeOK, Elections, NEW n \in Node, NEW V, wins(n, V)
  PROVE  Elections'
<1>1. ASSUME NEW p \in Node PROVE leads(p, nter[p])' <=> (leads(p, nter[p]) \/ p = n)
  <2>1. nter'[p] = nter[p]
    BY DEF wins
  <2>2. (\E e \in elected' : e[1] = nter[p] /\ e[2] = p) <=> (leads(p, nter[p]) \/ p = n)
    <3> DEFINE w == <<nter[n], n, V>>
    <3>1. elected' = elected \cup {w} /\ w[1] = nter[n] /\ w[2] = n
      BY DEF wins
    <3> HIDE DEF w
    <3> QED
      BY <3>1 DEF leads
  <2> QED
    BY <2>1, <2>2 DEF leads
<1>2. \A p \in Node : is_leader'[p] <=> is_leader[p] \/ p = n
  BY DEF wins, TypeOK
<1>3. LeadersLead'
  <2> SUFFICES ASSUME NEW p \in Node PROVE (is_leader[p] <=> leads(p, nter[p]))'
    BY DEF LeadersLead
  <2>1. is_leader[p] <=> leads(p, nter[p])
    BY DEF Elections, LeadersLead
  <2> QED
    BY <1>1, <1>2, <2>1
<1>4. LeadersWereThere'
  <2>1. nter[n] \in Nat
    BY Numbers DEF TypeOK
  <2>2. nter[n] <= nter[n]
    BY <2>1
  <2> QED
    BY <2>2 DEF wins, Elections, LeadersWereThere
<1>5. CandidatesWereThere'
  BY DEF wins, Elections, CandidatesWereThere, vote_cand_msg
<1> QED
  BY <1>3, <1>4, <1>5 DEF Elections
-----------------------------------------------------------------------------
(***************************************************************************)
(* Histories.                                                              *)
(***************************************************************************)

\* Steps that leave the logs alone: terms grow, and leaders stay in theirs.
LEMMA StayHistories ==
  ASSUME TypeOK, TypeOK', Histories, UNCHANGED <<log_vars, elected>>,
         \A p \in Node : nter[p] <= nter'[p],
         \A p \in Node : is_leader'[p] => is_leader[p] /\ nter'[p] = nter[p]
  PROVE  Histories'
<1> USE DEF Histories, log_vars
<1>1. LogsAreValid' /\ LeadersLog' /\ UnstartedIsEmpty'
  BY DEF LogsAreValid, LeadersLog, UnstartedIsEmpty, started
<1>2. FollowsTerm' /\ TermsOfTermHist'
  BY DEF FollowsTerm, TermsOfTermHist
<1>3. TermsOfLogs'
  <2> SUFFICES ASSUME NEW p \in Node, NEW k \in 1 .. Len(myhist[p])
               PROVE  myhist[p][k].logt <= nter'[p]
    BY DEF TermsOfLogs
  <2>1. myhist[p][k].logt <= nter[p] /\ nter[p] <= nter'[p]
    BY DEF TermsOfLogs
  <2>2. myhist[p][k].logt \in Nat /\ nter[p] \in Nat /\ nter'[p] \in Nat
    BY EntriesOf, Numbers DEF TypeOK
  <2> QED
    BY <2>1, <2>2
<1> QED
  BY <1>1, <1>2, <1>3

\* The new leader's log becomes the one of its term, which had none.
LEMMA WinHistories ==
  ASSUME TypeOK, Histories, Elections, NEW n \in Node, NEW V, wins(n, V), ~started(nter[n])
  PROVE  Histories'
<1> DEFINE t == nter[n]
<1>0. \A u : started(u)' <=> (started(u) \/ u = t)
  <2> DEFINE w == <<t, n, V>>
  <2>1. elected' = elected \cup {w} /\ w[1] = t
    BY DEF wins
  <2> HIDE DEF w, t
  <2> QED
    BY <2>1 DEF started
<1>1. /\ t \in Term /\ term_hist'[t] = myhist[n]
      /\ \A u \in Term : u # t => term_hist'[u] = term_hist[u]
      /\ myhist' = myhist /\ valid' = valid /\ nter' = nter
  BY DEF TypeOK, wins
<1>2. LogsAreValid'
  BY <1>1 DEF Histories, LogsAreValid
<1>3. UnstartedIsEmpty'
  BY <1>0, <1>1 DEF Histories, UnstartedIsEmpty
<1>4. LeadersLog'
  <2> SUFFICES ASSUME NEW p \in Node, is_leader'[p]
               PROVE  myhist[p] = term_hist'[nter[p]]
    BY <1>1 DEF LeadersLog
  <2>1. CASE p = n
    BY <1>1, <2>1
  <2>2. CASE p # n
    <3>1. is_leader[p]
      BY <2>2 DEF wins, TypeOK
    <3>2. started(nter[p])
      BY <3>1 DEF Elections, LeadersLead, leads, started
    <3> QED
      BY <1>1, <3>1, <3>2 DEF Histories, LeadersLog, TypeOK
  <2> QED
    BY <2>1, <2>2
<1>5. FollowsTerm'
  <2> SUFFICES ASSUME NEW h \in valid, NEW k \in 1 .. Len(h)
               PROVE  agree(h, term_hist'[h[k].logt], k)
    BY <1>1 DEF FollowsTerm
  <2>1. started(h[k].logt) /\ h[k].logt \in Term
    BY EntryIsStarted DEF Histories
  <2>2. agree(h, term_hist[h[k].logt], k)
    BY DEF Histories, FollowsTerm
  <2> QED
    BY <1>1, <2>1, <2>2
<1>6. TermsOfTermHist' /\ TermsOfLogs'
  BY <1>1 DEF Histories, TermsOfTermHist, TermsOfLogs
<1> QED
  BY <1>2, <1>3, <1>4, <1>5, <1>6 DEF Histories

\* A leader appends to its log, which is the one of its term.
LEMMA ClientGrows ==
  ASSUME TypeOK, Histories, NEW n \in Node, NEW v \in Value, NEW to,
         req_append_new_entry(n, v, to)
  PROVE  LET h == append(myhist[n], nter[n], v)
         IN  /\ is_leader[n] /\ nter[n] \in Term /\ myhist[n] = term_hist[nter[n]]
             /\ myhist' = [myhist EXCEPT ![n] = h]
             /\ valid' = valid \cup {h}
             /\ term_hist' = [term_hist EXCEPT ![nter[n]] = h]
             /\ UNCHANGED term_vars
             /\ Len(h) = Len(myhist[n]) + 1
             /\ h[Len(h)] = [logt |-> nter[n], val |-> v]
             /\ agree(myhist[n], h, Len(myhist[n]))
             /\ Grows
<1> DEFINE h == append(myhist[n], nter[n], v)
<1>1. /\ is_leader[n] /\ myhist' = [myhist EXCEPT ![n] = h] /\ valid' = valid \cup {h}
      /\ term_hist' = [term_hist EXCEPT ![nter[n]] = h] /\ UNCHANGED term_vars
      /\ sent \subseteq sent'
  BY DEF req_append_new_entry
<1>2. nter[n] \in Term /\ myhist[n] \in History /\ myhist[n] = term_hist[nter[n]]
  BY <1>1 DEF TypeOK, Histories, LeadersLog
<1>3. /\ Len(h) = Len(myhist[n]) + 1
      /\ h[Len(myhist[n]) + 1] = [logt |-> nter[n], val |-> v]
      /\ agree(myhist[n], h, Len(myhist[n]))
  BY <1>2, AppendGrows
<1> HIDE DEF h
<1>4. ASSUME NEW t \in Term PROVE agree(term_hist[t], term_hist'[t], Len(term_hist[t]))
  <2>1. term_hist[t] \in History /\ Len(term_hist[t]) \in Nat
    BY EntriesOf DEF TypeOK
  <2>2. CASE t = nter[n]
    BY <1>1, <1>2, <1>3, <2>2 DEF TypeOK
  <2>3. CASE t # nter[n]
    BY <1>1, <2>1, <2>3 DEF TypeOK, agree
  <2> QED
    BY <2>2, <2>3
<1>5. \A p \in Node : nter[p] <= nter'[p]
  <2>1. \A p \in Node : nter[p] \in Nat
    BY Numbers DEF TypeOK
  <2> QED
    BY <1>1, <2>1 DEF term_vars
<1>6. Grows
  BY <1>1, <1>4, <1>5 DEF Grows, term_vars
<1> QED
  BY <1>1, <1>2, <1>3, <1>6 DEF h

LEMMA ClientHistories ==
  ASSUME TypeOK, VotesAreKept, Elections, Histories, NEW n \in Node, NEW v \in Value,
         NEW to, req_append_new_entry(n, v, to)
  PROVE  Histories'
<1> DEFINE t == nter[n]
           h == append(myhist[n], t, v)
<1>1. /\ is_leader[n] /\ t \in Term /\ myhist[n] = term_hist[t]
      /\ myhist' = [myhist EXCEPT ![n] = h]
      /\ valid' = valid \cup {h}
      /\ term_hist' = [term_hist EXCEPT ![t] = h]
      /\ UNCHANGED <<nter, is_leader, elected>>
      /\ Len(h) = Len(myhist[n]) + 1
      /\ h[Len(h)] = [logt |-> t, val |-> v]
      /\ agree(myhist[n], h, Len(myhist[n]))
      /\ Grows
  BY ClientGrows DEF term_vars
<1> HIDE DEF t, h
<1>2. /\ Len(myhist[n]) \in Nat /\ myhist[n] \in valid
      /\ \A k \in 1 .. Len(h) :
           \/ k \in 1 .. Len(myhist[n]) /\ h[k] = myhist[n][k]
           \/ k = Len(h) /\ h[k].logt = t
  BY <1>1, EntriesOf DEF TypeOK, agree, Histories, LogsAreValid
<1>3. LogsAreValid'
  BY <1>1 DEF Histories, LogsAreValid, TypeOK
<1>4. leads(n, t) /\ started(t)
  BY <1>1 DEF Elections, LeadersLead, leads, started, t
<1>5. UnstartedIsEmpty'
  BY <1>1, <1>4 DEF Histories, UnstartedIsEmpty, started, TypeOK
<1>6. LeadersLog'
  <2> SUFFICES ASSUME NEW p \in Node, is_leader[p] PROVE myhist'[p] = term_hist'[nter[p]]
    BY <1>1 DEF LeadersLog
  <2>1. CASE p = n
    BY <1>1, <2>1 DEF TypeOK, t
  <2>2. CASE p # n
    <3>1. nter[p] # t
      BY <1>4, <2>2, OnlyLeader DEF Elections, LeadersLead
    <3> QED
      BY <1>1, <2>2, <3>1 DEF Histories, LeadersLog, TypeOK
  <2> QED
    BY <2>1, <2>2
<1>7. FollowsTerm'
  <2> SUFFICES ASSUME NEW g \in valid', NEW k \in 1 .. Len(g)
               PROVE  agree(g, term_hist'[g[k].logt], k)
    BY DEF FollowsTerm
  <2>1. ASSUME NEW f \in valid, k \in 1 .. Len(f)
        PROVE  agree(f, term_hist'[f[k].logt], k)
    <3>1. agree(f, term_hist[f[k].logt], k)
      BY <2>1 DEF Histories, FollowsTerm
    <3>2. f[k].logt \in Term /\ k \in Nat
      BY <2>1, EntriesOf DEF TypeOK
    <3>3. /\ agree(term_hist[f[k].logt], term_hist'[f[k].logt], Len(term_hist[f[k].logt]))
          /\ Len(term_hist[f[k].logt]) \in Nat
      BY <1>1, <3>2, EntriesOf DEF TypeOK, Grows
    <3>4. k <= Len(term_hist[f[k].logt])
      BY <3>1 DEF agree
    <3> QED
      BY <3>1, <3>2, <3>3, <3>4, Agreeing
  <2>2. CASE g \in valid
    BY <2>1, <2>2
  <2>3. CASE g = h /\ k \in 1 .. Len(myhist[n]) /\ h[k] = myhist[n][k]
    <3>1. agree(myhist[n], term_hist'[h[k].logt], k)
      BY <1>2, <2>1, <2>3
    <3> QED
      BY <1>1, <1>2, <2>3, <3>1 DEF agree
  <2>4. CASE g = h /\ k = Len(h) /\ h[k].logt = t
    <3>1. term_hist'[t] = h
      BY <1>1 DEF TypeOK
    <3> QED
      BY <1>1, <1>2, <2>4, <3>1 DEF agree
  <2> QED
    BY <1>1, <1>2, <2>2, <2>3, <2>4
<1>8. \A k \in 1 .. Len(h) : h[k].logt <= t
  <2> SUFFICES ASSUME NEW k \in 1 .. Len(h) PROVE h[k].logt <= t
    OBVIOUS
  <2>1. CASE k \in 1 .. Len(myhist[n]) /\ h[k] = myhist[n][k]
    BY <2>1 DEF Histories, TermsOfLogs, t
  <2>2. CASE h[k].logt = t
    BY <1>1, <2>2, Numbers
  <2> QED
    BY <1>2, <2>1, <2>2
<1>9. TermsOfTermHist' /\ TermsOfLogs'
  BY <1>1, <1>8 DEF Histories, TermsOfTermHist, TermsOfLogs, TypeOK, t
<1> QED
  BY <1>3, <1>5, <1>6, <1>7, <1>9 DEF Histories

\* What a server stores is a part of the log of the term's leader.
LEMMA StoredLog ==
  ASSUME TypeOK, Histories, NEW n \in Node, NEW m \in Message, m.kind = "appentry",
         append_holds(m), has_previous(n, m)
  PROVE  LET h == append(strip_from(myhist[n], m.ix), m.logt, m.val)
         IN  /\ h \in History
             /\ Len(h) = m.ix + 1
             /\ agree(h, term_hist[m.term], m.ix + 1)
             /\ m.term \in Term /\ m.ix \in Nat /\ leads(m.node, m.term)
<1> DEFINE g == strip_from(myhist[n], m.ix)
           h == append(g, m.logt, m.val)
           e == term_hist[m.term]
<1>1. /\ m.term \in Term /\ m.ix \in Index /\ m.ix \in Nat /\ m.logt \in Term /\ m.val \in Value
      /\ myhist[n] \in History /\ e \in History
  BY MessageType, Numbers DEF TypeOK
<1>2. /\ leads(m.node, m.term)
      /\ m.ix < Len(e)
      /\ e[m.ix + 1] = [logt |-> m.logt, val |-> m.val]
      /\ m.ix # 0 => e[m.ix].logt = m.prevlogt
  BY DEF append_holds
<1>3. /\ Len(e) \in Nat /\ Len(myhist[n]) \in Nat
      /\ myhist[n] \in valid /\ e \in valid
  BY <1>1, EntriesOf DEF Histories, LogsAreValid
<1> HIDE DEF e
<1>4. m.ix <= Len(myhist[n]) /\ agree(myhist[n], e, m.ix)
  <2>1. CASE m.ix = 0
    BY <1>3, <2>1 DEF agree
  <2>2. CASE m.ix # 0
    <3>1. m.ix - 1 \in Nat /\ logtix(myhist[n], m.ix - 1, m.prevlogt) /\ m.ix - 1 + 1 = m.ix
      BY <1>1, <2>2 DEF has_previous
    <3>2. m.ix \in 1 .. Len(myhist[n]) /\ myhist[n][m.ix].logt = m.prevlogt
      BY <1>1, <3>1, EntryAt
    <3>3. m.ix \in 1 .. Len(e) /\ e[m.ix].logt = m.prevlogt
      BY <1>1, <1>2, <1>3, <2>2
    <3>4. agree(myhist[n], e, m.ix)
      BY <1>3, <3>2, <3>3, LogsAgree DEF Histories
    <3> QED
      BY <3>2, <3>4
  <2> QED
    BY <2>1, <2>2
<1>5. g \in History /\ Len(g) = m.ix /\ agree(myhist[n], g, m.ix)
  BY <1>1, <1>4, StripType, StripKeeps
<1> HIDE DEF g
<1>6. /\ h \in History
      /\ Len(h) = m.ix + 1
      /\ h[m.ix + 1] = [logt |-> m.logt, val |-> m.val]
      /\ agree(g, h, m.ix)
  BY <1>1, <1>5, AppendGrows, AppendType
<1> HIDE DEF h
<1>7. agree(h, e, m.ix)
  BY <1>1, <1>4, <1>5, <1>6 DEF agree
<1>8. agree(h, e, m.ix + 1)
  BY <1>1, <1>2, <1>3, <1>6, <1>7 DEF agree
<1> QED
  BY <1>1, <1>2, <1>6, <1>8 DEF h, g, e

LEMMA StoreHistories ==
  ASSUME TypeOK, TypeOK', Histories, NEW n \in Node, NEW m \in Message, m.kind = "appentry",
         append_holds(m), nter[n] <= m.term, move_to_term(n, m.term, {}), store(n, m)
  PROVE  Histories'
<1> DEFINE t == m.term
           h == append(strip_from(myhist[n], m.ix), m.logt, m.val)
           e == term_hist[t]
<1>1. /\ h \in History /\ Len(h) = m.ix + 1 /\ agree(h, e, m.ix + 1)
      /\ t \in Term /\ m.ix \in Nat
  BY StoredLog DEF store
<1>2. /\ nter' = [nter EXCEPT ![n] = t]
      /\ is_leader' = [is_leader EXCEPT ![n] = FALSE]
      /\ myhist' = [myhist EXCEPT ![n] = h]
      /\ valid' = valid \cup {h}
      /\ UNCHANGED <<elected, term_hist>>
  BY DEF move_to_term, store
<1> HIDE DEF h, t, e
<1>3. LogsAreValid'
  BY <1>2 DEF Histories, LogsAreValid, TypeOK
<1>4. UnstartedIsEmpty'
  BY <1>2 DEF Histories, UnstartedIsEmpty, started
<1>5. LeadersLog'
  <2> SUFFICES ASSUME NEW p \in Node, is_leader'[p] PROVE myhist'[p] = term_hist[nter'[p]]
    BY <1>2 DEF LeadersLog
  <2>1. p # n /\ is_leader[p]
    BY <1>2 DEF TypeOK
  <2> QED
    BY <1>2, <2>1 DEF Histories, LeadersLog, TypeOK
<1>6. \A k \in 1 .. Len(h) : k \in 1 .. Len(e) /\ h[k] = e[k] /\ agree(h, e, k)
  BY <1>1 DEF agree
<1>7. e \in valid
  BY <1>1 DEF Histories, LogsAreValid, e
<1>8. FollowsTerm'
  <2> SUFFICES ASSUME NEW g \in valid', NEW k \in 1 .. Len(g)
               PROVE  agree(g, term_hist[g[k].logt], k)
    BY <1>2 DEF FollowsTerm
  <2>1. CASE g \in valid
    BY <2>1 DEF Histories, FollowsTerm
  <2>2. CASE g = h
    <3>1. agree(e, term_hist[e[k].logt], k)
      BY <1>6, <1>7, <2>2 DEF Histories, FollowsTerm
    <3>2. agree(h, e, k) /\ h[k] = e[k] /\ k \in Nat
      BY <1>1, <1>6, <2>2
    <3> QED
      BY <2>2, <3>1, <3>2, Agreeing
  <2> QED
    BY <1>2, <2>1, <2>2
<1>9. TermsOfTermHist'
  BY <1>2 DEF Histories, TermsOfTermHist
<1>10. TermsOfLogs'
  <2> SUFFICES ASSUME NEW p \in Node, NEW k \in 1 .. Len(myhist'[p])
               PROVE  myhist'[p][k].logt <= nter'[p]
    BY DEF TermsOfLogs
  <2>1. CASE p = n
    <3>1. myhist'[p] = h /\ nter'[p] = t
      BY <1>2, <2>1 DEF TypeOK
    <3> QED
      BY <1>1, <1>6, <3>1 DEF Histories, TermsOfTermHist, e
  <2>2. CASE p # n
    BY <1>2, <2>2 DEF Histories, TermsOfLogs, TypeOK
  <2> QED
    BY <2>1, <2>2
<1> QED
  BY <1>3, <1>4, <1>5, <1>8, <1>9, <1>10 DEF Histories

-----------------------------------------------------------------------------
(***************************************************************************)
(* Messages.                                                               *)
(***************************************************************************)

\* An append stays true: the log of a leader grows at its end.
LEMMA AppendStays ==
  ASSUME TypeOK, TypeOK', Grows, NEW m \in Message, m.kind = "appentry", append_holds(m)
  PROVE  append_holds(m)'
<1> DEFINE h == term_hist[m.term]
           g == term_hist'[m.term]
<1>1. m.term \in Term /\ m.ix \in Nat /\ h \in History /\ g \in History
  BY MessageType, Numbers DEF TypeOK
<1>2. agree(h, g, Len(h)) /\ Len(h) \in Nat /\ Len(g) \in Nat
  BY <1>1, EntriesOf DEF Grows
<1>3. /\ m.ix < Len(h)
      /\ h[m.ix + 1] = [logt |-> m.logt, val |-> m.val]
      /\ m.ix # 0 => h[m.ix].logt = m.prevlogt
      /\ leads(m.node, m.term)'
  BY LeadersStay DEF append_holds
<1> HIDE DEF h, g
<1>4. m.ix < Len(g) /\ g[m.ix + 1] = h[m.ix + 1] /\ (m.ix # 0 => g[m.ix] = h[m.ix])
  BY <1>1, <1>2, <1>3 DEF agree
<1> QED
  BY <1>3, <1>4 DEF append_holds, g

\* So does an acknowledgement.
LEMMA ReplyStays ==
  ASSUME TypeOK, TypeOK', Grows, NEW m \in Message, m.kind = "enappeneded", reply_holds(m)
  PROVE  reply_holds(m)'
<1>1. /\ m.term \in Term /\ m.node \in Node /\ m.ix \in Nat /\ m.term \in Nat
      /\ nter[m.node] \in Nat /\ nter'[m.node] \in Nat
      /\ term_hist[m.term] \in History /\ term_hist'[m.term] \in History
  BY MessageType, Numbers DEF TypeOK
<1>2. Len(term_hist[m.term]) \in Nat /\ Len(term_hist'[m.term]) \in Nat
  BY <1>1, EntriesOf
<1>3. Len(term_hist[m.term]) <= Len(term_hist'[m.term]) /\ nter[m.node] <= nter'[m.node]
  BY <1>1, <1>2 DEF Grows, agree
<1> QED
  BY <1>1, <1>2, <1>3 DEF reply_holds

\* And what a candidate said of its log, which it changes in terms with a leader only.
LEMMA RequestStays ==
  ASSUME TypeOK, TypeOK', Grows, NEW m \in Message, m.kind \in {"rqvote", "rqvotenolog"},
         request_holds(m),
         \A c \in Node : myhist'[c] # myhist[c] => started(nter[c])'
  PROVE  request_holds(m)'
<1>1. /\ m.term \in Term /\ m.cand \in Node /\ m.term \in Nat
      /\ nter[m.cand] \in Nat /\ nter'[m.cand] \in Nat /\ nter[m.cand] <= nter'[m.cand]
  BY MessageType, Numbers DEF TypeOK, Grows
<1>2. m.term <= nter[m.cand]
  BY DEF request_holds
<1>3. m.term <= nter'[m.cand]
  BY <1>1, <1>2
<1>4. ASSUME m.kind = "rqvote", nter'[m.cand] = m.term, ~started(m.term)'
      PROVE  /\ Len(myhist'[m.cand]) = m.ix + 1
             /\ get_logt(myhist'[m.cand], m.ix) = m.logt
  <2>1. nter[m.cand] = m.term
    BY <1>1, <1>2, <1>4
  <2>2. ~started(m.term)
    BY <1>4, LeadersStay
  <2>3. ~started(nter[m.cand])'
    BY <1>4 DEF started
  <2>4. myhist'[m.cand] = myhist[m.cand]
    BY <1>1, <2>3
  <2> QED
    BY <1>4, <2>1, <2>2, <2>4 DEF request_holds
<1> QED
  BY <1>3, <1>4 DEF request_holds, get_logt

\* A step keeps the messages true if the ones it sends are.
LEMMA SendMessages ==
  ASSUME TypeOK, TypeOK', Grows, Messages, NEW S, sent' = sent \cup S,
         \A c \in Node : myhist'[c] # myhist[c] => started(nter[c])',
         \A s \in S : /\ s[1].kind = "appentry" => append_holds(s[1])'
                      /\ s[1].kind = "enappeneded" => reply_holds(s[1])'
                      /\ s[1].kind \in {"rqvote", "rqvotenolog"} => request_holds(s[1])'
  PROVE  Messages'
<1>1. \A s \in sent : s[1] \in Message
  BY DEF TypeOK
<1>2. AppendsHold'
  BY <1>1, AppendStays DEF Messages, AppendsHold
<1>3. RepliesHold'
  BY <1>1, ReplyStays DEF Messages, RepliesHold
<1>4. RequestsHold'
  BY <1>1, RequestStays DEF Messages, RequestsHold
<1> QED
  BY <1>2, <1>3, <1>4 DEF Messages

\* What a leader sends of its log is in the log of its term.
LEMMA LeaderAppends ==
  ASSUME TypeOK, Elections, Histories, NEW n \in Node, is_leader[n], NEW ix \in Nat,
         filled(myhist[n], ix), NEW r \in BOOLEAN
  PROVE  append_holds(appentry(n, nter[n], myhist[n], ix, r))
<1> DEFINE m == appentry(n, nter[n], myhist[n], ix, r)
           h == myhist[n]
<1>1. /\ m.node = n /\ m.term = nter[n] /\ m.ix = ix
      /\ m.logt = h[ix + 1].logt /\ m.val = h[ix + 1].val
      /\ m.prevlogt = IF ix = 0 THEN 0 ELSE h[ix - 1 + 1].logt
  BY DEF appentry, get_logt, valix
<1>2. h = term_hist[nter[n]] /\ leads(n, nter[n]) /\ h \in History
  BY DEF Histories, LeadersLog, Elections, LeadersLead, TypeOK
<1>3. ix < Len(h) /\ Len(h) \in Nat
  BY <1>2, EntriesOf DEF filled
<1>4. h[ix + 1] \in Entry
  BY <1>2, <1>3, EntriesOf
<1>5. h[ix + 1] = [logt |-> h[ix + 1].logt, val |-> h[ix + 1].val]
  BY <1>4 DEF Entry
<1> HIDE DEF m, h
<1>6. ix # 0 => h[ix].logt = m.prevlogt
  BY <1>1
<1>7. append_holds(m)
  BY <1>1, <1>2, <1>3, <1>5, <1>6 DEF append_holds
<1> QED
  BY <1>7 DEF m

-----------------------------------------------------------------------------
(***************************************************************************)
(* Entries that may be committed.                                          *)
(***************************************************************************)

\* Votes and acknowledgements are never taken back.
LEMMA StrongStays ==
  ASSUME Grows
  PROVE  \A p, t, ix : strong_vote(p, t, ix) => strong_vote(p, t, ix)'
  BY DEF Grows, strong_vote, appended_reply_msg

\* New strong votes are acknowledgements the step sends, or its new leaders.
LEMMA StrongIsOld ==
  ASSUME NEW S, sent' = sent \cup S, NEW p, NEW t, NEW ix, strong_vote(p, t, ix)'
  PROVE  \/ strong_vote(p, t, ix)
         \/ \E s \in S : s[1].kind = "enappeneded" /\ s[1].node = p /\ s[1].term = t /\ s[1].ix = ix
         \/ \E e \in elected' \ elected : e[1] = t /\ e[2] = p
<1>1. CASE \E e \in elected' : e[1] = t /\ e[2] = p
  BY <1>1 DEF strong_vote
<1>2. CASE \E s \in sent', r \in BOOLEAN : s[1] = enappeneded(t, p, ix, r)
  <2>1. PICK s \in sent', r \in BOOLEAN : s[1] = enappeneded(t, p, ix, r)
    BY <1>2
  <2>2. s[1].kind = "enappeneded" /\ s[1].node = p /\ s[1].term = t /\ s[1].ix = ix
    BY <2>1 DEF enappeneded
  <2>3. CASE s \in sent
    BY <2>1, <2>3 DEF strong_vote, appended_reply_msg
  <2>4. CASE s \in S
    BY <2>2, <2>4
  <2> QED
    BY <2>3, <2>4
<1> QED
  BY <1>1, <1>2 DEF strong_vote, appended_reply_msg

\* Whoever acknowledged in a term has been in it.
LEMMA StrongWereThere ==
  ASSUME TypeOK, LeadersWereThere, RepliesHold, NEW p \in Node, NEW t \in Term, NEW ix,
         strong_vote(p, t, ix)
  PROVE  t <= nter[p]
<1>1. CASE \E e \in elected : e[1] = t /\ e[2] = p
  BY <1>1 DEF LeadersWereThere
<1>2. CASE \E s \in sent, r \in BOOLEAN : s[1] = enappeneded(t, p, ix, r)
  <2>1. PICK s \in sent, r \in BOOLEAN : s[1] = enappeneded(t, p, ix, r)
    BY <1>2
  <2>2. s[1].kind = "enappeneded" /\ s[1].node = p /\ s[1].term = t
    BY <2>1 DEF enappeneded
  <2> QED
    BY <2>2 DEF RepliesHold, reply_holds
<1> QED
  BY <1>1, <1>2 DEF strong_vote, appended_reply_msg

\* It has acknowledged what is in the log of the term's leader, unless it leads.
LEMMA StrongInTermHist ==
  ASSUME RepliesHold, NEW p, NEW t, NEW ix, strong_vote(p, t, ix)
  PROVE  leads(p, t) \/ ix < Len(term_hist[t])
<1>1. CASE \E e \in elected : e[1] = t /\ e[2] = p
  BY <1>1 DEF leads
<1>2. CASE \E s \in sent, r \in BOOLEAN : s[1] = enappeneded(t, p, ix, r)
  <2>1. PICK s \in sent, r \in BOOLEAN : s[1] = enappeneded(t, p, ix, r)
    BY <1>2
  <2>2. s[1].kind = "enappeneded" /\ s[1].ix = ix /\ s[1].term = t
    BY <2>1 DEF enappeneded
  <2> QED
    BY <2>2 DEF RepliesHold, reply_holds
<1> QED
  BY <1>1, <1>2 DEF strong_vote, appended_reply_msg

\* A step that only lets servers move on, and acknowledge entries of their terms,
\* makes nothing choosable.
LEMMA ChoosableIsOld ==
  ASSUME TypeOK, TypeOK', Grows, NEW t \in Term, NEW ix \in Index, choosable(t, ix)',
         term_hist'[t] = term_hist[t],
         \A p \in Node : strong_vote(p, t, ix)' => strong_vote(p, t, ix) \/ nter[p] <= t
  PROVE  choosable(t, ix)
<1>1. PICK q \in Majorities : \A p \in q : strong_vote(p, t, ix)' \/ nter'[p] <= t
  BY DEF choosable
<1>2. ASSUME NEW p \in q PROVE strong_vote(p, t, ix) \/ nter[p] <= t
  <2>1. p \in Node
    BY DEF Majorities
  <2>2. CASE strong_vote(p, t, ix)'
    BY <2>1, <2>2
  <2>3. CASE nter'[p] <= t
    <3>1. nter[p] \in Nat /\ nter'[p] \in Nat /\ t \in Nat /\ nter[p] <= nter'[p]
      BY <2>1, Numbers DEF TypeOK, Grows
    <3> QED
      BY <2>3, <3>1
  <2> QED
    BY <1>1, <2>2, <2>3
<1>3. logtix(term_hist[t], ix, t)
  BY DEF choosable
<1> QED
  BY <1>2, <1>3 DEF choosable

\* What the votes said before the step stays true, if candidates change their
\* logs in terms with a leader only.
LEMMA VotersStillAgree ==
  ASSUME TypeOK, TypeOK', Grows, CandidatesWereThere, VotersAgree,
         NEW t \in Term, NEW ix \in Index, NEW p \in Node, NEW c \in Node, NEW u \in Term,
         choosable(t, ix), strong_vote(p, t, ix), t < u,
         vote_cand_msg(p, u, c), nter'[c] = u, ~started(u)',
         myhist'[c] # myhist[c] => started(u)'
  PROVE  logtix(myhist'[c], ix, t)
<1>1. u <= nter[c] /\ nter[c] <= nter'[c]
  BY DEF CandidatesWereThere, Grows
<1>2. nter[c] \in Nat /\ u \in Nat
  BY Numbers DEF TypeOK
<1>3. nter[c] = u
  BY <1>1, <1>2
<1>4. ~started(u)
  BY LeadersStay
<1> QED
  BY <1>3, <1>4 DEF VotersAgree

\* Terms never fall along a log.
LEMMA TermsAscend ==
  ASSUME TypeOK, Histories, NEW h \in valid, NEW k \in 1 .. Len(h), NEW j \in 1 .. Len(h), j <= k
  PROVE  h[j].logt <= h[k].logt
<1>1. h \in History /\ k \in Nat /\ j \in Nat
  BY EntriesOf DEF TypeOK
<1>2. h[k].logt \in Term /\ term_hist[h[k].logt] \in History
  BY <1>1, EntriesOf DEF TypeOK
<1>3. agree(h, term_hist[h[k].logt], k)
  BY DEF Histories, FollowsTerm
<1>4. Len(term_hist[h[k].logt]) \in Nat
  BY <1>2, EntriesOf
<1>5. j \in 1 .. Len(term_hist[h[k].logt]) /\ h[j] = term_hist[h[k].logt][j]
  BY <1>1, <1>3, <1>4 DEF agree
<1> QED
  BY <1>2, <1>5 DEF Histories, TermsOfTermHist

\* A candidate whose log is as good as the one of a server that has an entry that
\* may be committed has the entry.
LEMMA AsGoodHasIt ==
  ASSUME TypeOK, Histories, ChoosableIsKept, NEW t \in Term, NEW ix \in Index, choosable(t, ix),
         NEW h \in valid, logtix(h, ix, t), NEW g \in valid, 0 < Len(g),
         \/ h[Len(h)].logt < g[Len(g)].logt
         \/ h[Len(h)].logt = g[Len(g)].logt /\ Len(h) <= Len(g)
  PROVE  logtix(g, ix, t)
<1> DEFINE a == Len(h)
           b == Len(g)
           k == ix + 1
           A == h[a].logt
           B == g[b].logt
           f == term_hist[B]
<1>1. h \in History /\ g \in History /\ ix \in Nat /\ k \in Nat /\ a \in Nat /\ b \in Nat
  BY EntriesOf, Numbers DEF TypeOK
<1>2. k \in 1 .. a /\ h[k].logt = t /\ a \in 1 .. a /\ b \in 1 .. b
  BY <1>1, EntryAt
<1>3. A \in Term /\ B \in Term /\ t \in Nat /\ A \in Nat /\ B \in Nat
  BY <1>1, <1>2, EntriesOf, Numbers
<1>4. t <= A
  BY <1>2, TermsAscend
<1>5. f \in valid /\ f \in History /\ Len(f) \in Nat
  BY <1>3, EntriesOf DEF Histories, LogsAreValid, TypeOK
<1>6. agree(g, f, b)
  BY <1>2 DEF Histories, FollowsTerm
<1>7. CASE A = B /\ a <= b
  <2>1. agree(h, f, a)
    BY <1>2, <1>7 DEF Histories, FollowsTerm
  <2>2. k \in 1 .. b /\ g[k] = h[k]
    BY <1>1, <1>2, <1>6, <1>7, <2>1 DEF agree
  <2> QED
    BY <1>1, <1>2, <2>2, EntryAt
<1>8. CASE A < B
  <2>1. started(B) /\ t < B
    BY <1>2, <1>3, <1>4, <1>8, EntryIsStarted DEF Histories
  <2>2. logtix(f, ix, t)
    BY <2>1 DEF ChoosableIsKept, started
  <2>3. k \in 1 .. Len(f) /\ f[k].logt = t
    BY <1>1, <1>5, <2>2, EntryAt
  <2>4. b \in 1 .. Len(f) /\ f[b].logt = B
    BY <1>1, <1>2, <1>5, <1>6 DEF agree
  <2>5. ~(b <= k)
    <3> SUFFICES ASSUME b <= k PROVE FALSE
      OBVIOUS
    <3>1. B <= t
      BY <1>5, <2>3, <2>4, TermsAscend
    <3> QED
      BY <1>3, <2>1, <3>1
  <2>6. k \in 1 .. b /\ g[k] = f[k]
    BY <1>1, <1>2, <1>6, <2>5 DEF agree
  <2> QED
    BY <1>1, <2>3, <2>6, EntryAt
<1> QED
  BY <1>7, <1>8

\* Steps that leave the logs and the leaders alone keep what may be committed, if
\* they vote for candidates that have it.
LEMMA VotingKeeps ==
  ASSUME TypeOK, TypeOK', Grows, Elections, ChoosableIsKept, VotersAgree,
         UNCHANGED <<log_vars, elected>>,
         NEW S, sent' = sent \cup S, \A s \in S : s[1].kind # "enappeneded",
         \A p, c \in Node, u \in Term : vote_cand_msg(p, u, c)' =>
            \/ vote_cand_msg(p, u, c)
            \/ \A t \in Term, ix \in Index :
                 /\ choosable(t, ix) /\ logtix(myhist[p], ix, t)
                 /\ nter'[c] = u /\ ~started(u)
                 => logtix(myhist[c], ix, t)
  PROVE  ChoosableIsKept' /\ VotersAgree'
<1>1. myhist' = myhist /\ term_hist' = term_hist /\ elected' = elected
  BY DEF log_vars
<1>2. \A p, t, ix : strong_vote(p, t, ix)' => strong_vote(p, t, ix)
  <2>1. \A p, t, ix : appended_reply_msg(t, p, ix)' => appended_reply_msg(t, p, ix)
    BY DEF appended_reply_msg, enappeneded
  <2> QED
    BY <1>1, <2>1 DEF strong_vote
<1>3. \A t \in Term, ix \in Index : choosable(t, ix)' => choosable(t, ix)
  BY <1>1, <1>2, ChoosableIsOld
<1>4. ChoosableIsKept'
  BY <1>1, <1>2, <1>3 DEF ChoosableIsKept
<1>5. VotersAgree'
  <2> SUFFICES ASSUME NEW t \in Term, NEW ix \in Index, choosable(t, ix)',
                      NEW p \in Node, NEW c \in Node, NEW u \in Term,
                      strong_vote(p, t, ix)', t < u,
                      vote_cand_msg(p, u, c)', nter'[c] = u, ~started(u)'
               PROVE  logtix(myhist'[c], ix, t)
    BY DEF VotersAgree
  <2>1. choosable(t, ix) /\ strong_vote(p, t, ix) /\ ~started(u)
    BY <1>1, <1>2, <1>3 DEF started
  <2>2. CASE vote_cand_msg(p, u, c)
    BY <1>1, <2>1, <2>2, VotersStillAgree DEF Elections
  <2>3. CASE ~vote_cand_msg(p, u, c)
    <3>1. logtix(myhist[p], ix, t)
      BY <2>1 DEF ChoosableIsKept
    <3> QED
      BY <1>1, <2>1, <2>3, <3>1
  <2> QED
    BY <2>2, <2>3
<1> QED
  BY <1>4, <1>5

\* A server that stores what an append brings keeps what may be committed: the
\* leader of the append's term has it, and more is not replaced than need be.
LEMMA StoringKeeps ==
  ASSUME TypeOK, TypeOK', VotesAreKept, Grows, Elections, Histories, Messages,
         ChoosableIsKept, VotersAgree, NEW n \in Node, NEW m \in Message, m.kind = "appentry",
         append_holds(m), nter[n] <= m.term, move_to_term(n, m.term, {}), store(n, m)
  PROVE  ChoosableIsKept' /\ VotersAgree'
<1> DEFINE T == m.term
           i == m.ix
           h == append(strip_from(myhist[n], i), m.logt, m.val)
           e == term_hist[T]
           S == unicast(enappeneded(T, n, i, m.isrecover), m.node)
<1>1. h \in History /\ Len(h) = i + 1 /\ agree(h, e, i + 1)
  BY StoredLog DEF store
<1>2. /\ myhist' = [myhist EXCEPT ![n] = h] /\ term_hist' = term_hist /\ elected' = elected
      /\ sent' = sent \cup S /\ ~logtix(myhist[n], i, m.logt)
      /\ nter'[n] = T
  BY DEF store, move_to_term, TypeOK
<1>3. \A s \in S : s[1].kind = "enappeneded" /\ s[1].node = n /\ s[1].term = T /\ s[1].ix = i
  BY DEF unicast, enappeneded
<1>4. T \in Term /\ i \in Index /\ i \in Nat /\ T \in Nat /\ nter[n] \in Nat /\ started(T)
  BY MessageType, Numbers, LeadsStarted DEF append_holds, TypeOK
<1>5. e \in valid /\ e \in History /\ myhist[n] \in valid /\ myhist[n] \in History
      /\ Len(e) \in Nat
  BY <1>4, EntriesOf DEF Histories, LogsAreValid, TypeOK
<1> HIDE DEF h
<1>0. h[i + 1] = [logt |-> m.logt, val |-> m.val]
  BY <1>1, <1>4 DEF append_holds, agree
<1> HIDE DEF T, i, e, S
<1>6. ASSUME NEW p \in Node, NEW t \in Term, NEW ix \in Index, strong_vote(p, t, ix)'
      PROVE  strong_vote(p, t, ix) \/ (p = n /\ t = T /\ ix = i)
  BY <1>2, <1>3, <1>6, StrongIsOld
<1>7. \A t \in Term, ix \in Index : choosable(t, ix)' => choosable(t, ix)
  <2> SUFFICES ASSUME NEW t \in Term, NEW ix \in Index, choosable(t, ix)' PROVE choosable(t, ix)
    OBVIOUS
  <2>1. \A p \in Node : strong_vote(p, t, ix)' => strong_vote(p, t, ix) \/ nter[p] <= t
    BY <1>6 DEF T
  <2> QED
    BY <1>2, <2>1, ChoosableIsOld
<1>8. ASSUME NEW t \in Term, NEW ix \in Index, choosable(t, ix),
             strong_vote(n, t, ix) \/ t = T, strong_vote(n, t, ix)'
      PROVE  logtix(h, ix, t)
  <2>1. t \in Nat /\ ix \in Nat
    BY Numbers
  <2>2. t <= T
    <3>1. CASE t = T
      BY <1>4, <3>1
    <3>2. CASE strong_vote(n, t, ix)
      <4>1. t <= nter[n] /\ nter[n] <= T
        BY <3>2, StrongWereThere DEF Elections, Messages, T
      <4> QED
        BY <1>4, <2>1, <4>1
    <3> QED
      BY <1>8, <3>1, <3>2
  <2>3. logtix(e, ix, t)
    <3>1. CASE t = T
      BY <1>8, <3>1 DEF choosable, e
    <3>2. CASE t < T
      BY <1>4, <1>8, <3>2 DEF ChoosableIsKept, started, e
    <3> QED
      BY <1>4, <2>1, <2>2, <3>1, <3>2
  <2>4. ix + 1 \in 1 .. Len(e) /\ e[ix + 1].logt = t
    BY <1>5, <2>1, <2>3, EntryAt
  <2>5. CASE ix <= i
    <3>1. ix + 1 \in 1 .. Len(h) /\ h[ix + 1] = e[ix + 1]
      BY <1>1, <1>4, <2>1, <2>5 DEF agree
    <3> QED
      BY <1>1, <2>1, <2>4, <3>1, EntryAt
  <2>6. CASE strong_vote(n, t, ix) /\ i < ix
    <3>1. logtix(myhist[n], ix, t)
      BY <1>8, <2>6 DEF ChoosableIsKept
    <3>2. ix + 1 \in 1 .. Len(myhist[n]) /\ myhist[n][ix + 1].logt = t
      BY <1>5, <2>1, <3>1, EntryAt
    <3>3. agree(myhist[n], e, ix + 1)
      BY <1>5, <2>4, <3>2, LogsAgree DEF Histories
    <3>4. /\ i + 1 \in 1 .. Len(myhist[n]) /\ myhist[n][i + 1] = e[i + 1]
          /\ e[i + 1] = h[i + 1]
      BY <1>1, <1>4, <2>1, <2>6, <3>2, <3>3 DEF agree
    <3>5. logtix(myhist[n], i, m.logt)
      BY <1>0, <1>1, <1>4, <1>5, <3>4, EntryAt
    <3> QED
      BY <1>2, <3>5
  <2>7. CASE ~strong_vote(n, t, ix) /\ t = T
    <3>1. ix = i
      BY <1>6, <1>8, <2>7
    <3> QED
      BY <1>4, <2>5, <3>1
  <2> QED
    BY <1>4, <1>8, <2>1, <2>5, <2>6, <2>7
<1>9. ChoosableIsKept'
  <2> SUFFICES ASSUME NEW t \in Term, NEW ix \in Index, choosable(t, ix)'
               PROVE  /\ \A p \in Node : strong_vote(p, t, ix)' => logtix(myhist'[p], ix, t)
                      /\ \A d \in elected : d[1] > t => logtix(term_hist[d[1]], ix, t)
    BY <1>2 DEF ChoosableIsKept
  <2>1. choosable(t, ix)
    BY <1>7
  <2>2. ASSUME NEW p \in Node, strong_vote(p, t, ix)' PROVE logtix(myhist'[p], ix, t)
    <3>1. CASE p = n
      <4>1. strong_vote(n, t, ix) \/ t = T
        BY <1>6, <2>2, <3>1
      <4>2. logtix(h, ix, t)
        BY <1>8, <2>1, <2>2, <3>1, <4>1
      <4> QED
        BY <1>2, <3>1, <4>2 DEF TypeOK
    <3>2. CASE p # n
      <4>1. logtix(myhist[p], ix, t)
        BY <1>6, <2>1, <2>2, <3>2 DEF ChoosableIsKept
      <4> QED
        BY <1>2, <3>2, <4>1 DEF TypeOK
    <3> QED
      BY <3>1, <3>2
  <2>3. \A d \in elected : d[1] > t => logtix(term_hist[d[1]], ix, t)
    BY <2>1 DEF ChoosableIsKept
  <2> QED
    BY <2>2, <2>3
<1>10. VotersAgree'
  <2> SUFFICES ASSUME NEW t \in Term, NEW ix \in Index, choosable(t, ix)',
                      NEW p \in Node, NEW c \in Node, NEW u \in Term,
                      strong_vote(p, t, ix)', t < u,
                      vote_cand_msg(p, u, c)', nter'[c] = u, ~started(u)'
               PROVE  logtix(myhist'[c], ix, t)
    BY DEF VotersAgree
  <2>1. choosable(t, ix)
    BY <1>7
  <2>2. vote_cand_msg(p, u, c)
    BY <1>2, <1>3, NoVoteSent
  <2>3. t \in Nat /\ u \in Nat /\ nter[p] \in Nat
    BY Numbers DEF TypeOK
  <2>4. strong_vote(p, t, ix)
    <3>1. CASE p = n /\ t = T
      <4>1. u <= nter[n]
        BY <2>2, <3>1 DEF VotesAreKept, VotersHaveLeft
      <4> QED
        BY <1>4, <2>3, <3>1, <4>1 DEF T
    <3> QED
      BY <1>6, <3>1
  <2>5. myhist'[c] # myhist[c] => started(u)'
    <3>1. c # n => myhist'[c] = myhist[c]
      BY <1>2 DEF TypeOK
    <3>2. started(T)'
      BY <1>2, <1>4 DEF started
    <3> QED
      BY <1>2, <3>1, <3>2
  <2> QED
    BY <2>1, <2>2, <2>4, <2>5, VotersStillAgree DEF Elections
<1> QED
  BY <1>9, <1>10

\* A server that wins an election has every entry that may be committed: one of
\* its voters acknowledged it.
LEMMA WinningKeeps ==
  ASSUME TypeOK, TypeOK', VotesAreKept, VotesAreKept', Grows, Elections, Histories, Messages,
         ChoosableIsKept, VotersAgree, NEW n \in Node, NEW V \in SUBSET Node,
         wins(n, V), ~started(nter[n])
  PROVE  ChoosableIsKept' /\ VotersAgree'
<1> DEFINE T == nter[n]
           w == <<T, n, V>>
<1>1. /\ elected' = elected \cup {w} /\ w[1] = T /\ w[2] = n /\ w[3] = V /\ T \in Term
      /\ myhist' = myhist /\ valid' = valid /\ sent' = sent /\ nter' = nter
      /\ term_hist'[T] = myhist[n]
      /\ \A u \in Term : u # T => term_hist'[u] = term_hist[u]
  BY DEF wins, TypeOK
<1>2. \A e \in elected : e[1] \in Term /\ e[1] # T
  BY DEF started, TypeOK
<1>3. T \in Nat /\ ~started(T)
  BY <1>1, Numbers
<1>4. majority(V) /\ \A v \in V : vote_cand_msg(v, T, n)
  <2>1. w \in elected'
    BY <1>1
  <2>2. LeadersHaveVotes'
    BY DEF VotesAreKept
  <2>3. PICK e \in elected' : e = w
    BY <2>1
  <2>5. majority(e[3]) /\ \A v \in e[3] : vote_cand_msg(v, e[1], e[2])'
    BY <2>2 DEF LeadersHaveVotes
  <2>4. \A p, u, c : vote_cand_msg(p, u, c)' <=> vote_cand_msg(p, u, c)
    BY <1>1 DEF vote_cand_msg
  <2> HIDE DEF w, T
  <2> QED
    BY <1>1, <2>3, <2>4, <2>5
<1> HIDE DEF w, T
<1>5. \A p, t, ix : strong_vote(p, t, ix)' /\ t # T => strong_vote(p, t, ix)
  BY <1>1 DEF strong_vote, appended_reply_msg
<1>6. ASSUME NEW t \in Term, NEW ix \in Index, choosable(t, ix)'
      PROVE  t # T /\ choosable(t, ix)
  <2>1. t # T
    <3> SUFFICES ASSUME t = T PROVE FALSE
      OBVIOUS
    <3>1. logtix(myhist[n], ix, T)
      BY <1>1, <1>6 DEF choosable
    <3>2. ix + 1 \in 1 .. Len(myhist[n]) /\ myhist[n][ix + 1].logt = T
      BY <3>1, EntryAt, Numbers DEF TypeOK
    <3>3. myhist[n] \in valid
      BY DEF Histories, LogsAreValid
    <3> QED
      BY <1>3, <3>2, <3>3, EntryIsStarted DEF Histories
  <2> QED
    BY <1>1, <1>5, <1>6, <2>1, ChoosableIsOld
<1>7. ASSUME NEW t \in Term, NEW ix \in Index, choosable(t, ix), t < T
      PROVE  logtix(myhist[n], ix, t)
  <2>1. PICK q \in Majorities : \A p \in q : strong_vote(p, t, ix) \/ nter[p] <= t
    BY <1>7 DEF choosable
  <2>2. V \in Majorities
    BY <1>4 DEF Majorities
  <2>3. PICK v : v \in q /\ v \in V
    BY <2>1, <2>2, MajoritiesIntersect
  <2>4. v \in Node /\ vote_cand_msg(v, T, n)
    BY <1>4, <2>3
  <2>5. T <= nter[v] /\ nter[v] \in Nat /\ t \in Nat
    BY <1>1, <2>4, Numbers DEF VotesAreKept, VotersHaveLeft, TypeOK
  <2>6. strong_vote(v, t, ix)
    BY <1>3, <1>7, <2>1, <2>3, <2>5
  <2> QED
    BY <1>1, <1>3, <1>7, <2>4, <2>6 DEF VotersAgree, T
<1>8. ChoosableIsKept'
  <2> SUFFICES ASSUME NEW t \in Term, NEW ix \in Index, choosable(t, ix)'
               PROVE  /\ \A p \in Node : strong_vote(p, t, ix)' => logtix(myhist[p], ix, t)
                      /\ \A e \in elected' : e[1] > t => logtix(term_hist'[e[1]], ix, t)
    BY <1>1 DEF ChoosableIsKept
  <2>1. t # T /\ choosable(t, ix) /\ t \in Nat
    BY <1>6, Numbers
  <2>2. ASSUME NEW p \in Node, strong_vote(p, t, ix)' PROVE logtix(myhist[p], ix, t)
    BY <1>5, <2>1, <2>2 DEF ChoosableIsKept
  <2>3. ASSUME NEW e \in elected', e[1] > t PROVE logtix(term_hist'[e[1]], ix, t)
    <3>1. CASE e \in elected
      BY <1>1, <1>2, <2>1, <2>3, <3>1 DEF ChoosableIsKept
    <3>2. CASE e = w
      BY <1>1, <1>3, <1>7, <2>1, <2>3, <3>2
    <3> QED
      BY <1>1, <3>1, <3>2
  <2> QED
    BY <2>2, <2>3
<1>9. VotersAgree'
  <2> SUFFICES ASSUME NEW t \in Term, NEW ix \in Index, choosable(t, ix)',
                      NEW p \in Node, NEW c \in Node, NEW u \in Term,
                      strong_vote(p, t, ix)', t < u,
                      vote_cand_msg(p, u, c)', nter'[c] = u, ~started(u)'
               PROVE  logtix(myhist'[c], ix, t)
    BY DEF VotersAgree
  <2>1. choosable(t, ix) /\ strong_vote(p, t, ix)
    BY <1>5, <1>6
  <2>2. vote_cand_msg(p, u, c)
    BY <1>1 DEF vote_cand_msg
  <2> QED
    BY <1>1, <2>1, <2>2, VotersStillAgree DEF Elections
<1> QED
  BY <1>8, <1>9

\* A leader that appends makes at most its new entry choosable, which nobody else
\* has acknowledged and no leader of a later term can miss: there is none.
LEMMA ClientKeeps ==
  ASSUME TypeOK, TypeOK', VotesAreKept, Elections, Histories, Messages,
         ChoosableIsKept, VotersAgree, NEW n \in Node, NEW v \in Value, NEW to,
         req_append_new_entry(n, v, to)
  PROVE  ChoosableIsKept' /\ VotersAgree'
<1> DEFINE T == nter[n]
           g == myhist[n]
           h == append(g, T, v)
           S == {appentry(n, T, h, get_next_ix(g), FALSE)} \X to
<1>1. /\ is_leader[n] /\ T \in Term /\ g = term_hist[T]
      /\ myhist' = [myhist EXCEPT ![n] = h]
      /\ term_hist' = [term_hist EXCEPT ![T] = h]
      /\ nter' = nter /\ elected' = elected
      /\ Len(h) = Len(g) + 1
      /\ h[Len(h)] = [logt |-> T, val |-> v]
      /\ agree(g, h, Len(g))
      /\ Grows
  BY ClientGrows DEF term_vars
<1>2. sent' = sent \cup S /\ \A s \in S : s[1].kind = "appentry"
  BY DEF req_append_new_entry, appentry
<1> HIDE DEF S
<1>3. leads(n, T) /\ started(T)
  BY <1>1, LeadsStarted DEF Elections, LeadersLead, T
<1>4. /\ T \in Nat /\ g \in History /\ h \in History /\ Len(g) \in Nat
      /\ term_hist'[T] = h /\ myhist'[n] = h
  BY <1>1, Numbers, EntriesOf DEF TypeOK
<1> HIDE DEF h, g, T
<1>5. \A p, t, ix : strong_vote(p, t, ix)' => strong_vote(p, t, ix)
  BY <1>1, <1>2, StrongIsOld
<1>6. \A t : \A ix \in Nat : logtix(g, ix, t) => logtix(h, ix, t)
  BY <1>1, <1>4, EntryAt DEF agree
<1>7. ASSUME NEW t \in Term, NEW ix \in Index, logtix(term_hist[t], ix, t)
      PROVE  logtix(term_hist'[t], ix, t)
  BY <1>1, <1>6, <1>7, Numbers DEF TypeOK
<1>8. ASSUME NEW t \in Term, NEW ix \in Index, choosable(t, ix)'
      PROVE  choosable(t, ix) \/ (t = T /\ ix = Len(g))
  <2>1. logtix(term_hist'[t], ix, t)
    BY <1>8 DEF choosable
  <2>2. CASE logtix(term_hist[t], ix, t)
    <3>1. PICK q \in Majorities : \A p \in q : strong_vote(p, t, ix)' \/ nter'[p] <= t
      BY <1>8 DEF choosable
    <3> QED
      BY <1>1, <1>5, <2>2, <3>1 DEF choosable
  <2>3. CASE ~logtix(term_hist[t], ix, t)
    <3>1. t = T
      BY <1>1, <2>1, <2>3 DEF TypeOK
    <3>2. ix \in Nat /\ logtix(h, ix, T) /\ ~logtix(g, ix, T)
      BY <1>1, <1>4, <2>1, <2>3, <3>1, Numbers
    <3>3. ix + 1 \in 1 .. Len(g) + 1 /\ h[ix + 1].logt = T
      BY <1>1, <1>4, <3>2, EntryAt
    <3>4. ~(ix + 1 \in 1 .. Len(g))
      <4> SUFFICES ASSUME ix + 1 \in 1 .. Len(g) PROVE FALSE
        OBVIOUS
      <4>1. h[ix + 1] = g[ix + 1]
        BY <1>1, <1>4 DEF agree
      <4> QED
        BY <1>4, <3>2, <3>3, <4>1, EntryAt
    <3> QED
      BY <1>4, <3>1, <3>2, <3>3, <3>4
  <2> QED
    BY <2>2, <2>3
<1>9. \A p \in Node : strong_vote(p, T, Len(g)) => p = n
  <2> SUFFICES ASSUME NEW p \in Node, strong_vote(p, T, Len(g)) PROVE p = n
    OBVIOUS
  <2>1. leads(p, T) \/ Len(g) < Len(g)
    BY <1>1, StrongInTermHist DEF Messages
  <2>2. leads(p, T)
    BY <1>4, <2>1
  <2> QED
    BY <1>3, <2>2, OnlyLeader
<1>10. ASSUME NEW t \in Term, NEW ix \in Index, t = T, ix = Len(g), choosable(t, ix)'
       PROVE  \A e \in elected : ~(e[1] > t)
  <2> SUFFICES ASSUME NEW e \in elected, e[1] > t PROVE FALSE
    OBVIOUS
  <2>1. PICK q \in Majorities : \A p \in q : strong_vote(p, t, ix)' \/ nter'[p] <= t
    BY <1>10 DEF choosable
  <2>2. /\ e[1] \in Term /\ e[2] \in Node /\ e[3] \in Majorities
        /\ \A p \in e[3] : vote_cand_msg(p, e[1], e[2])
    BY DEF VotesAreKept, LeadersHaveVotes, Majorities, TypeOK
  <2>3. PICK p : p \in q /\ p \in e[3]
    BY <2>1, <2>2, MajoritiesIntersect
  <2>4. p \in Node /\ e[1] <= nter[p]
    BY <2>2, <2>3 DEF VotesAreKept, VotersHaveLeft, Majorities
  <2>5. nter[p] \in Nat /\ e[1] \in Nat /\ t \in Nat
    BY <2>2, <2>4, Numbers DEF TypeOK
  <2>6. ~(nter'[p] <= t)
    BY <1>1, <2>4, <2>5
  <2>7. strong_vote(p, t, ix)
    BY <1>5, <2>1, <2>3, <2>6
  <2>8. p = n
    BY <1>9, <1>10, <2>4, <2>7
  <2> QED
    BY <1>10, <2>4, <2>5, <2>8 DEF T
<1>11. ChoosableIsKept'
  <2> SUFFICES ASSUME NEW t \in Term, NEW ix \in Index, choosable(t, ix)'
               PROVE  /\ \A p \in Node : strong_vote(p, t, ix)' => logtix(myhist'[p], ix, t)
                      /\ \A e \in elected : e[1] > t => logtix(term_hist'[e[1]], ix, t)
    BY <1>1 DEF ChoosableIsKept
  <2>0. ix \in Nat
    BY Numbers
  <2>1. CASE choosable(t, ix)
    <3>1. ASSUME NEW p \in Node, strong_vote(p, t, ix)' PROVE logtix(myhist'[p], ix, t)
      <4>1. logtix(myhist[p], ix, t)
        BY <1>5, <2>1, <3>1 DEF ChoosableIsKept
      <4>2. CASE p = n
        BY <1>4, <1>6, <2>0, <4>1, <4>2 DEF g
      <4>3. CASE p # n
        BY <1>1, <4>1, <4>3 DEF TypeOK
      <4> QED
        BY <4>2, <4>3
    <3>2. ASSUME NEW e \in elected, e[1] > t PROVE logtix(term_hist'[e[1]], ix, t)
      <4>1. logtix(term_hist[e[1]], ix, t) /\ e[1] \in Term
        BY <2>1, <3>2 DEF ChoosableIsKept, TypeOK
      <4>2. CASE e[1] = T
        BY <1>1, <1>4, <1>6, <2>0, <4>1, <4>2
      <4>3. CASE e[1] # T
        BY <1>1, <4>1, <4>3 DEF TypeOK
      <4> QED
        BY <4>2, <4>3
    <3> QED
      BY <3>1, <3>2
  <2>2. CASE t = T /\ ix = Len(g)
    <3>1. logtix(h, ix, t)
      BY <1>1, <1>4, <2>0, <2>2, EntryAt
    <3>2. ASSUME NEW p \in Node, strong_vote(p, t, ix)' PROVE logtix(myhist'[p], ix, t)
      <4>1. p = n
        BY <1>5, <1>9, <2>2, <3>2
      <4> QED
        BY <1>4, <3>1, <4>1
    <3> QED
      BY <1>10, <2>2, <3>2
  <2> QED
    BY <1>8, <2>1, <2>2
<1>12. VotersAgree'
  <2> SUFFICES ASSUME NEW t \in Term, NEW ix \in Index, choosable(t, ix)',
                      NEW p \in Node, NEW c \in Node, NEW u \in Term,
                      strong_vote(p, t, ix)', t < u,
                      vote_cand_msg(p, u, c)', nter'[c] = u, ~started(u)'
               PROVE  logtix(myhist'[c], ix, t)
    BY DEF VotersAgree
  <2>1. vote_cand_msg(p, u, c) /\ strong_vote(p, t, ix)
    BY <1>2, <1>5, NoVoteSent
  <2>2. CASE choosable(t, ix)
    <3>1. myhist'[c] # myhist[c] => started(u)'
      <4>1. c # n => myhist'[c] = myhist[c]
        BY <1>1 DEF TypeOK
      <4>2. c = n => u = T
        BY <1>1 DEF T
      <4>3. u = T => started(u)'
        BY <1>1, <1>3 DEF started
      <4> QED
        BY <4>1, <4>2, <4>3
    <3> QED
      BY <1>1, <2>1, <2>2, <3>1, VotersStillAgree DEF Elections
  <2>3. CASE t = T /\ ix = Len(g)
    <3>1. p = n
      BY <1>9, <2>1, <2>3
    <3>2. u <= nter[n] /\ u \in Nat
      BY <2>1, <3>1, Numbers DEF VotesAreKept, VotersHaveLeft
    <3> QED
      BY <1>4, <2>3, <3>2 DEF T
  <2> QED
    BY <1>8, <2>2, <2>3
<1> QED
  BY <1>11, <1>12

-----------------------------------------------------------------------------
(***************************************************************************)
(* The steps.                                                              *)
(***************************************************************************)

LEMMA LogInit == Init => LogsAreKept
<1> SUFFICES ASSUME Init PROVE LogsAreKept
  OBVIOUS
<1>1. Len(<<>>) = 0 /\ 1 .. 0 = {}
  OBVIOUS
<1>2. \A n \in Node : myhist[n] = <<>> /\ is_leader[n] = FALSE
  BY DEF Init
<1>3. \A t \in Term : term_hist[t] = <<>>
  BY DEF Init
<1>4. valid = {<<>>} /\ elected = {} /\ sent = {}
  BY DEF Init
<1>5. Elections
  BY <1>2, <1>4 DEF Elections, LeadersLead, LeadersWereThere, CandidatesWereThere, leads,
                    vote_cand_msg
<1>6. Histories
  BY <1>1, <1>2, <1>3, <1>4 DEF Histories, LogsAreValid, UnstartedIsEmpty, LeadersLog,
                                FollowsTerm, TermsOfTermHist, TermsOfLogs
<1>7. Messages
  BY <1>4 DEF Messages, RequestsHold, AppendsHold, RepliesHold
<1>8. \A t \in Term, ix \in Index : ~choosable(t, ix)
  BY <1>1, <1>3, Numbers DEF choosable, logtix, filled
<1> QED
  BY <1>5, <1>6, <1>7, <1>8 DEF LogsAreKept, ChoosableIsKept, VotersAgree

\* A server that moves to a term keeps the logs, if it votes at most for a
\* candidate that has what it has itself and may be committed.
LEMMA MovingKeeps ==
  ASSUME LogInv, TypeOK', NEW n \in Node, NEW t \in Term, NEW c \in Node,
         NEW Q \in SUBSET Node, move_to_term(n, t, Q),
         nter[n] < t \/ (nter[n] = t /\ ~is_leader[n]),
         UNCHANGED log_vars, NEW S, sent' = sent \cup S,
         \A s \in S : s[1].kind \notin {"appentry", "enappeneded"},
         \A s \in S : s[1].kind \in {"rqvote", "rqvotenolog"} => request_holds(s[1])',
         \A s \in S : s[1].kind = "vtcandidate" =>
            /\ s[1] = vtcandidate(n, t, c)
            /\ t <= nter'[c]
            /\ \A u \in Term, ix \in Index :
                 choosable(u, ix) /\ logtix(myhist[n], ix, u) /\ nter'[c] = t /\ ~started(t) =>
                    logtix(myhist[c], ix, u)
  PROVE  LogsAreKept' /\ Grows
<1> USE DEF LogInv, LogsAreKept
<1>1. /\ nter' = [nter EXCEPT ![n] = t]
      /\ is_leader' = [is_leader EXCEPT ![n] = FALSE]
      /\ UNCHANGED <<elected, myhist, valid, term_hist>>
  BY DEF move_to_term, log_vars
<1>2. \A p \in Node : nter[p] <= nter'[p]
  <2> SUFFICES ASSUME NEW p \in Node PROVE nter[p] <= nter'[p]
    OBVIOUS
  <2>1. nter[p] \in Nat /\ nter[n] \in Nat /\ t \in Nat
    BY Numbers DEF TypeOK
  <2>2. nter'[p] = IF p = n THEN t ELSE nter[p]
    BY <1>1 DEF TypeOK
  <2> QED
    BY <2>1, <2>2
<1>3. Grows
  <2>1. \A u \in Term : Len(term_hist[u]) \in Nat
    BY EntriesOf DEF TypeOK
  <2> QED
    BY <1>1, <1>2, <2>1 DEF Grows, agree
<1>4. ASSUME NEW p, NEW u, NEW d, vote_cand_msg(p, u, d)', ~vote_cand_msg(p, u, d)
      PROVE  /\ p = n /\ u = t /\ d = c
             /\ \E s \in S : s[1].kind = "vtcandidate"
  <2>1. PICK s \in sent' : s[1] = vtcandidate(p, u, d)
    BY <1>4 DEF vote_cand_msg
  <2>2. s \in S /\ s[1].kind = "vtcandidate"
    BY <1>4, <2>1 DEF vote_cand_msg, vtcandidate
  <2>3. vtcandidate(p, u, d) = vtcandidate(n, t, c)
    BY <2>1, <2>2
  <2> QED
    BY <2>2, <2>3 DEF vtcandidate
<1>5. Elections'
  BY <1>4, MoveElections
<1>6. Histories'
  <2>1. \A p \in Node : is_leader'[p] => is_leader[p] /\ nter'[p] = nter[p]
    BY <1>1 DEF TypeOK
  <2> QED
    BY <1>1, <1>2, <2>1, StayHistories
<1>7. Messages'
  BY <1>1, <1>3, SendMessages
<1>8. ChoosableIsKept' /\ VotersAgree'
  <2>1. ASSUME NEW p \in Node, NEW d \in Node, NEW u \in Term, vote_cand_msg(p, u, d)',
               ~vote_cand_msg(p, u, d),
               NEW a \in Term, NEW ix \in Index, choosable(a, ix), logtix(myhist[p], ix, a),
               nter'[d] = u, ~started(u)
        PROVE  logtix(myhist[d], ix, a)
    BY <1>4, <2>1
  <2> QED
    BY <1>1, <1>3, <2>1, VotingKeeps
<1> QED
  BY <1>3, <1>5, <1>6, <1>7, <1>8

\* A server that stays in its term and sends at most true appends keeps the logs.
LEMMA StayingKeeps ==
  ASSUME LogInv, TypeOK', UNCHANGED <<nter, is_leader, elected, log_vars>>,
         NEW S, sent' = sent \cup S,
         \A s \in S : s[1].kind \in {"appentry", "keepalive", "nack"},
         \A s \in S : s[1].kind = "appentry" => append_holds(s[1])
  PROVE  LogsAreKept' /\ Grows
<1> USE DEF LogInv, LogsAreKept
<1>1. UNCHANGED <<nter, is_leader, elected, myhist, valid, term_hist>>
  BY DEF log_vars
<1>2. \A p \in Node : nter[p] <= nter'[p]
  <2>1. \A p \in Node : nter[p] \in Nat
    BY Numbers DEF TypeOK
  <2> QED
    BY <1>1, <2>1
<1>3. Grows
  <2>1. \A u \in Term : Len(term_hist[u]) \in Nat
    BY EntriesOf DEF TypeOK
  <2> QED
    BY <1>1, <1>2, <2>1 DEF Grows, agree
<1>4. \A p, u, d : vote_cand_msg(p, u, d)' <=> vote_cand_msg(p, u, d)
  BY NoVoteSent
<1>5. Elections'
  BY <1>1, <1>4, StayElections
<1>6. Histories'
  BY <1>1, <1>2, StayHistories
<1>7. Messages'
  <2>1. \A s \in S : s[1].kind = "appentry" => append_holds(s[1])'
    BY <1>1 DEF append_holds, leads
  <2> QED
    BY <1>1, <1>3, <2>1, SendMessages
<1>8. ChoosableIsKept' /\ VotersAgree'
  BY <1>1, <1>3, <1>4, VotingKeeps
<1> QED
  BY <1>3, <1>5, <1>6, <1>7, <1>8

LEMMA IdleKeeps ==
  ASSUME LogInv, TypeOK', UNCHANGED <<nter, is_leader, elected, log_vars, sent>>
  PROVE  LogsAreKept' /\ Grows
<1>1. PICK S : S = {}
  OBVIOUS
<1>2. sent' = sent \cup S
  BY <1>1
<1> QED
  BY <1>1, <1>2, StayingKeeps

LEMMA TimerKeeps ==
  ASSUME LogInv, TypeOK', NEW n \in Node, timer(n)
  PROVE  LogsAreKept' /\ Grows
<1>1. UNCHANGED log_vars
  BY DEF timer
<1>2. CASE announce_candidacy(n) /\ ~is_leader[n]
  <2>1. PICK t \in Term : t = nter[n] + 1 + n
    BY <1>2 DEF announce_candidacy
  <2>0. PICK r : r = request(n, t)
    OBVIOUS
  <2> DEFINE S == broadcast(r) \cup unicast(vtcandidate(n, t, n), n)
  <2>2. move_to_term(n, t, {n}) /\ sent' = sent \cup S
    BY <1>2, <2>0, <2>1 DEF announce_candidacy
  <2>3. nter[n] < t /\ nter'[n] = t /\ t <= t
    <3>1. nter[n] \in Nat /\ n \in Nat /\ t \in Nat
      BY Numbers DEF LogInv, TypeOK
    <3>2. nter[n] < t /\ t <= t
      BY <2>1, <3>1
    <3> QED
      BY <2>2, <3>2 DEF LogInv, TypeOK, move_to_term
  <2>4. /\ r.kind \in {"rqvote", "rqvotenolog"} /\ r.cand = n /\ r.term = t
        /\ r.kind = "rqvote" =>
             /\ filled(myhist[n], 0)
             /\ r.ix = Len(myhist[n]) - 1
             /\ r.logt = get_logt(myhist[n], r.ix)
    BY <2>0 DEF request, rqvote, rqvotenolog, get_next_ix
  <2>5. Len(myhist[n]) \in Nat /\ myhist'[n] = myhist[n]
    BY <1>1, EntriesOf DEF LogInv, TypeOK, log_vars
  <2>6. request_holds(r)'
    BY <2>3, <2>4, <2>5 DEF request_holds, get_logt
  <2>7. \A s \in S : s[1] = r \/ s[1] = vtcandidate(n, t, n)
    BY DEF broadcast, unicast
  <2>8. vtcandidate(n, t, n).kind = "vtcandidate"
    BY DEF vtcandidate
  <2> HIDE DEF S
  <2>9. \A s \in S : s[1].kind \in {"rqvote", "rqvotenolog", "vtcandidate"}
    BY <2>4, <2>7, <2>8
  <2>10. \A s \in S : s[1].kind \in {"rqvote", "rqvotenolog"} => request_holds(s[1])'
    BY <2>6, <2>7, <2>8
  <2>11. \A s \in S : s[1].kind = "vtcandidate" => s[1] = vtcandidate(n, t, n)
    BY <2>4, <2>7
  <2> QED
    BY <1>1, <1>2, <2>2, <2>3, <2>9, <2>10, <2>11, MovingKeeps
<1>3. CASE UNCHANGED <<term_vars, my_repliers, sent>>
  <2>1. UNCHANGED <<nter, is_leader, elected, sent>>
    BY <1>3 DEF term_vars
  <2> QED
    BY <1>1, <2>1, IdleKeeps
<1>4. CASE sent' = sent \cup broadcast(keepalive(nter[n])) /\ UNCHANGED <<term_vars, my_repliers>>
  <2>1. \A s \in broadcast(keepalive(nter[n])) : s[1].kind = "keepalive"
    BY DEF broadcast, keepalive
  <2>2. UNCHANGED <<nter, is_leader, elected>>
    BY <1>4 DEF term_vars
  <2> QED
    BY <1>1, <1>4, <2>1, <2>2, StayingKeeps
<1> QED
  BY <1>2, <1>3, <1>4 DEF timer

LEMMA KeepaliveKeeps ==
  ASSUME LogInv, TypeOK', NEW n \in Node, NEW m \in Message, handle_keepalive(n, m)
  PROVE  LogsAreKept' /\ Grows
<1>1. UNCHANGED <<log_vars, sent>> /\ sent' = sent \cup {} /\ m.term \in Term
  BY MessageType DEF handle_keepalive
<1>2. CASE nter[n] < m.term /\ move_to_term(n, m.term, {})
  BY <1>1, <1>2, MovingKeeps
<1>3. CASE UNCHANGED term_vars
  <2>1. UNCHANGED <<nter, is_leader, elected>>
    BY <1>3 DEF term_vars
  <2> QED
    BY <1>1, <2>1, IdleKeeps
<1> QED
  BY <1>2, <1>3 DEF handle_keepalive

\* The log of a candidate that is voted for is as good as the voter's.
LEMMA VoteIsForAsGood ==
  ASSUME LogInv, NEW n \in Node, NEW m \in Message, NEW u \in Term, NEW ix \in Index,
         handle_rqst_vote(n, m) \/ handle_rqst_vote_nolog(n, m),
         request_holds(m), nter[m.cand] = m.term, ~started(m.term),
         choosable(u, ix), logtix(myhist[n], ix, u)
  PROVE  logtix(myhist[m.cand], ix, u)
<1> DEFINE h == myhist[n]
           g == myhist[m.cand]
<1>1. m.kind \in {"rqvote", "rqvotenolog"} /\ m.cand \in Node
  BY MessageType DEF handle_rqst_vote, handle_rqst_vote_nolog
<1>2. h \in valid /\ g \in valid /\ h \in History /\ g \in History
  BY <1>1 DEF LogInv, LogsAreKept, TypeOK, Histories, LogsAreValid
<1>3. ix \in Nat /\ Len(h) \in Nat /\ Len(g) \in Nat
  BY <1>2, EntriesOf, Numbers
<1>4. ix + 1 \in 1 .. Len(h)
  BY <1>2, <1>3, EntryAt
<1>5. filled(h, 0)
  BY <1>3, <1>4 DEF filled
<1>6. handle_rqst_vote(n, m) /\ m.kind = "rqvote"
  BY <1>5 DEF handle_rqst_vote, handle_rqst_vote_nolog
<1>7. Len(g) = m.ix + 1 /\ g[m.ix + 1].logt = m.logt /\ m.ix \in Nat
  BY <1>6, Numbers DEF request_holds, get_logt, Message
<1>8. /\ Len(g) = m.ix + 1 /\ g[Len(g)].logt = m.logt /\ 0 < Len(g)
      /\ Len(h) - 1 + 1 = Len(h)
  BY <1>3, <1>7
<1>9. \/ h[Len(h)].logt < g[Len(g)].logt
      \/ h[Len(h)].logt = g[Len(g)].logt /\ Len(h) - 1 <= m.ix
  BY <1>5, <1>6, <1>8 DEF handle_rqst_vote, log_is_as_good, get_logt, get_next_ix
<1>10. \/ h[Len(h)].logt < g[Len(g)].logt
       \/ h[Len(h)].logt = g[Len(g)].logt /\ Len(h) <= Len(g)
  BY <1>3, <1>7, <1>8, <1>9
<1> HIDE DEF h, g
<1>11. logtix(g, ix, u)
  BY <1>2, <1>8, <1>10, AsGoodHasIt DEF LogInv, LogsAreKept, h
<1> QED
  BY <1>11 DEF g

LEMMA VotingStepKeeps ==
  ASSUME LogInv, TypeOK', NEW n \in Node, NEW s \in sent,
         handle_rqst_vote(n, s[1]) \/ handle_rqst_vote_nolog(n, s[1])
  PROVE  LogsAreKept' /\ Grows
<1> DEFINE m == s[1]
           t == m.term
           c == m.cand
           S == unicast(vtcandidate(n, t, c), c)
<1>0. m \in Message
  BY DEF LogInv, TypeOK
<1>1. /\ t \in Term /\ c \in Node /\ m.kind \in {"rqvote", "rqvotenolog"}
      /\ move_to_term(n, t, {})
      /\ sent' = sent \cup S
      /\ nter[n] < t
      /\ UNCHANGED log_vars
  BY <1>0, MessageType DEF handle_rqst_vote, handle_rqst_vote_nolog, has_not_voted
<1>2. request_holds(m)
  BY <1>1 DEF LogInv, LogsAreKept, Messages, RequestsHold
<1>3. \A x \in S : x[1] = vtcandidate(n, t, c) /\ x[1].kind = "vtcandidate"
  BY DEF unicast, vtcandidate
<1>4. nter' = [nter EXCEPT ![n] = t]
  BY <1>1 DEF move_to_term
<1>5. t <= nter[c] /\ nter[n] \in Nat /\ t \in Nat
  BY <1>1, <1>2, Numbers DEF request_holds, LogInv, TypeOK
<1>6. c # n
  BY <1>1, <1>5
<1>7. nter'[c] = nter[c]
  BY <1>4, <1>6, <1>1 DEF LogInv, TypeOK
<1>8. ASSUME NEW u \in Term, NEW ix \in Index, choosable(u, ix), logtix(myhist[n], ix, u),
             nter'[c] = t, ~started(t)
      PROVE  logtix(myhist[c], ix, u)
  <2>1. nter[c] = t
    BY <1>7, <1>8
  <2> QED
    BY <1>0, <1>2, <1>8, <2>1, VoteIsForAsGood
<1>9. \A x \in S :
        /\ x[1].kind \notin {"appentry", "enappeneded", "rqvote", "rqvotenolog"}
        /\ x[1] = vtcandidate(n, t, c)
        /\ t <= nter'[c]
        /\ \A u \in Term, ix \in Index :
             choosable(u, ix) /\ logtix(myhist[n], ix, u) /\ nter'[c] = t /\ ~started(t) =>
                logtix(myhist[c], ix, u)
  <2>1. t <= nter'[c]
    BY <1>5, <1>7
  <2> HIDE DEF m, t, c, S
  <2> QED
    BY <1>3, <1>8, <2>1
<1> HIDE DEF m, t, c, S
<1>10. {} \in SUBSET Node
  OBVIOUS
<1> QED
  BY <1>1, <1>9, <1>10, MovingKeeps, SMTT(60)

LEMMA ElectionKeeps ==
  ASSUME LogInv, TypeOK', VotesAreKept', NEW n \in Node, NEW m \in Message,
         handle_vote_cand_msg(n, m)
  PROVE  LogsAreKept' /\ Grows
<1> USE DEF LogInv, LogsAreKept
<1>1. /\ nter[n] = m.term /\ ~is_leader[n]
      /\ UNCHANGED <<nter, myhist, valid, sent>>
  BY DEF handle_vote_cand_msg
<1>2. CASE UNCHANGED <<is_leader, elected, term_hist>>
  BY <1>1, <1>2, IdleKeeps DEF log_vars
<1>3. CASE /\ is_leader' = [is_leader EXCEPT ![n] = TRUE]
           /\ elected' = elected \cup {<<m.term, n, my_voters'[n]>>}
           /\ term_hist' = [term_hist EXCEPT ![m.term] = myhist[n]]
  <2>1. PICK V \in SUBSET Node : V = my_voters'[n]
    BY DEF TypeOK
  <2>2. wins(n, V)
    BY <1>1, <1>3, <2>1 DEF wins
  <2>3. ~started(nter[n])
    BY <1>1, <2>2, WinsFirst DEF Elections
  <2>4. nter' = nter /\ sent' = sent /\ elected \subseteq elected' /\ myhist' = myhist
    BY <1>1, <1>3
  <2>5. Grows
    <3>1. \A p \in Node : nter[p] <= nter'[p]
      <4>1. \A p \in Node : nter[p] \in Nat
        BY Numbers DEF TypeOK
      <4> QED
        BY <2>4, <4>1
    <3>2. ASSUME NEW t \in Term PROVE agree(term_hist[t], term_hist'[t], Len(term_hist[t]))
      <4>1. Len(term_hist[t]) \in Nat /\ Len(myhist[n]) \in Nat /\ Len(<<>>) = 0
        BY EntriesOf DEF TypeOK
      <4>2. CASE t = nter[n]
        <5>1. term_hist[t] = <<>>
          BY <2>3, <4>2 DEF Histories, UnstartedIsEmpty
        <5>2. Len(term_hist'[t]) \in Nat
          BY EntriesOf DEF TypeOK
        <5> QED
          BY <4>1, <5>1, <5>2 DEF agree
      <4>3. CASE t # nter[n]
        <5>1. term_hist'[t] = term_hist[t]
          BY <2>2, <4>3 DEF wins, TypeOK
        <5> QED
          BY <4>1, <5>1 DEF agree
      <4> QED
        BY <4>2, <4>3
    <3> QED
      BY <2>4, <3>1, <3>2 DEF Grows
  <2>6. Elections'
    BY <2>2, WinElections
  <2>7. Histories'
    BY <2>2, <2>3, WinHistories
  <2>8. Messages'
    <3>1. PICK S : S = {}
      OBVIOUS
    <3>2. sent' = sent \cup S
      BY <2>4, <3>1
    <3> QED
      BY <2>4, <2>5, <3>1, <3>2, SendMessages
  <2>9. ChoosableIsKept' /\ VotersAgree'
    BY <2>2, <2>3, <2>5, WinningKeeps
  <2> QED
    BY <2>5, <2>6, <2>7, <2>8, <2>9
<1> QED
  BY <1>2, <1>3 DEF handle_vote_cand_msg

LEMMA StoreKeeps ==
  ASSUME LogInv, TypeOK', NEW n \in Node, NEW m \in Message, m.kind = "appentry",
         append_holds(m), accepts(n, m), move_to_term(n, m.term, {}), store(n, m)
  PROVE  LogsAreKept' /\ Grows
<1> DEFINE t == m.term
           S == unicast(enappeneded(t, n, m.ix, m.isrecover), m.node)
<1> USE DEF LogInv, LogsAreKept
<1>1. /\ t \in Term /\ t \in Nat /\ m.ix \in Nat /\ nter[n] \in Nat
      /\ nter[n] <= t /\ ~is_leader[n]
  BY MessageType, Numbers DEF accepts, TypeOK
<1>2. /\ nter' = [nter EXCEPT ![n] = t] /\ UNCHANGED <<elected, term_hist>>
      /\ sent' = sent \cup S /\ \A p \in Node : p # n => myhist'[p] = myhist[p]
  BY DEF move_to_term, store, TypeOK
<1>3. \A s \in S : /\ s[1].kind = "enappeneded" /\ s[1].node = n
                   /\ s[1].term = t /\ s[1].ix = m.ix
  BY DEF unicast, enappeneded
<1>4. leads(m.node, t) /\ started(t) /\ m.ix < Len(term_hist[t])
  BY LeadsStarted DEF append_holds
<1> HIDE DEF S, t
<1>5. nter'[n] = t
  BY <1>2 DEF TypeOK
<1>6. Grows
  <2>1. \A p \in Node : nter[p] \in Nat
    BY Numbers DEF TypeOK
  <2>2. \A p \in Node : nter[p] <= nter'[p]
    BY <1>1, <1>2, <2>1 DEF TypeOK
  <2>3. \A u \in Term : Len(term_hist[u]) \in Nat
    BY EntriesOf DEF TypeOK
  <2> QED
    BY <1>2, <2>2, <2>3 DEF Grows, agree
<1>7. Elections'
  <2>1. \A s \in S : s[1].kind # "vtcandidate"
    BY <1>3
  <2>2. \A p, u, d : vote_cand_msg(p, u, d)' => vote_cand_msg(p, u, d)
    BY <1>2, <2>1, NoVoteSent
  <2>3. nter[n] < t \/ (nter[n] = t /\ ~is_leader[n])
    BY <1>1
  <2> QED
    BY <1>1, <2>2, <2>3, MoveElections DEF t
<1>8. Histories'
  BY <1>1, StoreHistories DEF t
<1>9. Messages'
  <2>1. \A c \in Node : myhist'[c] # myhist[c] => started(nter[c])'
    <3>1. started(nter[n])'
      BY <1>2, <1>4, <1>5 DEF started
    <3> QED
      BY <1>2, <3>1
  <2>2. ASSUME NEW s \in S PROVE reply_holds(s[1])'
    <3>1. t <= nter'[n]
      BY <1>1, <1>5
    <3> QED
      BY <1>2, <1>3, <1>4, <3>1 DEF reply_holds
  <2> QED
    BY <1>2, <1>3, <1>6, <2>1, <2>2, SendMessages
<1>10. ChoosableIsKept' /\ VotersAgree'
  BY <1>1, <1>6, StoringKeeps DEF t
<1> QED
  BY <1>6, <1>7, <1>8, <1>9, <1>10

LEMMA AppendEntriesKeeps ==
  ASSUME LogInv, TypeOK', NEW n \in Node, NEW s \in sent, handle_append_entries(n, s[1])
  PROVE  LogsAreKept' /\ Grows
<1> DEFINE m == s[1]
<1>1. /\ m \in Message /\ m.kind = "appentry" /\ append_holds(m)
  BY DEF handle_append_entries, LogInv, LogsAreKept, TypeOK, Messages, AppendsHold
<1>2. /\ accepts(n, m) /\ move_to_term(n, m.term, {}) /\ m.term \in Term /\ m.node \in Node
      /\ store(n, m) \/ reject(n, m) \/ ignore(n, m)
  BY <1>1, MessageType DEF handle_append_entries
<1> HIDE DEF m
<1>3. CASE store(n, m)
  BY <1>1, <1>2, <1>3, StoreKeeps
<1>4. nter[n] < m.term \/ (nter[n] = m.term /\ ~is_leader[n])
  <2>1. nter[n] \in Nat /\ m.term \in Nat
    BY <1>2, Numbers DEF LogInv, TypeOK
  <2> QED
    BY <1>2, <2>1 DEF accepts
<1>5. ASSUME NEW S, sent' = sent \cup S, \A x \in S : x[1].kind = "nack", UNCHANGED log_vars
      PROVE  LogsAreKept' /\ Grows
  BY <1>2, <1>4, <1>5, MovingKeeps
<1>6. CASE reject(n, m)
  <2>1. \A x \in unicast(nack(m.term, n, m.ix - 1), m.node) : x[1].kind = "nack"
    BY DEF unicast, nack
  <2> QED
    BY <1>5, <1>6, <2>1 DEF reject
<1>7. CASE ignore(n, m)
  <2>1. PICK S : S = {}
    OBVIOUS
  <2>2. sent' = sent \cup S /\ UNCHANGED log_vars
    BY <1>7, <2>1 DEF ignore
  <2> QED
    BY <1>5, <2>1, <2>2
<1> QED
  BY <1>2, <1>3, <1>6, <1>7

\* A server that refuses an entry changes nothing that others rely on.
LEMMA RefuseKeeps ==
  ASSUME LogInv, TypeOK', NEW n \in Node, NEW m \in Message, refuse(n, m)
  PROVE  LogsAreKept' /\ Grows
<1>1. PICK S : S = unicast(nack(m.term, n, m.ix - 1), m.node)
  OBVIOUS
<1>2. sent' = sent \cup S /\ UNCHANGED <<nter, is_leader, elected, log_vars>>
  BY <1>1 DEF refuse, reject, term_vars
<1>3. \A s \in S : s[1].kind = "nack"
  BY <1>1 DEF unicast, nack
<1> QED
  BY <1>2, <1>3, StayingKeeps

\* A leader that sends an entry of its log again sends what is true.
LEMMA RecoverKeeps ==
  ASSUME LogInv, TypeOK', NEW n \in Node, is_leader[n], NEW ix \in Nat, filled(myhist[n], ix),
         NEW to, recover(n, ix, to), UNCHANGED <<nter, is_leader, elected, log_vars>>
  PROVE  LogsAreKept' /\ Grows
<1>1. PICK m : m = appentry(n, nter[n], myhist[n], ix, TRUE)
  OBVIOUS
<1>2. append_holds(m)
  BY <1>1, LeaderAppends DEF LogInv, LogsAreKept
<1>3. sent' = sent \cup ({m} \X to)
  BY <1>1 DEF recover
<1>4. \A s \in {m} \X to : s[1] = m
  OBVIOUS
<1>5. m.kind = "appentry"
  BY <1>1 DEF appentry
<1> QED
  BY <1>2, <1>3, <1>4, <1>5, StayingKeeps

LEMMA AnswersKeep ==
  ASSUME LogInv, TypeOK', NEW n \in Node, NEW m \in Message, NEW to,
         handle_nack(n, m, to) \/ handle_appended_reply_msg(n, m, to)
  PROVE  LogsAreKept' /\ Grows
<1>1. is_leader[n] /\ UNCHANGED <<nter, is_leader, elected, log_vars>>
  BY DEF handle_nack, handle_appended_reply_msg, term_vars
<1>2. m.ix \in Nat /\ m.ix + 1 \in Nat
  BY MessageType, Numbers DEF handle_nack, handle_appended_reply_msg
<1>3. \/ filled(myhist[n], m.ix) /\ recover(n, m.ix, to)
      \/ filled(myhist[n], m.ix + 1) /\ recover(n, m.ix + 1, to)
      \/ UNCHANGED sent
  BY DEF handle_nack, handle_appended_reply_msg
<1> QED
  BY <1>1, <1>2, <1>3, RecoverKeeps, IdleKeeps

LEMMA ClientStepKeeps ==
  ASSUME LogInv, TypeOK', NEW n \in Node, NEW v \in Value, NEW to,
         req_append_new_entry(n, v, to)
  PROVE  LogsAreKept' /\ Grows
<1> USE DEF LogInv, LogsAreKept
<1>0. PICK T, g, h : T = nter[n] /\ g = myhist[n] /\ h = append(g, T, v)
  OBVIOUS
<1>1. PICK m : m = appentry(n, T, h, get_next_ix(g), FALSE)
  OBVIOUS
<1>2. /\ is_leader[n] /\ T \in Term /\ g = term_hist[T] /\ g \in History
      /\ myhist' = [myhist EXCEPT ![n] = h]
      /\ term_hist' = [term_hist EXCEPT ![T] = h]
      /\ UNCHANGED <<nter, is_leader, elected>>
      /\ Len(h) = Len(g) + 1
      /\ h[Len(h)] = [logt |-> T, val |-> v]
      /\ agree(g, h, Len(g))
      /\ Grows
  BY <1>0, ClientGrows DEF term_vars, TypeOK
<1>3. sent' = sent \cup ({m} \X to) /\ \A s \in {m} \X to : s[1] = m
  BY <1>0, <1>1 DEF req_append_new_entry
<1>4. /\ m.kind = "appentry" /\ m.node = n /\ m.term = T /\ m.ix = Len(g)
      /\ m.logt = h[Len(g) + 1].logt /\ m.val = h[Len(g) + 1].val
      /\ m.prevlogt = IF Len(g) = 0 THEN 0 ELSE h[Len(g) - 1 + 1].logt
  BY <1>1 DEF appentry, get_logt, valix, get_next_ix
<1>5. leads(n, T) /\ started(T)
  BY <1>0, <1>2, LeadsStarted DEF Elections, LeadersLead
<1>6. Elections'
  <2>1. \A p, u, d : vote_cand_msg(p, u, d)' <=> vote_cand_msg(p, u, d)
    BY <1>3, <1>4, NoVoteSent
  <2> QED
    BY <1>2, <2>1, StayElections
<1>7. Histories'
  BY ClientHistories
<1>8. Messages'
  <2>1. append_holds(m)'
    <3>1. Len(g) \in Nat /\ Len(g) < Len(h) /\ Len(g) - 1 + 1 = Len(g)
      BY <1>2, EntriesOf
    <3>2. term_hist'[T] = h /\ leads(n, T)'
      BY <1>2, <1>5 DEF leads, TypeOK
    <3>3. h[Len(g) + 1] = [logt |-> m.logt, val |-> m.val]
      BY <1>2, <1>4
    <3>4. m.ix # 0 => h[m.ix].logt = m.prevlogt
      BY <1>4, <3>1
    <3> QED
      BY <1>4, <3>1, <3>2, <3>3, <3>4 DEF append_holds
  <2>2. \A c \in Node : myhist'[c] # myhist[c] => started(nter[c])'
    <3>1. started(nter[n])'
      BY <1>0, <1>2, <1>5 DEF started
    <3>2. \A c \in Node : c # n => myhist'[c] = myhist[c]
      BY <1>2 DEF TypeOK
    <3> QED
      BY <3>1, <3>2
  <2> QED
    BY <1>2, <1>3, <1>4, <2>1, <2>2, SendMessages
<1>9. ChoosableIsKept' /\ VotersAgree'
  BY ClientKeeps
<1> QED
  BY <1>2, <1>6, <1>7, <1>8, <1>9

\* Every step keeps the logs, and votes and logs of leaders grow.
LEMMA LogStep == LogInv /\ [AnyNext]_vars => LogInv' /\ Grows
<1> SUFFICES ASSUME LogInv, [AnyNext]_vars PROVE LogInv' /\ Grows
  OBVIOUS
<1>1. TypeOK' /\ VotesAreKept'
  BY TypeStep, VotesStep DEF LogInv
<1>2. LogsAreKept' /\ Grows
  <2>1. CASE UNCHANGED vars
    BY <1>1, <2>1, IdleKeeps DEF vars, term_vars
  <2>2. ASSUME NEW to, NEW n \in Node, NEW v \in Value, req_append_new_entry(n, v, to)
        PROVE  LogsAreKept' /\ Grows
    BY <1>1, <2>2, ClientStepKeeps
  <2>3. ASSUME NEW n \in Node, timer(n) PROVE LogsAreKept' /\ Grows
    BY <1>1, <2>3, TimerKeeps
  <2>4. ASSUME NEW to, NEW s \in sent, receive(s[2], s[1], to) PROVE LogsAreKept' /\ Grows
    <3>1. s[1] \in Message /\ s[2] \in Node
      BY DEF LogInv, TypeOK
    <3> QED
      BY <1>1, <2>4, <3>1, AppendEntriesKeeps, VotingStepKeeps, AnswersKeep, ElectionKeeps,
         RefuseKeeps, KeepaliveKeeps DEF receive
  <2> QED
    BY <2>1, <2>2, <2>3, <2>4 DEF AnyNext
<1> QED
  BY <1>1, <1>2 DEF LogInv

\* What elections, logs and messages say of each other holds whatever is lost,
\* late or repeated.
THEOREM LogsInvariance == Spec => []LogInv
<1>1. Init => LogInv
  BY TypeInit, VotesInit, LogInit DEF LogInv
<1>2. LogInv => TypeOK
  BY DEF LogInv
<1> QED
  BY <1>1, <1>2, LogStep, NextIsAny, PTL DEF Spec

\* Logs of any servers match up to any entries of one term.
THEOREM LogsMatchHold == Spec => []LogsMatch
<1>1. LogInv => LogsMatch
  BY FollowersMatch DEF LogInv, LogsAreKept, Histories
<1> QED
  BY <1>1, LogsInvariance, PTL

\* An entry that may be committed is kept by those who acknowledged it and is in
\* the log of every later leader, for clusters of any size.
THEOREM ChoosableKept == Spec => []ChoosableIsKept
<1>1. LogInv => ChoosableIsKept
  BY DEF LogInv, LogsAreKept
<1> QED
  BY <1>1, LogsInvariance, PTL

-----------------------------------------------------------------------------
(***************************************************************************)
(* Commits: the servers report one log.                                    *)
(***************************************************************************)

\* Whoever a leader counts has acknowledged the entry in its term.
RepliersAreStrong ==
    \A n \in Node, ix \in Index : \A p \in my_repliers[n][ix] : strong_vote(p, nter[n], ix)

\* What was committed was an entry of its leader's term that a majority had.
CommitsAreLed ==
    \A b \in by :
        /\ leads(b[1], b[3])
        /\ majority(b[4])
        /\ \A p \in b[4] : strong_vote(p, b[3], b[2])
        /\ logtix(term_hist[b[3]], b[2], b[3])

\* The values s are those of the log of the leader that committed b, up to b.
shows(s, b) ==
    /\ Len(s) = b[2] + 1
    /\ \A k \in 1 .. Len(s) : s[k] = term_hist[b[3]][k].val

\* A server has reported what its last commit committed.
ReportsAreCommits ==
    \A n \in Node :
        /\ Len(reported[n]) = commited[n]
        /\ commited[n] # 0 => \E b \in by : b[1] = n /\ shows(reported[n], b)

Commits == RepliersAreStrong /\ CommitsAreLed /\ ReportsAreCommits

\* A committed entry may be committed.
LEMMA CommittedIsChoosable ==
  ASSUME TypeOK, CommitsAreLed, NEW b \in by
  PROVE  /\ b[1] \in Node /\ b[2] \in Index /\ b[3] \in Term
         /\ choosable(b[3], b[2])
<1>1. b[1] \in Node /\ b[2] \in Index /\ b[3] \in Term /\ b[4] \in SUBSET Node
  BY DEF TypeOK
<1>2. b[4] \in Majorities
  BY <1>1 DEF CommitsAreLed, Majorities
<1> QED
  BY <1>1, <1>2 DEF CommitsAreLed, choosable

\* The log of a leader has everything that was committed in its term and before.
LEMMA OneLog ==
  ASSUME LogInv, CommitsAreLed, NEW b \in by, NEW t \in Term, started(t), b[3] <= t
  PROVE  agree(term_hist[b[3]], term_hist[t], b[2] + 1)
<1> USE DEF LogInv, LogsAreKept
<1>1. /\ b[2] \in Index /\ b[2] \in Nat /\ b[3] \in Term /\ b[3] \in Nat /\ t \in Nat
      /\ choosable(b[3], b[2]) /\ logtix(term_hist[b[3]], b[2], b[3])
  BY CommittedIsChoosable, Numbers DEF CommitsAreLed
<1>2. logtix(term_hist[t], b[2], b[3])
  <2>1. CASE b[3] = t
    BY <1>1, <2>1
  <2>2. CASE b[3] < t
    BY <1>1, <2>2 DEF ChoosableIsKept, started
  <2> QED
    BY <1>1, <2>1, <2>2
<1>3. /\ term_hist[t] \in valid /\ term_hist[t] \in History
      /\ term_hist[b[3]] \in valid /\ term_hist[b[3]] \in History
  BY <1>1 DEF Histories, LogsAreValid, TypeOK
<1>4. /\ b[2] + 1 \in 1 .. Len(term_hist[t]) /\ term_hist[t][b[2] + 1].logt = b[3]
      /\ b[2] + 1 \in 1 .. Len(term_hist[b[3]]) /\ term_hist[b[3]][b[2] + 1].logt = b[3]
  <2>1. PICK h1, h2, ix, u : h1 = term_hist[t] /\ h2 = term_hist[b[3]] /\ ix = b[2] /\ u = b[3]
    OBVIOUS
  <2>2. h1 \in History /\ h2 \in History /\ ix \in Nat /\ logtix(h1, ix, u) /\ logtix(h2, ix, u)
    BY <1>1, <1>2, <1>3, <2>1
  <2>3. ix + 1 \in 1 .. Len(h1) /\ h1[ix + 1].logt = u
    BY <2>2, EntryAt
  <2>4. ix + 1 \in 1 .. Len(h2) /\ h2[ix + 1].logt = u
    BY <2>2, EntryAt
  <2> QED
    BY <2>1, <2>3, <2>4
<1> QED
  BY <1>3, <1>4, LogsAgree DEF Histories

\* A report of a commit shows the log of any leader of its term or later.
LEMMA ShownLater ==
  ASSUME LogInv, CommitsAreLed, NEW b \in by, NEW t \in Term, started(t), b[3] <= t,
         NEW s \in Seq(Value), shows(s, b)
  PROVE  Len(s) <= Len(term_hist[t]) /\ \A k \in 1 .. Len(s) : s[k] = term_hist[t][k].val
<1>1. agree(term_hist[b[3]], term_hist[t], b[2] + 1) /\ Len(s) = b[2] + 1
  BY OneLog DEF shows
<1> QED
  BY <1>1 DEF agree, shows

\* The reports of two servers are one the beginning of the other.
LEMMA ReportsAgree ==
  ASSUME LogInv, Commits, NEW n \in Node, NEW p \in Node
  PROVE  \/ Log!begins_with(reported[n], reported[p])
         \/ Log!begins_with(reported[p], reported[n])
<1> DEFINE s == reported[n]
           r == reported[p]
<1>1. /\ s \in Seq(Value) /\ r \in Seq(Value) /\ Len(s) \in Nat /\ Len(r) \in Nat
      /\ Len(s) = commited[n] /\ Len(r) = commited[p]
  BY DEF LogInv, TypeOK, Commits, ReportsAreCommits
<1>2. CASE commited[n] = 0 \/ commited[p] = 0
  BY <1>1, <1>2 DEF Log!begins_with
<1>3. CASE commited[n] # 0 /\ commited[p] # 0
  <2>1. PICK b \in by : shows(s, b)
    BY <1>3 DEF Commits, ReportsAreCommits
  <2>2. PICK d \in by : shows(r, d)
    BY <1>3 DEF Commits, ReportsAreCommits
  <2>3. /\ b[3] \in Term /\ d[3] \in Term /\ b[3] \in Nat /\ d[3] \in Nat
        /\ started(b[3]) /\ started(d[3])
    BY CommittedIsChoosable, LeadsStarted, Numbers DEF LogInv, Commits, CommitsAreLed
  <2>4. PICK t \in Term : started(t) /\ b[3] <= t /\ d[3] <= t
    <3>1. CASE b[3] <= d[3]
      BY <2>3, <3>1
    <3>2. CASE d[3] <= b[3]
      BY <2>3, <3>2
    <3> QED
      BY <2>3, <3>1, <3>2
  <2> HIDE DEF s, r
  <2>5. /\ \A k \in 1 .. Len(s) : s[k] = term_hist[t][k].val
        /\ \A k \in 1 .. Len(r) : r[k] = term_hist[t][k].val
    BY <1>1, <2>1, <2>2, <2>4, ShownLater DEF Commits
  <2>6. CASE Len(s) <= Len(r)
    <3>1. \A k \in 1 .. Len(s) : r[k] = s[k]
      BY <1>1, <2>5, <2>6
    <3> QED
      BY <2>6, <3>1 DEF Log!begins_with, s, r
  <2>7. CASE Len(r) <= Len(s)
    <3>1. \A k \in 1 .. Len(r) : s[k] = r[k]
      BY <1>1, <2>5, <2>7
    <3> QED
      BY <2>7, <3>1 DEF Log!begins_with, s, r
  <2> QED
    BY <1>1, <2>6, <2>7
<1> QED
  BY <1>2, <1>3
-----------------------------------------------------------------------------
\* What was committed and reported stays so.
LEMMA CommitsStay ==
  ASSUME TypeOK, TypeOK', Grows, CommitsAreLed, NEW b \in by
  PROVE  /\ leads(b[1], b[3])' /\ majority(b[4])
         /\ \A p \in b[4] : strong_vote(p, b[3], b[2])'
         /\ logtix(term_hist[b[3]], b[2], b[3])'
         /\ \A s \in Seq(Value) : shows(s, b) => shows(s, b)'
<1>1. /\ leads(b[1], b[3])' /\ majority(b[4])
      /\ \A p \in b[4] : strong_vote(p, b[3], b[2])'
  BY LeadersStay, StrongStays DEF CommitsAreLed
<1>2. b[2] \in Nat /\ b[3] \in Term /\ logtix(term_hist[b[3]], b[2], b[3])
  BY Numbers DEF CommitsAreLed, TypeOK
<1> DEFINE h == term_hist[b[3]]
           g == term_hist'[b[3]]
<1>3. h \in History /\ g \in History /\ Len(h) \in Nat /\ agree(h, g, Len(h))
  BY <1>2, EntriesOf DEF TypeOK, Grows
<1> HIDE DEF h, g
<1>4. b[2] + 1 \in 1 .. Len(h) /\ h[b[2] + 1].logt = b[3]
  BY <1>2, <1>3, EntryAt DEF h
<1>5. \A k \in 1 .. b[2] + 1 : k \in 1 .. Len(g) /\ g[k] = h[k]
  BY <1>2, <1>3, <1>4 DEF agree
<1>6. logtix(g, b[2], b[3])
  BY <1>2, <1>3, <1>4, <1>5, EntryAt
<1>7. ASSUME NEW s \in Seq(Value), shows(s, b) PROVE shows(s, b)'
  <2>1. Len(s) = b[2] + 1 /\ \A k \in 1 .. Len(s) : s[k] = h[k].val
    BY <1>7 DEF shows, h
  <2>2. \A k \in 1 .. Len(s) : s[k] = g[k].val
    BY <1>5, <2>1
  <2> QED
    BY <2>1, <2>2 DEF shows, g
<1> QED
  BY <1>1, <1>6, <1>7 DEF g

\* Those a leader counts stay those who acknowledged, if it counts further ones
\* that did, and starts with none in another term.
LEMMA RepliersStay ==
  ASSUME TypeOK, TypeOK', Grows, RepliersAreStrong,
         \A n \in Node, ix \in Index : \A p \in my_repliers'[n][ix] :
            \/ p \in my_repliers[n][ix] /\ nter'[n] = nter[n]
            \/ strong_vote(p, nter[n], ix)'
  PROVE  RepliersAreStrong'
<1> SUFFICES ASSUME NEW n \in Node, NEW ix \in Index, NEW p \in my_repliers'[n][ix],
                    p \in my_repliers[n][ix], nter'[n] = nter[n]
             PROVE  strong_vote(p, nter[n], ix)'
  BY DEF RepliersAreStrong
<1>1. PICK t : t = nter[n]
  OBVIOUS
<1>2. strong_vote(p, t, ix)
  BY <1>1 DEF RepliersAreStrong
<1>3. strong_vote(p, t, ix)' /\ nter'[n] = t
  BY <1>1, <1>2, StrongStays
<1> QED
  BY <1>3 DEF strong_vote

\* A step that reports nothing keeps the commits.
LEMMA IdleCommits ==
  ASSUME TypeOK, TypeOK', Grows, CommitsAreLed, ReportsAreCommits, UNCHANGED commit_vars
  PROVE  CommitsAreLed' /\ ReportsAreCommits'
<1>1. commited' = commited /\ reported' = reported /\ by' = by
  BY DEF commit_vars
<1>2. CommitsAreLed'
  BY <1>1, CommitsStay DEF CommitsAreLed
<1>3. ReportsAreCommits'
  <2> SUFFICES ASSUME NEW n \in Node
               PROVE  /\ Len(reported[n]) = commited[n]
                      /\ commited[n] # 0 =>
                           \E b \in by : b[1] = n /\ shows(reported[n], b)'
    BY <1>1 DEF ReportsAreCommits
  <2>1. PICK s \in Seq(Value) : s = reported[n] /\ reported'[n] = s
    BY <1>1 DEF TypeOK
  <2>2. ASSUME NEW b \in by, shows(s, b) PROVE shows(reported[n], b)'
    <3>1. shows(s, b)'
      BY <2>2, CommitsStay
    <3> QED
      BY <2>1, <3>1 DEF shows
  <2> QED
    BY <2>1, <2>2 DEF ReportsAreCommits
<1> QED
  BY <1>2, <1>3

\* All reports agree.
LEMMA OneReport ==
  LogInv /\ Commits => \A p, d \in Node : \/ Log!begins_with(reported[p], reported[d])
                                          \/ Log!begins_with(reported[d], reported[p])
  BY ReportsAgree

\* A leader that commits reports what is in its log after what it reported before,
\* which is in its log too.
LEMMA CommitReports ==
  ASSUME LogInv, LogInv', Grows, Commits, RepliersAreStrong', NEW n \in Node, NEW ix \in Index,
         is_leader[n], logtix(myhist[n], ix, nter[n]), commited[n] <= ix,
         majority(my_repliers'[n][ix]), commit(n, ix), UNCHANGED <<term_vars, log_vars>>
  PROVE  /\ CommitsAreLed' /\ ReportsAreCommits'
         /\ Log!report_commits(n)
<1>0. PICK T, h, a, q, r :
        /\ T = nter[n] /\ h = myhist[n] /\ a = commited[n] /\ q = my_repliers'[n][ix]
        /\ r = reported[n]
  OBVIOUS
<1> DEFINE b == <<n, ix, T, q>>
           c == report_commits(n, a, ix)
           s == r \o c
<1>1. /\ T \in Term /\ h \in History /\ h = term_hist[T] /\ leads(n, T) /\ started(T)
      /\ a \in Nat /\ ix \in Nat /\ T \in Nat /\ Len(h) \in Nat /\ r \in Seq(Value)
      /\ Len(r) = a
  BY <1>0, LeadsStarted, EntriesOf, Numbers
     DEF LogInv, LogsAreKept, TypeOK, Histories, LeadersLog, Elections, LeadersLead,
         Commits, ReportsAreCommits
<1>2. /\ commited' = [commited EXCEPT ![n] = ix + 1]
      /\ reported' = [reported EXCEPT ![n] = s]
      /\ by' = by \cup {b}
      /\ nter' = nter /\ elected' = elected /\ term_hist' = term_hist /\ myhist' = myhist
  BY <1>0 DEF commit, term_vars, log_vars
<1>3. ix + 1 \in 1 .. Len(h) /\ h[ix + 1].logt = T /\ a <= ix
  BY <1>0, <1>1, EntryAt
<1>4. /\ c \in Seq(Value) /\ Len(c) = ix + 1 - a
      /\ \A k \in 1 .. ix + 1 - a : c[k] = h[a + k].val
  <2>1. c \in Seq(Value)
    <3>1. filled(myhist[n], ix) /\ TypeOK
      BY <1>0, <1>1, <1>3 DEF filled, LogInv
    <3>2. report_commits(n, commited[n], ix) \in Seq(Value)
      BY <1>1, <3>1, ReportType
    <3> QED
      BY <1>0, <3>2
  <2>2. \A k \in 1 .. ix + 1 - a : a + k - 1 + 1 = a + k
    BY <1>1
  <2>3. ix + 1 - a \in Nat
    BY <1>1, <1>3
  <2> QED
    BY <1>0, <2>1, <2>2, <2>3 DEF report_commits, valix
<1>5. \A k \in 1 .. a : r[k] = h[k].val
  <2>1. CASE a = 0
    BY <2>1
  <2>2. CASE a # 0
    <3>1. PICK d \in by : d[1] = n /\ shows(r, d)
      BY <1>0, <2>2 DEF Commits, ReportsAreCommits
    <3>2. leads(n, d[3])
      BY <3>1 DEF Commits, CommitsAreLed
    <3>3. d[3] <= T
      BY <1>0, <3>2 DEF leads, LogInv, LogsAreKept, Elections, LeadersWereThere
    <3> QED
      BY <1>1, <3>1, <3>3, ShownLater DEF Commits
  <2> QED
    BY <2>1, <2>2
<1>6. /\ s \in Seq(Value) /\ Len(s) = ix + 1
      /\ \A k \in 1 .. a : s[k] = r[k]
      /\ \A k \in 1 .. ix + 1 : s[k] = h[k].val
  <2> HIDE DEF c
  <2>1. s \in Seq(Value) /\ Len(s) = a + (ix + 1 - a) /\ a + (ix + 1 - a) = ix + 1
    BY <1>1, <1>4
  <2>2. \A k \in 1 .. a : s[k] = r[k]
    BY <1>1, <1>3, <1>4
  <2>3. ASSUME NEW k \in a + 1 .. ix + 1 PROVE s[k] = h[k].val
    <3>1. k - a \in 1 .. ix + 1 - a /\ a + (k - a) = k
      BY <1>1
    <3>2. s[k] = c[k - a]
      BY <1>1, <1>4, <3>1
    <3> QED
      BY <1>4, <3>1, <3>2
  <2>4. \A k \in 1 .. ix + 1 : k \in 1 .. a \/ k \in a + 1 .. ix + 1
    BY <1>1
  <2> HIDE DEF s
  <2> QED
    BY <1>5, <2>1, <2>2, <2>3, <2>4
<1> HIDE DEF s, c
<1>7. reported'[n] = s /\ commited'[n] = ix + 1
  BY <1>2 DEF LogInv, TypeOK
<1>8. b[1] = n /\ b[2] = ix /\ b[3] = T /\ b[4] = q
  OBVIOUS
<1> HIDE DEF b
<1>9. CommitsAreLed'
  <2> SUFFICES ASSUME NEW d \in by'
               PROVE  /\ leads(d[1], d[3])'
                      /\ majority(d[4])
                      /\ \A p \in d[4] : strong_vote(p, d[3], d[2])'
                      /\ logtix(term_hist[d[3]], d[2], d[3])'
    BY DEF CommitsAreLed
  <2>1. CASE d \in by
    BY <2>1, CommitsStay DEF LogInv, Commits
  <2>2. CASE d = b
    <3>1. leads(n, T)' /\ logtix(term_hist[T], ix, T)'
      BY <1>0, <1>1, <1>2 DEF leads
    <3>2. \A p \in q : strong_vote(p, T, ix)'
      <4>1. \A p \in my_repliers'[n][ix] : strong_vote(p, nter[n], ix)'
        BY DEF RepliersAreStrong
      <4>2. nter'[n] = T
        BY <1>0, <1>2
      <4> QED
        BY <1>0, <4>1, <4>2 DEF strong_vote
    <3> QED
      BY <1>0, <1>8, <2>2, <3>1, <3>2
  <2> QED
    BY <1>2, <2>1, <2>2
<1>10. ReportsAreCommits'
  <2> SUFFICES ASSUME NEW p \in Node
               PROVE  /\ Len(reported'[p]) = commited'[p]
                      /\ commited'[p] # 0 =>
                           \E d \in by' : d[1] = p /\ shows(reported[p], d)'
    BY DEF ReportsAreCommits
  <2>1. CASE p = n
    <3>1. b \in by'
      BY <1>2
    <3>2. PICK d \in by' : d = b
      BY <3>1
    <3>3. shows(reported[n], d)'
      BY <1>1, <1>2, <1>6, <1>7, <1>8, <3>2 DEF shows
    <3> QED
      BY <1>6, <1>7, <1>8, <2>1, <3>2, <3>3
  <2>2. CASE p # n
    <3>1. PICK x \in Seq(Value) : x = reported[p] /\ reported'[p] = x
      BY <1>2, <2>2 DEF LogInv, TypeOK
    <3>2. commited'[p] = commited[p]
      BY <1>2, <2>2 DEF LogInv, TypeOK
    <3>3. ASSUME NEW d \in by, shows(x, d) PROVE shows(reported[p], d)'
      <4>1. shows(x, d)'
        BY <3>3, CommitsStay DEF LogInv, Commits
      <4> QED
        BY <3>1, <4>1 DEF shows
    <3> QED
      BY <1>2, <3>1, <3>2, <3>3 DEF Commits, ReportsAreCommits
  <2> QED
    BY <2>1, <2>2
<1>11. Log!report_commits(n)
  <2>1. Commits'
    BY <1>9, <1>10 DEF Commits
  <2>2. (\A p, d \in Node : \/ Log!begins_with(reported[p], reported[d])
                            \/ Log!begins_with(reported[d], reported[p]))'
    BY <2>1, OneReport, PTL
  <2>3. Log!begins_with(s, r)
    BY <1>1, <1>3, <1>6 DEF Log!begins_with
  <2>4. ASSUME NEW p \in Node
        PROVE  Log!begins_with(s, reported[p]) \/ Log!begins_with(reported[p], s)
    <3>1. CASE p = n
      BY <1>0, <2>3, <3>1
    <3>2. CASE p # n
      <4>1. reported'[p] = reported[p]
        BY <1>2, <3>2 DEF LogInv, TypeOK
      <4>2. \/ Log!begins_with(reported[n], reported[p])'
            \/ Log!begins_with(reported[p], reported[n])'
        BY <2>2
      <4> QED
        BY <1>7, <4>1, <4>2 DEF Log!begins_with
    <3> QED
      BY <3>1, <3>2
  <2> QED
    BY <1>0, <1>2, <1>6, <1>7, <2>3, <2>4 DEF Log!report_commits
<1> QED
  BY <1>9, <1>10, <1>11

\* An acknowledgement is a message of its kind.
LEMMA ReplyMessage ==
  ASSUME TypeOK, NEW s \in sent, s[1].kind = "enappeneded"
  PROVE  strong_vote(s[1].node, s[1].term, s[1].ix)
<1>1. s[1] \in Message
  BY DEF TypeOK
<1>2. /\ s[1].isrecover \in BOOLEAN
      /\ s[1] = enappeneded(s[1].term, s[1].node, s[1].ix, s[1].isrecover)
  BY <1>1 DEF Message, enappeneded
<1> QED
  BY <1>2 DEF strong_vote, appended_reply_msg

\* A server that moves to another term counts nobody.
LEMMA MovingRepliers ==
  ASSUME TypeOK, TypeOK', Grows, RepliersAreStrong, NEW n \in Node, NEW t, NEW Q,
         move_to_term(n, t, Q)
  PROVE  RepliersAreStrong'
<1>1. \A p \in Node, ix \in Index :
        \/ my_repliers'[p][ix] = {}
        \/ my_repliers'[p][ix] = my_repliers[p][ix] /\ nter'[p] = nter[p]
  BY DEF move_to_term, no_repliers, TypeOK
<1> QED
  BY <1>1, RepliersStay

\* The steps that commit nothing.
LEMMA OtherRepliers ==
  ASSUME LogInv, TypeOK', Grows, Commits, NEW to,
         \/ \E n \in Node : timer(n) \/ \E v \in Value : req_append_new_entry(n, v, to)
         \/ \E n \in Node, m \in Message :
              \/ handle_append_entries(n, m) \/ handle_rqst_vote(n, m)
              \/ handle_rqst_vote_nolog(n, m) \/ handle_vote_cand_msg(n, m)
              \/ handle_keepalive(n, m) \/ handle_nack(n, m, to) \/ refuse(n, m)
         \/ UNCHANGED vars
  PROVE  RepliersAreStrong' /\ UNCHANGED commit_vars
<1> USE DEF LogInv, Commits
<1>1. CASE UNCHANGED <<nter, my_repliers, commit_vars>>
  BY <1>1, RepliersStay
<1>2. ASSUME NEW n \in Node, timer(n) PROVE RepliersAreStrong' /\ UNCHANGED commit_vars
  <2>1. CASE announce_candidacy(n)
    BY <1>2, <2>1, MovingRepliers DEF timer, announce_candidacy
  <2>2. CASE UNCHANGED <<term_vars, my_repliers>>
    BY <1>1, <1>2, <2>2 DEF timer, term_vars
  <2> QED
    BY <1>2, <2>1, <2>2 DEF timer
<1>3. ASSUME NEW n \in Node, NEW v \in Value, req_append_new_entry(n, v, to)
      PROVE  RepliersAreStrong' /\ UNCHANGED commit_vars
  <2>1. PICK i \in Index : i = get_next_ix(myhist[n])
    BY <1>3 DEF req_append_new_entry
  <2>2. /\ is_leader[n] /\ my_repliers' = [my_repliers EXCEPT ![n][i] = @ \cup {n}]
        /\ nter' = nter /\ elected' = elected /\ UNCHANGED commit_vars
    BY <1>3, <2>1 DEF req_append_new_entry, term_vars
  <2>3. \A p \in Node, ix \in Index :
          \/ my_repliers'[p][ix] = my_repliers[p][ix]
          \/ p = n /\ my_repliers'[p][ix] = my_repliers[p][ix] \cup {n}
    BY <2>2 DEF TypeOK
  <2>4. \A ix \in Index : strong_vote(n, nter[n], ix)'
    <3>1. leads(n, nter[n])
      BY <2>2 DEF LogsAreKept, Elections, LeadersLead
    <3> QED
      BY <2>2, <3>1 DEF strong_vote, leads
  <2> QED
    BY <2>2, <2>3, <2>4, RepliersStay
<1>4. ASSUME NEW n \in Node, NEW m \in Message,
             \/ handle_append_entries(n, m) \/ handle_rqst_vote(n, m)
             \/ handle_rqst_vote_nolog(n, m) \/ handle_keepalive(n, m)
      PROVE  RepliersAreStrong' /\ UNCHANGED commit_vars
  <2>1. UNCHANGED commit_vars
    BY <1>4 DEF handle_append_entries, handle_rqst_vote, handle_rqst_vote_nolog,
                handle_keepalive
  <2>2. move_to_term(n, m.term, {}) \/ UNCHANGED <<term_vars, my_repliers>>
    BY <1>4 DEF handle_append_entries, handle_rqst_vote, handle_rqst_vote_nolog,
                handle_keepalive
  <2> QED
    BY <1>1, <2>1, <2>2, MovingRepliers DEF term_vars
<1>5. ASSUME NEW n \in Node, NEW m \in Message,
             handle_vote_cand_msg(n, m) \/ handle_nack(n, m, to) \/ refuse(n, m)
      PROVE  UNCHANGED <<nter, my_repliers, commit_vars>>
  BY <1>5 DEF handle_vote_cand_msg, handle_nack, refuse, term_vars
<1>6. CASE UNCHANGED vars
  BY <1>1, <1>6 DEF vars, term_vars
<1> QED
  BY <1>1, <1>2, <1>3, <1>4, <1>5, <1>6

\* A leader that counts an acknowledgement.
LEMMA CountingKeeps ==
  ASSUME LogInv, LogInv', Grows, Commits, NEW n \in Node, NEW s \in sent, NEW to,
         handle_appended_reply_msg(n, s[1], to)
  PROVE  Commits' /\ [Log!Next]_reported
<1> DEFINE m == s[1]
<1>1. m \in Message /\ m.kind = "enappeneded" /\ is_leader[n] /\ m.ix \in Index /\ m.node \in Node
  BY MessageType DEF handle_appended_reply_msg, LogInv, TypeOK
<1>2. strong_vote(m.node, m.term, m.ix)
  BY <1>1, ReplyMessage DEF LogInv
<1>3. UNCHANGED <<term_vars, log_vars>> /\ nter' = nter
  BY DEF handle_appended_reply_msg, term_vars
<1>4. CASE UNCHANGED <<my_repliers, commit_vars>>
  <2>1. RepliersAreStrong'
    BY <1>3, <1>4, RepliersStay DEF LogInv, Commits
  <2>2. CommitsAreLed' /\ ReportsAreCommits'
    BY <1>4, IdleCommits DEF LogInv, Commits
  <2> QED
    BY <1>4, <2>1, <2>2 DEF Commits, commit_vars
<1>5. CASE /\ counts(n, m)
           /\ my_repliers' = [my_repliers EXCEPT ![n][m.ix] = @ \cup {m.node}]
           /\ IF majority(my_repliers'[n][m.ix]) THEN commit(n, m.ix) ELSE UNCHANGED commit_vars
  <2>1. nter[n] = m.term /\ logtix(myhist[n], m.ix, nter[n]) /\ commited[n] <= m.ix
    BY <1>5 DEF counts
  <2>2. RepliersAreStrong'
    <3>1. \A p \in Node, ix \in Index :
            \/ my_repliers'[p][ix] = my_repliers[p][ix]
            \/ p = n /\ ix = m.ix /\ my_repliers'[p][ix] = my_repliers[p][ix] \cup {m.node}
      BY <1>1, <1>5 DEF LogInv, TypeOK
    <3>2. strong_vote(m.node, m.term, m.ix)'
      BY <1>2, StrongStays
    <3>3. strong_vote(m.node, nter[n], m.ix)'
      BY <1>3, <2>1, <3>2 DEF strong_vote
    <3> QED
      BY <1>3, <3>1, <3>3, RepliersStay DEF LogInv, Commits
  <2>3. CASE majority(my_repliers'[n][m.ix]) /\ commit(n, m.ix)
    <3>1. CommitsAreLed' /\ ReportsAreCommits' /\ Log!report_commits(n)
      BY <1>1, <1>3, <2>1, <2>2, <2>3, CommitReports
    <3> QED
      BY <2>2, <3>1 DEF Commits, Log!Next
  <2>4. CASE UNCHANGED commit_vars
    <3>1. CommitsAreLed' /\ ReportsAreCommits'
      BY <2>4, IdleCommits DEF LogInv, Commits
    <3> QED
      BY <2>2, <2>4, <3>1 DEF Commits, commit_vars
  <2> QED
    BY <1>5, <2>3, <2>4
<1> QED
  BY <1>4, <1>5 DEF handle_appended_reply_msg

LEMMA CommitStep == LogInv /\ Commits /\ [AnyNext]_vars => Commits' /\ [Log!Next]_reported
<1> SUFFICES ASSUME LogInv, Commits, [AnyNext]_vars PROVE Commits' /\ [Log!Next]_reported
  OBVIOUS
<1>1. LogInv' /\ Grows /\ TypeOK /\ TypeOK'
  BY LogStep DEF LogInv
<1>2. CASE \E s \in sent, to \in SUBSET Node : handle_appended_reply_msg(s[2], s[1], to)
  <2>1. PICK s \in sent, to \in SUBSET Node : handle_appended_reply_msg(s[2], s[1], to)
    BY <1>2
  <2>2. s[2] \in Node
    BY DEF LogInv, TypeOK
  <2> QED
    BY <1>1, <2>1, <2>2, CountingKeeps
<1>3. CASE ~\E s \in sent, to \in SUBSET Node : handle_appended_reply_msg(s[2], s[1], to)
  <2>1. \A s \in sent : s[1] \in Message /\ s[2] \in Node
    BY DEF LogInv, TypeOK
  <2>2. RepliersAreStrong' /\ UNCHANGED commit_vars
    BY <1>1, <1>3, <2>1, OtherRepliers DEF AnyNext, receive
  <2>3. CommitsAreLed' /\ ReportsAreCommits'
    BY <1>1, <2>2, IdleCommits DEF Commits
  <2> QED
    BY <2>2, <2>3 DEF Commits, commit_vars
<1> QED
  BY <1>2, <1>3

LEMMA CommitInit == Init => Commits /\ Log!Init
<1> SUFFICES ASSUME Init PROVE Commits /\ Log!Init
  OBVIOUS
<1>1. Len(<<>>) = 0
  OBVIOUS
<1> QED
  BY <1>1 DEF Init, Commits, RepliersAreStrong, CommitsAreLed, ReportsAreCommits, no_repliers,
              Log!Init

\* What was reported was committed by a leader with a majority, and is in the log
\* of each later one.
THEOREM CommitsInvariance == Spec => [](LogInv /\ Commits)
<1>1. Init => LogInv /\ Commits
  BY TypeInit, VotesInit, LogInit, CommitInit DEF LogInv
<1>2. LogInv => TypeOK
  BY DEF LogInv
<1> QED
  BY <1>1, <1>2, LogStep, CommitStep, NextIsAny, PTL DEF Spec

\* The servers implement one log that only grows and that each reports in order,
\* without gaps or repetitions, whatever fails.
THEOREM ImplementsLog == Spec => LogSpec
<1>1. Init => Log!Init
  BY CommitInit
<1>2. LogInv => TypeOK
  BY DEF LogInv
<1> QED
  BY <1>1, <1>2, CommitStep, CommitsInvariance, NextIsAny, PTL DEF Spec, LogSpec, Log!Spec
=============================================================================
