--------------------------- MODULE KvServersProofs ---------------------------
(***************************************************************************)
(* Proofs about KvServers, for any servers, clients, keys, values,         *)
(* commands and bounds: what the stores hold and what responses tell is    *)
(* what the log says; a client that never had another session gets the     *)
(* answer to its call; one that had may get those to earlier requests of   *)
(* its own, between the two halves of a NotLeader too, and no others.      *)
(***************************************************************************)
EXTENDS KvServers, WellFoundedInduction, TLAPS

Line == [client : Client, seqnum : Nat, tag : Tag, key : Key, arg2 : Stored, arg3 : Stored]
Item == [kind : {"response"}, of : Response] \cup {header, NotLeader}
Loop == [pc : {"select", "register", "replicate", "reject", "reject body"},
         fd : Fd \cup {nobody}, line : Line \cup {no_line}]
Session == [state : {"away", "idle", "waiting", "done"}, server : Server \cup {nobody},
            fd : Fd \cup {nobody}, request_id : Nat, call : Call \cup {no_call}, retry : BOOLEAN]

\* The types of what the consensus layer and the stores have.
StoreTypes ==
    /\ log \in Seq(Line) /\ proposed \subseteq Line
    /\ applied \in [Server -> Nat]
    /\ m_kvstore \in [Server -> [Key -> Stored \cup {Null}]]
    /\ m_response_cache \in [Server -> [Client -> Response \cup {Null}]]
    /\ committer \in [Server -> {"idle", "locked"}]

\* The types of what the event loops, the connections and the clients have.
NetTypes ==
    /\ up \in [Server -> BOOLEAN]
    /\ m_connected_clients \in [Server -> [Client -> Fd \cup {nobody}]]
    /\ m_all_fds \in [Server -> SUBSET Fd]
    /\ loop \in [Server -> Loop]
    /\ peer \in [Server -> [Fd -> Client \cup {nobody}]]
    /\ inbox \in [Server -> [Fd -> Seq(Line)]]
    /\ outbox \in [Server -> [Fd -> Seq(Item)]]
    /\ session \in [Client -> Session]

\* A request that is handled, a session that is open and a call that is made are there.
Present ==
    /\ \A s \in Server : loop[s].pc # "select" => loop[s].line \in Line /\ loop[s].fd \in Fd
    /\ \A c \in Client :
        /\ at_work(c) => session[c].server \in Server /\ session[c].fd \in Fd
        /\ session[c].retry \/ session[c].state = "waiting" => session[c].call \in Call

Types == StoreTypes /\ NetTypes /\ Present

\* A change at one place of a table of tables.
LEMMA Nested ==
  ASSUME NEW S, NEW F, NEW V, NEW g \in [S -> [F -> V]], NEW s \in S, NEW f \in F, NEW v \in V
  PROVE  /\ [g EXCEPT ![s][f] = v] \in [S -> [F -> V]]
         /\ \A t \in S, d \in F : [g EXCEPT ![s][f] = v][t][d] = IF t = s /\ d = f THEN v ELSE g[t][d]
  OBVIOUS

\* A table all of whose rows but one stay.
LEMMA Row ==
  ASSUME NEW S, NEW R, NEW g \in [S -> R], NEW s \in S, NEW r \in R
  PROVE  /\ [g EXCEPT ![s] = r] \in [S -> R]
         /\ \A t \in S : [g EXCEPT ![s] = r][t] = IF t = s THEN r ELSE g[t]
  OBVIOUS

LEMMA InitTypes == Init => Types
<1> SUFFICES ASSUME Init PROVE Types
  OBVIOUS
<1>0. <<>> \in Seq(Line) /\ <<>> \in Seq(Item) /\ 0 \in Nat
  OBVIOUS
<1>1. StoreTypes
  BY <1>0 DEF Init, StoreTypes
<1>2. NetTypes
  <2>1. selecting \in Loop
    BY DEF selecting, Loop
  <2>2. [state |-> "away", server |-> nobody, fd |-> nobody, request_id |-> 0,
         call |-> no_call, retry |-> FALSE] \in Session
    BY DEF Session
  <2> QED
    BY <1>0, <2>1, <2>2 DEF Init, NetTypes
<1>3. Present
  BY DEF Init, Present, at_work, selecting
<1> QED
  BY <1>1, <1>2, <1>3 DEF Types
-----------------------------------------------------------------------------
(***************************************************************************)
(* What the log says.  It only grows, and what its first entries say stays *)
(* as it is; each further entry does to the store what execute_request     *)
(* does.                                                                   *)
(***************************************************************************)

\* Any set of numbers that is not empty has a least one.
Less == {ss \in Nat \X Nat : ss[1] < ss[2]}

LEMMA LeastNumber == \A T \in SUBSET Nat : T # {} => \E x \in T : \A y \in T : x <= y
<1> SUFFICES ASSUME NEW T \in SUBSET Nat, T # {}
             PROVE  \E x \in T : \A y \in T : x <= y
  OBVIOUS
<1>1. IsWellFoundedOn(Less, Nat)
  BY NatLessThanWellFounded DEF OpToRel, Less
<1>2. PICK x \in T : \A y \in T : ~(<<y, x>> \in Less)
  BY <1>1, WFMin
<1>3. \A y \in T : x <= y
  <2> SUFFICES ASSUME NEW y \in T, y < x
               PROVE  FALSE
    OBVIOUS
  <2>1. <<y, x>> \in Less
    BY DEF Less
  <2> QED
    BY <1>2, <2>1
<1> QED
  BY <1>3

\* There is a last write, if none the place 0.
LEMMA LastWrite ==
  ASSUME NEW k, NEW p \in Nat
  PROVE  /\ last_write(k, p) \in writes(k, p)
         /\ \A r \in writes(k, p) : r <= last_write(k, p)
         /\ last_write(k, p) \in 0 .. p
<1>1. writes(k, p) \subseteq 0 .. p /\ 0 \in writes(k, p)
  BY DEF writes
<1>2. PICK W, U : W = writes(k, p) /\ U = {n \in Nat : \A q \in W : q <= n}
  OBVIOUS
<1>3. p \in U /\ U \in SUBSET Nat
  BY <1>1, <1>2
<1>4. PICK m \in U : \A n \in U : m <= n
  BY <1>3, LeastNumber
<1>5. m \in W
  <2> SUFFICES ASSUME m \notin W PROVE FALSE
    OBVIOUS
  <2>1. m \in Nat \ {0}
    BY <1>1, <1>2, <1>4
  <2>2. \A q \in W : q <= m - 1
    BY <1>1, <1>2, <1>4, <2>1
  <2>3. m - 1 \in U
    BY <1>2, <2>1, <2>2
  <2> QED
    BY <1>4, <2>1, <2>3
<1>6. m \in W /\ \A q \in W : q <= m
  BY <1>2, <1>4, <1>5
<1> QED
  BY <1>1, <1>2, <1>6 DEF last_write

LEMMA FirstBehind ==
  ASSUME NEW B \in SUBSET Nat, B # {}
  PROVE  LET q == CHOOSE q \in B : \A r \in B : q <= r
         IN  q \in B /\ \A r \in B : q <= r
  BY LeastNumber

\* What the first p entries say depends on these entries only.
LEMMA LogGrows ==
  ASSUME StoreTypes, NEW l \in Line, log' = Append(log, l)
  PROVE  /\ Len(log') = Len(log) + 1 /\ Len(log) \in Nat
         /\ log'[Len(log) + 1] = l
         /\ \A p \in 1 .. Len(log) : log'[p] = log[p] /\ effective(p)' = effective(p)
         /\ \A k, p : p \in 0 .. Len(log) => holds(k, p)' = holds(k, p)
<1>1. /\ Len(log') = Len(log) + 1 /\ Len(log) \in Nat
      /\ \A p \in 1 .. Len(log) : log'[p] = log[p]
      /\ log'[Len(log) + 1] = l
  BY DEF StoreTypes
<1>2. \A p \in 1 .. Len(log) : effective(p)' = effective(p)
  BY <1>1 DEF effective
<1>3. ASSUME NEW k, NEW p \in 0 .. Len(log) PROVE holds(k, p)' = holds(k, p)
  <2>1. \A T : \A q \in 1 .. p : calls(q, k, T)' <=> calls(q, k, T)
    BY <1>1, <1>2 DEF calls
  <2>2. \A q \in 1 .. p : inserts(q, k)' <=> inserts(q, k)
    BY <1>1, <2>1 DEF inserts
  <2>3. writes(k, p)' = writes(k, p)
    BY <2>1 DEF writes
  <2>4. last_write(k, p)' = last_write(k, p)
    BY <2>3 DEF last_write
  <2>5. last_write(k, p) \in 0 .. p
    BY LastWrite
  <2>6. behind(k, p)' = behind(k, p) /\ behind(k, p) \subseteq 1 .. p
    BY <2>2, <2>4, <2>5 DEF behind
  <2>7. first_behind(k, p)' = first_behind(k, p)
    BY <2>6 DEF first_behind
  <2>8. behind(k, p) # {} => first_behind(k, p) \in 1 .. p
    BY <2>6, FirstBehind DEF first_behind
  <2>9. last_write(k, p) # 0 => last_write(k, p) \in 1 .. p
    BY <2>5
  <2>10. \A q \in 1 .. p : log'[q] = log[q]
    BY <1>1
  <2> QED
    BY <2>4, <2>6, <2>7, <2>8, <2>9, <2>10 DEF holds
<1> QED
  BY <1>1, <1>2, <1>3

\* What is stored is never the null pointer.
LEMMA HoldsType ==
  ASSUME StoreTypes, NEW k, NEW p \in 0 .. Len(log)
  PROVE  holds(k, p) \in Stored \cup {Null}
<1>1. \A q \in 1 .. Len(log) : log[q] \in Line /\ log[q].arg2 \in Stored
  <2>1. \A q \in 1 .. Len(log) : log[q] \in Line
    BY DEF StoreTypes
  <2> QED
    BY <2>1 DEF Line
<1>2. p \in Nat /\ p <= Len(log) /\ Len(log) \in Nat
  BY DEF StoreTypes
<1>3. last_write(k, p) # 0 => last_write(k, p) \in 1 .. Len(log)
  BY <1>2, LastWrite
<1>4. behind(k, p) \in SUBSET Nat /\ behind(k, p) \subseteq 1 .. Len(log)
  BY <1>2, LastWrite DEF behind
<1>5. behind(k, p) # {} =>
         first_behind(k, p) \in 1 .. Len(log)
  BY <1>4, FirstBehind DEF first_behind
<1> QED
  BY <1>1, <1>3, <1>5 DEF holds

\* What entry p does to what is stored.
LEMMA HoldsNext ==
  ASSUME StoreTypes, NEW k \in Key, NEW p \in 1 .. Len(log)
  PROVE  holds(k, p) = IF effective(p) /\ log[p].key = k
                       THEN value_after(parse_request(log[p]), holds(k, p - 1))
                       ELSE holds(k, p - 1)
<1>1. PICK w, B : w = last_write(k, p - 1) /\ B = behind(k, p - 1)
  OBVIOUS
<1>2. /\ p \in Nat /\ p - 1 \in Nat /\ p - 1 \in 0 .. Len(log) /\ Len(log) \in Nat
      /\ w \in 0 .. p - 1 /\ w \in writes(k, p - 1) /\ \A r \in writes(k, p - 1) : r <= w
  <2>1. p \in Nat /\ p - 1 \in Nat /\ p - 1 \in 0 .. Len(log) /\ Len(log) \in Nat
    BY DEF StoreTypes
  <2> QED
    BY <1>1, <2>1, LastWrite
<1>3. B = {q \in w + 1 .. p - 1 : inserts(q, k)} /\ B \in SUBSET Nat
  BY <1>1, <1>2 DEF behind
<1>4. \A q \in 1 .. Len(log) : log[q] \in Line
  BY DEF StoreTypes
<1>5. \A q \in 1 .. Len(log) : log[q].arg2 \in Stored /\ log[q].arg3 \in Stored /\ log[q].tag \in Tag
  BY <1>4 DEF Line
<1>6. PICK old : old = holds(k, p - 1)
  OBVIOUS
<1>7. old = IF w # 0 /\ log[w].tag = "PUT" THEN log[w].arg2
            ELSE IF B = {} THEN Null
            ELSE log[first_behind(k, p - 1)].arg2
  BY <1>1, <1>6 DEF holds
<1>8. last_write(k, p) \in writes(k, p) /\ \A r \in writes(k, p) : r <= last_write(k, p)
  BY <1>2, LastWrite
<1>9. PICK e, r : e = log[p] /\ r = parse_request(e)
  OBVIOUS
<1>10. /\ r.tag = e.tag /\ r.value = (IF e.tag \in {"GET", "DEL"} THEN Null ELSE e.arg2)
       /\ r.expected_value = IF e.tag = "CAS" /\ e.arg3 # Dash THEN e.arg3 ELSE Null
  BY <1>9 DEF parse_request
<1>11. e.tag \in Tag /\ e.arg2 \in Stored /\ e.arg3 \in Stored /\ Null \notin Stored
  BY <1>5, <1>9, NullAssumption
<1>12. CASE calls(p, k, {"PUT", "DEL"})
  <2>1. p \in writes(k, p) /\ writes(k, p) \subseteq 0 .. p
    BY <1>2, <1>12 DEF writes
  <2>2. last_write(k, p) = p
    BY <1>2, <1>8, <2>1
  <2>3. behind(k, p) = {}
    BY <1>2, <2>2 DEF behind
  <2>4. holds(k, p) = IF e.tag = "PUT" THEN e.arg2 ELSE Null
    BY <1>2, <1>9, <2>2, <2>3 DEF holds
  <2>5. effective(p) /\ e.key = k /\ e.tag \in {"PUT", "DEL"}
    BY <1>9, <1>12 DEF calls
  <2>6. value_after(r, old) = IF e.tag = "PUT" THEN e.arg2 ELSE Null
    BY <1>10, <2>5 DEF value_after
  <2> QED
    BY <1>6, <1>9, <2>4, <2>5, <2>6
<1>13. CASE ~calls(p, k, {"PUT", "DEL"})
  <2>1. writes(k, p) = writes(k, p - 1)
    BY <1>2, <1>13 DEF writes
  <2>2. last_write(k, p) = w
    BY <1>1, <2>1 DEF last_write
  <2>3. behind(k, p) = B \cup {q \in {p} : inserts(q, k)}
    BY <1>2, <1>3, <2>2 DEF behind
  <2>4. w # 0 => w \in 1 .. Len(log)
    BY <1>2
  <2>5. CASE inserts(p, k)
    <3>1. effective(p) /\ e.key = k /\ e.tag = "CAS" /\ e.arg3 = Dash
      BY <1>9, <2>5 DEF inserts, calls
    <3>2. value_after(r, old) = IF old = Null THEN e.arg2 ELSE old
      BY <1>10, <3>1 DEF value_after, same_pointer
    <3>3. behind(k, p) = B \cup {p}
      BY <2>3, <2>5
    <3>4. CASE w # 0 /\ log[w].tag = "PUT"
      <4>1. old = log[w].arg2 /\ old # Null /\ holds(k, p) = log[w].arg2
        BY <1>5, <1>7, <1>11, <2>2, <2>4, <3>4 DEF holds
      <4> QED
        BY <1>6, <1>9, <3>1, <3>2, <4>1
    <3>5. CASE ~(w # 0 /\ log[w].tag = "PUT") /\ B = {}
      <4>1. old = Null
        BY <1>7, <3>5
      <4>2. behind(k, p) = {p} /\ p <= p
        BY <1>2, <3>3, <3>5
      <4>3. first_behind(k, p) = p
        BY <4>2 DEF first_behind
      <4>4. holds(k, p) = e.arg2
        BY <1>9, <2>2, <3>5, <4>2, <4>3 DEF holds
      <4> QED
        BY <1>6, <1>9, <3>1, <3>2, <4>1, <4>4
    <3>6. CASE ~(w # 0 /\ log[w].tag = "PUT") /\ B # {}
      <4>1. PICK f : f = first_behind(k, p - 1)
        OBVIOUS
      <4>2. f \in B /\ \A s \in B : f <= s
        BY <1>1, <1>3, <3>6, <4>1, LeastNumber DEF first_behind
      <4>3. f \in 1 .. Len(log) /\ f < p
        BY <1>2, <1>3, <4>2
      <4>4. old = log[f].arg2 /\ old # Null
        BY <1>5, <1>7, <1>11, <3>6, <4>1, <4>3
      <4>5. PICK C : C = behind(k, p)
        OBVIOUS
      <4>6. f \in C /\ (\A s \in C : f <= s) /\ C \in SUBSET Nat
        BY <1>2, <1>3, <3>3, <4>2, <4>3, <4>5
      <4>7. \A q \in C : (\A s \in C : q <= s) => q = f
        BY <4>6
      <4>8. first_behind(k, p) = f
        BY <4>5, <4>6, <4>7 DEF first_behind
      <4>9. holds(k, p) = log[f].arg2
        BY <2>2, <3>6, <4>5, <4>6, <4>8 DEF holds
      <4> QED
        BY <1>6, <1>9, <3>1, <3>2, <4>4, <4>9
    <3> QED
      BY <3>4, <3>5, <3>6
  <2>6. CASE ~inserts(p, k)
    <3>1. behind(k, p) = B
      BY <2>3, <2>6
    <3>a. first_behind(k, p) = first_behind(k, p - 1)
      BY <1>1, <3>1 DEF first_behind
    <3>2. holds(k, p) = old
      BY <1>7, <2>2, <3>1, <3>a DEF holds
    <3>3. ASSUME effective(p), e.key = k PROVE value_after(r, old) = old
      <4>1. e.tag \in {"GET", "CAS", "CAD"} /\ (e.tag = "CAS" => e.arg3 # Dash)
        BY <1>9, <1>11, <1>13, <2>6, <3>3 DEF calls, inserts, Tag
      <4> QED
        BY <1>10, <1>11, <4>1 DEF value_after, same_pointer
    <3> QED
      BY <1>6, <1>9, <3>2, <3>3
  <2> QED
    BY <2>5, <2>6
<1> QED
  BY <1>12, <1>13
-----------------------------------------------------------------------------
(***************************************************************************)
(* Types.                                                                  *)
(***************************************************************************)

\* What is sent to a descriptor that has nobody at the other end is lost.
Sends(s, f, item) ==
    /\ outbox' \in [Server -> [Fd -> Seq(Item)]]
    /\ \A t \in Server, d \in Fd :
        outbox'[t][d] = IF t = s /\ d = f /\ peer[s][f] # nobody
                        THEN Append(outbox[t][d], item) ELSE outbox[t][d]

LEMMA ToStream ==
  ASSUME NetTypes, NEW s \in Server, NEW f \in Fd, NEW item \in Item,
         outbox' = to_stream(s, f, item)
  PROVE  Sends(s, f, item)
<1>1. outbox \in [Server -> [Fd -> Seq(Item)]]
  BY DEF NetTypes
<1>2. PICK v : v = Append(outbox[s][f], item)
  OBVIOUS
<1>3. v \in Seq(Item)
  BY <1>1, <1>2
<1>4. CASE peer[s][f] = nobody
  BY <1>1, <1>4 DEF to_stream, Sends
<1>5. CASE peer[s][f] # nobody
  <2>1. outbox' = [outbox EXCEPT ![s][f] = v]
    BY <1>2, <1>5 DEF to_stream
  <2> QED
    BY <1>1, <1>2, <1>3, <1>5, <2>1, Nested DEF Sends
<1> QED
  BY <1>4, <1>5

LEMMA SendResponse ==
  ASSUME NetTypes, NEW s \in Server, NEW r \in Response, send_response(s, r)
  PROVE  \/ outbox' = outbox
         \/ /\ m_connected_clients[s][r.client] \in Fd
            /\ Sends(s, m_connected_clients[s][r.client], frame(r))
<1>1. PICK f : f = m_connected_clients[s][r.client]
  OBVIOUS
<1>2. f \in Fd \cup {nobody}
  BY <1>1 DEF NetTypes, Response
<1>3. frame(r) \in Item
  BY DEF frame, Item
<1>4. CASE f = nobody
  BY <1>1, <1>4 DEF send_response
<1>5. CASE f # nobody
  <2>1. f \in Fd /\ outbox' = to_stream(s, f, frame(r))
    BY <1>1, <1>2, <1>5 DEF send_response
  <2> QED
    BY <1>1, <1>3, <2>1, ToStream
<1> QED
  BY <1>4, <1>5

\* What execute_request does with what it finds, for a request of the log.
LEMMA RequestTypes ==
  ASSUME NEW l \in Line, NEW old \in Stored \cup {Null}
  PROVE  /\ value_after(parse_request(l), old) \in Stored \cup {Null}
         /\ response(parse_request(l), old) \in Response
         /\ parse_request(l).client = l.client /\ parse_request(l).seqnum = l.seqnum
         /\ parse_request(l).key = l.key
<1>1. PICK r : r = parse_request(l)
  OBVIOUS
<1>2. /\ r.client = l.client /\ r.seqnum = l.seqnum /\ r.key = l.key /\ r.tag = l.tag
      /\ r.value = IF l.tag \in {"GET", "DEL"} THEN Null ELSE l.arg2
  BY <1>1 DEF parse_request
<1>3. l.client \in Client /\ l.seqnum \in Nat /\ l.key \in Key /\ l.tag \in Tag /\ l.arg2 \in Stored
  BY DEF Line
<1>4. value_after(r, old) \in Stored \cup {Null}
  BY <1>2, <1>3 DEF value_after, Tag
<1>5. response(r, old) \in Response
  BY <1>2, <1>3, <1>4 DEF response, Response
<1> QED
  BY <1>1, <1>2, <1>4, <1>5

\* The callback executes an entry of the log.
Behind == \A s \in Server : /\ applied[s] <= Len(log)
                            /\ committer[s] = "locked" => applied[s] < Len(log)

\* The callback of s for entry p, a line l with request r, what it does where.
LEMMA Callback ==
  ASSUME Types, Behind, NEW s \in Server, committed_callback(s)
  PROVE  \E l \in Line :
           LET p == applied[s] + 1
               r == parse_request(l)
               old == m_kvstore[s][l.key]
           IN  /\ p \in 1 .. Len(log) /\ log[p] = l /\ r.client = l.client /\ r.seqnum = l.seqnum /\ r.key = l.key
               /\ old \in Stored \cup {Null} /\ response(r, old) \in Response
               /\ up[s] /\ applied' = [applied EXCEPT ![s] = p]
               /\ committer' = [committer EXCEPT ![s] = "idle"]
               /\ \/ /\ is_new(m_response_cache[s], r)
                     /\ m_kvstore' = [m_kvstore EXCEPT ![s][l.key] = value_after(r, old)]
                     /\ m_response_cache' = [m_response_cache EXCEPT ![s][l.client] = response(r, old)]
                     /\ send_response(s, response(r, old))
                  \/ /\ ~is_new(m_response_cache[s], r)
                     /\ \/ /\ is_repeated(m_response_cache[s], r)
                           /\ send_response(s, m_response_cache[s][r.client])
                        \/ UNCHANGED outbox
                     /\ UNCHANGED <<m_kvstore, m_response_cache>>
               /\ UNCHANGED <<log, proposed, up, m_connected_clients, m_all_fds, mut, loop,
                              peer, inbox, session>>
<1>1. PICK p, l : p = applied[s] + 1 /\ l = log[p]
  OBVIOUS
<1>2. p \in 1 .. Len(log) /\ l \in Line
  <2>1. committer[s] = "locked"
    BY DEF committed_callback
  <2>2. applied[s] \in Nat /\ applied[s] < Len(log) /\ Len(log) \in Nat
    BY <2>1 DEF Behind, Types, StoreTypes
  <2>3. p \in 1 .. Len(log)
    BY <1>1, <2>2
  <2> QED
    BY <1>1, <2>3 DEF Types, StoreTypes
<1>3. PICK r : r = parse_request(l)
  OBVIOUS
<1>4. l.key \in Key /\ r.key = l.key /\ r.client = l.client /\ r.seqnum = l.seqnum
  BY <1>2, <1>3 DEF Line, parse_request
<1>5. PICK old : old = m_kvstore[s][l.key]
  OBVIOUS
<1>6. old \in Stored \cup {Null}
  BY <1>4, <1>5 DEF Types, StoreTypes
<1>7. response(r, old) \in Response
  BY <1>2, <1>3, <1>6, RequestTypes
<1>8. execute_request(s, r)
  BY <1>1, <1>3 DEF committed_callback
<1>9. \/ /\ is_new(m_response_cache[s], r)
         /\ m_kvstore' = [m_kvstore EXCEPT ![s][l.key] = value_after(r, old)]
         /\ m_response_cache' = [m_response_cache EXCEPT ![s][l.client] = response(r, old)]
         /\ send_response(s, response(r, old))
      \/ /\ ~is_new(m_response_cache[s], r)
         /\ \/ /\ is_repeated(m_response_cache[s], r)
               /\ send_response(s, m_response_cache[s][r.client])
            \/ UNCHANGED outbox
         /\ UNCHANGED <<m_kvstore, m_response_cache>>
  BY <1>4, <1>5, <1>8 DEF execute_request
<1>10. /\ up[s] /\ applied' = [applied EXCEPT ![s] = p]
       /\ committer' = [committer EXCEPT ![s] = "idle"]
       /\ UNCHANGED <<log, proposed, up, m_connected_clients, m_all_fds, mut, loop,
                      peer, inbox, session>>
  BY <1>1 DEF committed_callback, log_vars, fd_vars, loop_vars
<1> QED
  BY <1>1, <1>2, <1>3, <1>4, <1>5, <1>6, <1>7, <1>9, <1>10

\* The callback answers with a new response or with the one it has kept.
LEMMA CallbackSends ==
  ASSUME Types, Behind, NEW s \in Server, committed_callback(s)
  PROVE  /\ outbox' \in [Server -> [Fd -> Seq(Item)]]
         /\ \/ outbox' = outbox
            \/ \E x \in Response :
                 LET l == log[applied[s] + 1]
                 IN  /\ \/ /\ is_new(m_response_cache[s], parse_request(l))
                           /\ x = response(parse_request(l), m_kvstore[s][l.key])
                        \/ x = m_response_cache[s][l.client] /\ x.seqnum = l.seqnum
                     /\ m_connected_clients[s][x.client] \in Fd
                     /\ Sends(s, m_connected_clients[s][x.client], frame(x))
<1>1. PICK l \in Line :
        /\ log[applied[s] + 1] = l
        /\ parse_request(l).client = l.client /\ parse_request(l).seqnum = l.seqnum
        /\ response(parse_request(l), m_kvstore[s][l.key]) \in Response
        /\ \/ /\ is_new(m_response_cache[s], parse_request(l))
              /\ send_response(s, response(parse_request(l), m_kvstore[s][l.key]))
           \/ /\ is_repeated(m_response_cache[s], parse_request(l))
              /\ send_response(s, m_response_cache[s][l.client])
           \/ UNCHANGED outbox
  BY Callback
<1>2. NetTypes /\ outbox \in [Server -> [Fd -> Seq(Item)]]
  BY DEF Types, NetTypes
<1>3. CASE /\ is_new(m_response_cache[s], parse_request(l))
           /\ send_response(s, response(parse_request(l), m_kvstore[s][l.key]))
  <2>1. PICK x \in Response : x = response(parse_request(l), m_kvstore[s][l.key])
    BY <1>1
  <2>2. \/ outbox' = outbox
        \/ /\ m_connected_clients[s][x.client] \in Fd
           /\ Sends(s, m_connected_clients[s][x.client], frame(x))
    BY <1>2, <1>3, <2>1, SendResponse
  <2> QED
    BY <1>1, <1>2, <1>3, <2>1, <2>2 DEF Sends
<1>4. CASE /\ is_repeated(m_response_cache[s], parse_request(l))
           /\ send_response(s, m_response_cache[s][l.client])
  <2>1. l.client \in Client
    BY DEF Line
  <2>2. PICK x \in Response : x = m_response_cache[s][l.client] /\ x.seqnum = l.seqnum
    BY <1>1, <1>4, <2>1 DEF is_repeated, Types, StoreTypes
  <2>3. \/ outbox' = outbox
        \/ /\ m_connected_clients[s][x.client] \in Fd
           /\ Sends(s, m_connected_clients[s][x.client], frame(x))
    BY <1>2, <1>4, <2>2, SendResponse
  <2> QED
    BY <1>1, <1>2, <2>2, <2>3 DEF Sends
<1> QED
  BY <1>1, <1>2, <1>3, <1>4

LEMMA CallbackTypes ==
  ASSUME Types, Behind, NEW s \in Server, committed_callback(s)
  PROVE  Types'
<1>1. PICK l \in Line :
        LET p == applied[s] + 1
            r == parse_request(l)
            old == m_kvstore[s][l.key]
        IN  /\ p \in 1 .. Len(log)
            /\ old \in Stored \cup {Null} /\ response(r, old) \in Response
            /\ applied' = [applied EXCEPT ![s] = p]
            /\ committer' = [committer EXCEPT ![s] = "idle"]
            /\ \/ /\ m_kvstore' = [m_kvstore EXCEPT ![s][l.key] = value_after(r, old)]
                  /\ m_response_cache' = [m_response_cache EXCEPT ![s][l.client] = response(r, old)]
               \/ UNCHANGED <<m_kvstore, m_response_cache>>
            /\ UNCHANGED <<log, proposed, up, m_connected_clients, m_all_fds, mut, loop,
                           peer, inbox, session>>
  BY Callback
<1>2. PICK v, x : v = value_after(parse_request(l), m_kvstore[s][l.key])
                  /\ x = response(parse_request(l), m_kvstore[s][l.key])
  OBVIOUS
<1>3. v \in Stored \cup {Null} /\ x \in Response
  BY <1>1, <1>2, RequestTypes
<1>4. l.key \in Key /\ l.client \in Client
  BY DEF Line
<1>5. PICK key, c : key = l.key /\ c = l.client
  OBVIOUS
<1>51. key \in Key /\ c \in Client
  BY <1>4, <1>5
<1>52. \/ /\ m_kvstore' = [m_kvstore EXCEPT ![s][key] = v]
         /\ m_response_cache' = [m_response_cache EXCEPT ![s][c] = x]
      \/ UNCHANGED <<m_kvstore, m_response_cache>>
  BY <1>1, <1>2, <1>5
<1>53. /\ m_kvstore \in [Server -> [Key -> Stored \cup {Null}]]
      /\ m_response_cache \in [Server -> [Client -> Response \cup {Null}]]
      /\ applied \in [Server -> Nat] /\ committer \in [Server -> {"idle", "locked"}]
      /\ log \in Seq(Line) /\ proposed \subseteq Line
  BY DEF Types, StoreTypes
<1>6. /\ m_kvstore' \in [Server -> [Key -> Stored \cup {Null}]]
      /\ m_response_cache' \in [Server -> [Client -> Response \cup {Null}]]
  <2>1. [m_kvstore EXCEPT ![s][key] = v] \in [Server -> [Key -> Stored \cup {Null}]]
    BY <1>3, <1>51, <1>53
  <2>2. [m_response_cache EXCEPT ![s][c] = x] \in [Server -> [Client -> Response \cup {Null}]]
    <3>1. x \in Response \cup {Null}
      BY <1>3
    <3> QED
      BY <1>51, <1>53, <3>1, Nested
  <2> QED
    BY <1>52, <1>53, <2>1, <2>2
<1>7. StoreTypes'
  <2>1. applied' \in [Server -> Nat] /\ committer' \in [Server -> {"idle", "locked"}]
        /\ log' = log /\ proposed' = proposed
    BY <1>1, <1>53
  <2> QED
    BY <1>6, <1>53, <2>1 DEF StoreTypes
<1>8. NetTypes' /\ Present'
  BY <1>1, CallbackSends DEF Types, NetTypes, Present, at_work
<1> QED
  BY <1>7, <1>8 DEF Types

\* The steps of the consensus layer.
LEMMA ConsensusTypes ==
  ASSUME Types, (\E l \in proposed : commit(l)) \/ \E s \in Server : lock(s)
  PROVE  Types'
<1>1. ASSUME NEW l \in proposed, commit(l) PROVE Types'
  <2>1. /\ log' = Append(log, l) /\ proposed' = proposed \ {l}
        /\ UNCHANGED <<up, applied, m_kvstore, m_response_cache, committer, m_connected_clients,
                       m_all_fds, loop, peer, inbox, outbox, session>>
    BY <1>1 DEF commit, store_vars, fd_vars, loop_vars, stream_vars
  <2>2. log' \in Seq(Line) /\ proposed' \subseteq Line
    BY <2>1 DEF Types, StoreTypes
  <2> QED
    BY <2>1, <2>2 DEF Types, StoreTypes, NetTypes, Present, at_work
<1>2. ASSUME NEW s \in Server, lock(s) PROVE Types'
  <2>1. /\ committer' = [committer EXCEPT ![s] = "locked"]
        /\ UNCHANGED <<log, proposed, up, applied, m_kvstore, m_response_cache,
                       m_connected_clients, m_all_fds, loop, peer, inbox, outbox, session>>
    BY <1>2 DEF lock, log_vars, fd_vars, loop_vars, stream_vars
  <2> QED
    BY <2>1 DEF Types, StoreTypes, NetTypes, Present, at_work
<1> QED
  BY <1>1, <1>2

\* What a step of the loop or of a client leaves of the store and the log.
StoreSame == UNCHANGED <<log, applied, m_kvstore, m_response_cache, committer>>

LEMMA StoreSameTypes ==
  ASSUME StoreTypes, StoreSame, proposed' \subseteq Line
  PROVE  StoreTypes'
  BY DEF StoreTypes, StoreSame

\* The event loop at its connections.
LEMMA ConnectionTypes ==
  ASSUME Types, NEW s \in Server,
         \/ \E c \in Client : accept(s, c)
         \/ \E f \in Fd : disconnect(s, f) \/ receive(s, f) \/ body_did_not_come_at_once(s, f)
  PROVE  Types' /\ StoreSame /\ UNCHANGED proposed
<1>0. <<>> \in Seq(Line) /\ <<>> \in Seq(Item)
  OBVIOUS
<1>1. StoreSame /\ UNCHANGED proposed
  BY DEF accept, disconnect, receive, body_did_not_come_at_once, halt, StoreSame, log_vars, store_vars
<1>2. StoreTypes'
  BY <1>1, StoreSameTypes DEF Types, StoreTypes
<1>3. ASSUME NEW c \in Client, accept(s, c) PROVE NetTypes' /\ Present'
  <2>1. PICK f \in Fd :
          /\ m_all_fds' = [m_all_fds EXCEPT ![s] = @ \cup {f}]
          /\ peer' = [peer EXCEPT ![s][f] = c]
          /\ inbox' = [inbox EXCEPT ![s][f] = <<>>]
          /\ outbox' = [outbox EXCEPT ![s][f] = <<>>]
          /\ session' = [session EXCEPT ![c].state = "idle", ![c].server = s, ![c].fd = f]
    BY <1>3 DEF accept
  <2>2. UNCHANGED <<up, m_connected_clients, loop>> /\ session[c].state = "away"
    BY <1>3 DEF accept, loop_vars
  <2>3. PICK x : x = [session[c] EXCEPT !.state = "idle", !.server = s, !.fd = f]
    OBVIOUS
  <2>4. x \in Session /\ x.state = "idle" /\ x.server = s /\ x.fd = f
        /\ x.retry = session[c].retry /\ x.call = session[c].call
    <3>1. session[c] \in Session
      BY DEF Types, NetTypes
    <3> QED
      BY <2>3, <3>1 DEF Session
  <2>5. session' = [session EXCEPT ![c] = x]
    BY <2>1, <2>3
  <2>6. NetTypes'
    <3>1. m_all_fds' \in [Server -> SUBSET Fd]
      BY <2>1 DEF Types, NetTypes
    <3>2. peer' \in [Server -> [Fd -> Client \cup {nobody}]]
      BY <2>1, Nested DEF Types, NetTypes
    <3>3. inbox' \in [Server -> [Fd -> Seq(Line)]] /\ outbox' \in [Server -> [Fd -> Seq(Item)]]
      BY <1>0, <2>1, Nested DEF Types, NetTypes
    <3>4. session' \in [Client -> Session]
      BY <2>4, <2>5 DEF Types, NetTypes
    <3> QED
      BY <2>2, <3>1, <3>2, <3>3, <3>4 DEF Types, NetTypes
  <2>7. Present'
    BY <2>2, <2>4, <2>5 DEF Types, Present, NetTypes, at_work
  <2> QED
    BY <2>6, <2>7
<1>4. ASSUME NEW f \in Fd, disconnect(s, f) PROVE NetTypes' /\ Present'
  <2>1. /\ m_all_fds' = [m_all_fds EXCEPT ![s] = @ \ {f}]
        /\ m_connected_clients' = [m_connected_clients EXCEPT
               ![s] = [c \in Client |-> IF @[c] = f THEN nobody ELSE @[c]]]
        /\ UNCHANGED <<up, loop, peer, inbox, outbox, session>>
    BY <1>4 DEF disconnect, loop_vars, stream_vars
  <2>2. m_connected_clients' \in [Server -> [Client -> Fd \cup {nobody}]]
    BY <2>1 DEF Types, NetTypes
  <2> QED
    BY <2>1, <2>2 DEF Types, NetTypes, Present, at_work
<1>5. ASSUME NEW f \in Fd, receive(s, f) PROVE NetTypes' /\ Present'
  <2>1. PICK l, rest, q : l = Head(inbox[s][f]) /\ rest = Tail(inbox[s][f])
                          /\ q = [pc |-> "register", fd |-> f, line |-> l]
    OBVIOUS
  <2>2. inbox[s][f] \in Seq(Line) /\ inbox[s][f] # <<>>
    BY <1>5 DEF receive, Types, NetTypes
  <2>3. l \in Line /\ rest \in Seq(Line)
    BY <2>1, <2>2
  <2>4. q \in Loop /\ q.fd = f /\ q.line = l
    BY <2>1, <2>3 DEF Loop
  <2>5. /\ loop' = [loop EXCEPT ![s] = q] /\ inbox' = [inbox EXCEPT ![s][f] = rest]
        /\ UNCHANGED <<up, m_connected_clients, m_all_fds, peer, outbox, session>>
    BY <1>5, <2>1 DEF receive, fd_vars
  <2>6. inbox' \in [Server -> [Fd -> Seq(Line)]]
    BY <2>3, <2>5, Nested DEF Types, NetTypes
  <2>7. NetTypes'
    BY <2>4, <2>5, <2>6 DEF Types, NetTypes
  <2>8. Present'
    BY <2>3, <2>4, <2>5 DEF Types, NetTypes, Present, at_work
  <2> QED
    BY <2>7, <2>8
<1>6. ASSUME NEW f \in Fd, body_did_not_come_at_once(s, f) PROVE NetTypes' /\ Present'
  <2>1. /\ up' = [up EXCEPT ![s] = FALSE]
        /\ peer' = [peer EXCEPT ![s] = [d \in Fd |-> nobody]]
        /\ inbox' = [inbox EXCEPT ![s] = [d \in Fd |-> <<>>]]
        /\ outbox' = [outbox EXCEPT ![s] = [d \in Fd |-> <<>>]]
        /\ UNCHANGED <<m_connected_clients, m_all_fds, loop, session>>
    BY <1>6 DEF body_did_not_come_at_once, halt, fd_vars, loop_vars
  <2>2. /\ [d \in Fd |-> nobody] \in [Fd -> Client \cup {nobody}]
        /\ [d \in Fd |-> <<>>] \in [Fd -> Seq(Line)] /\ [d \in Fd |-> <<>>] \in [Fd -> Seq(Item)]
    BY <1>0
  <2> QED
    BY <2>1, <2>2 DEF Types, NetTypes, Present, at_work
<1> QED
  BY <1>1, <1>2, <1>3, <1>4, <1>5, <1>6 DEF Types

\* A handler of the event loop moves on, or goes back to select.
LEMMA LoopMoves ==
  ASSUME NetTypes, Present, NEW s \in Server, loop[s].pc # "select",
         \/ loop' = [loop EXCEPT ![s] = selecting]
         \/ \E l \in {"register", "replicate", "reject", "reject body"} : goto(s, l)
  PROVE  /\ loop' \in [Server -> Loop]
         /\ \A t \in Server : loop'[t].pc # "select" =>
               loop[t].pc # "select" /\ loop'[t].line = loop[t].line /\ loop'[t].fd = loop[t].fd
<1>1. loop \in [Server -> Loop] /\ selecting \in Loop /\ selecting.pc = "select"
  BY DEF NetTypes, selecting, Loop
<1>2. CASE loop' = [loop EXCEPT ![s] = selecting]
  BY <1>1, <1>2
<1>3. ASSUME NEW l \in {"register", "replicate", "reject", "reject body"}, goto(s, l)
      PROVE  /\ loop' \in [Server -> Loop]
             /\ \A t \in Server : loop'[t].pc # "select" =>
                   loop[t].pc # "select" /\ loop'[t].line = loop[t].line /\ loop'[t].fd = loop[t].fd
  <2>1. PICK q : q = [loop[s] EXCEPT !.pc = l]
    OBVIOUS
  <2>2. q \in Loop /\ q.pc = l /\ q.line = loop[s].line /\ q.fd = loop[s].fd
    BY <1>1, <2>1 DEF Loop
  <2>3. loop' = [loop EXCEPT ![s] = q]
    BY <1>3, <2>1 DEF goto
  <2> QED
    BY <1>1, <2>2, <2>3
<1> QED
  BY <1>2, <1>3

LEMMA HandlerTypes ==
  ASSUME Types, NEW s \in Server,
         register(s) \/ replicate(s) \/ reject_header(s) \/ reject_body(s)
  PROVE  /\ Types' /\ StoreSame
         /\ \A t \in Server : loop'[t].pc # "select" =>
               loop[t].pc # "select" /\ loop'[t].line = loop[t].line /\ loop'[t].fd = loop[t].fd
         /\ proposed' \subseteq proposed \cup {loop[s].line}
<1>1. /\ StoreSame /\ loop[s].pc # "select"
      /\ UNCHANGED <<up, m_all_fds, peer, inbox, session>>
      /\ \/ loop' = [loop EXCEPT ![s] = selecting]
         \/ \E l \in {"register", "replicate", "reject", "reject body"} : goto(s, l)
  BY DEF register, replicate, reject_header, reject_body, at, StoreSame, log_vars, store_vars,
         fd_vars, stream_vars
<1>2. /\ loop' \in [Server -> Loop]
      /\ \A t \in Server : loop'[t].pc # "select" =>
            loop[t].pc # "select" /\ loop'[t].line = loop[t].line /\ loop'[t].fd = loop[t].fd
  BY <1>1, LoopMoves DEF Types
<1>3. loop[s].line \in Line /\ loop[s].fd \in Fd
  BY <1>1 DEF Types, Present
<1>4. proposed' \subseteq proposed \cup {loop[s].line}
  BY DEF register, replicate, reject_header, reject_body, log_vars
<1>5. StoreTypes'
  <2>1. proposed' \subseteq Line
    BY <1>3, <1>4 DEF Types, StoreTypes
  <2> QED
    BY <1>1, <2>1, StoreSameTypes DEF Types
<1>6. m_connected_clients' \in [Server -> [Client -> Fd \cup {nobody}]]
  <2>1. CASE UNCHANGED m_connected_clients
    BY <2>1 DEF Types, NetTypes
  <2>2. CASE register(s)
    <3>1. loop[s].line.client \in Client
      BY <1>3 DEF Line
    <3>2. m_connected_clients' =
            [m_connected_clients EXCEPT ![s][loop[s].line.client] = loop[s].fd]
      BY <2>2 DEF register
    <3> QED
      BY <1>3, <3>1, <3>2, Nested DEF Types, NetTypes
  <2> QED
    BY <2>1, <2>2 DEF replicate, reject_header, reject_body, fd_vars
<1>7. outbox' \in [Server -> [Fd -> Seq(Item)]]
  <2>1. header \in Item /\ NotLeader \in Item
    BY DEF Item
  <2>2. \/ outbox' = outbox
        \/ \E item \in Item : outbox' = to_stream(s, loop[s].fd, item)
    BY <2>1 DEF register, replicate, reject_header, reject_body, stream_vars
  <2>3. ASSUME NEW item \in Item, outbox' = to_stream(s, loop[s].fd, item)
        PROVE  outbox' \in [Server -> [Fd -> Seq(Item)]]
    BY <1>3, <2>3, ToStream DEF Types, Sends
  <2> QED
    BY <2>2, <2>3 DEF Types, NetTypes
<1>8. NetTypes'
  BY <1>1, <1>2, <1>6, <1>7 DEF Types, NetTypes
<1>9. Present'
  BY <1>1, <1>2 DEF Types, Present, at_work
<1> QED
  BY <1>1, <1>2, <1>4, <1>5, <1>8, <1>9 DEF Types

\* The line a client writes for a call.
line_of(c, cmd) ==
    [client |-> c, seqnum |-> session[c].request_id, tag |-> cmd.tag, key |-> cmd.key,
     arg2 |-> cmd.arg2, arg3 |-> cmd.arg3]

\* What a client's call is.
Calls(c, l) ==
    /\ l \in Line /\ l.client = c /\ l.seqnum = session[c].request_id
    /\ session[c].state = "idle" /\ session[c].server \in Server /\ session[c].fd \in Fd
    /\ peer[session[c].server][session[c].fd] = c
    /\ inbox' = [inbox EXCEPT ![session[c].server][session[c].fd] = Append(@, l)]
    /\ session'[c].state = "waiting" /\ session'[c].request_id = session[c].request_id + 1
    /\ session'[c].server = session[c].server /\ session'[c].fd = session[c].fd
    /\ \A d \in Client \ {c} : session'[d] = session[d]
    /\ UNCHANGED <<up, peer, outbox, m_connected_clients, m_all_fds, loop, mut>>

LEMMA CallTypes ==
  ASSUME Types, NEW c \in Client, call(c)
  PROVE  /\ Types' /\ StoreSame /\ UNCHANGED proposed
         /\ \E l \in Line : Calls(c, l)
<1>1. PICK cmd \in IF session[c].retry THEN {session[c].call} ELSE Commands : send_command(c, cmd)
  BY DEF call
<1>2. cmd \in Call
  BY <1>1, CallsAssumption DEF Types, Present
<1>3. PICK l, x : /\ l = line_of(c, cmd)
                  /\ x = [session[c] EXCEPT !.state = "waiting", !.call = cmd, !.request_id = @ + 1]
  OBVIOUS
<1>4. session[c] \in Session /\ session[c].request_id \in Nat
  BY DEF Types, NetTypes, Session
<1>5. l \in Line /\ l.client = c /\ l.seqnum = session[c].request_id
  BY <1>2, <1>3, <1>4 DEF line_of, Line, Call
<1>6. x \in Session /\ x.state = "waiting" /\ x.request_id = session[c].request_id + 1
      /\ x.server = session[c].server /\ x.fd = session[c].fd /\ x.call = cmd
      /\ x.retry = session[c].retry
  <2>1. PICK y, n : y = session[c] /\ n = session[c].request_id + 1
    OBVIOUS
  <2>2. y \in Session /\ n \in Nat
    BY <1>4, <2>1
  <2>3. x = [y EXCEPT !.state = "waiting", !.call = cmd, !.request_id = n]
    BY <1>3, <2>1
  <2>4. /\ x.state = "waiting" /\ x.request_id = n /\ x.call = cmd
        /\ x.server = y.server /\ x.fd = y.fd /\ x.retry = y.retry
    BY <2>2, <2>3 DEF Session
  <2>5. x \in Session
    BY <1>2, <2>2, <2>3 DEF Session
  <2> QED
    BY <2>1, <2>4, <2>5
<1>7. session' = [session EXCEPT ![c] = x]
  BY <1>1, <1>3 DEF send_command
<1>8. /\ session[c].state = "idle" /\ session[c].server \in Server /\ session[c].fd \in Fd
      /\ peer[session[c].server][session[c].fd] = c
  BY DEF call, Types, Present, at_work
<1>9. inbox' = [inbox EXCEPT ![session[c].server][session[c].fd] = Append(@, l)]
  BY <1>1, <1>3 DEF send_command, line_of
<1>10. /\ UNCHANGED <<up, peer, outbox, m_connected_clients, m_all_fds, loop, mut>>
       /\ StoreSame /\ UNCHANGED proposed
  BY <1>1 DEF send_command, fd_vars, loop_vars, StoreSame, log_vars, store_vars
<1>11. session' \in [Client -> Session] /\ session'[c] = x
       /\ \A d \in Client \ {c} : session'[d] = session[d]
  BY <1>6, <1>7 DEF Types, NetTypes
<1>12. inbox' \in [Server -> [Fd -> Seq(Line)]]
  <2>1. PICK s, f, v : s = session[c].server /\ f = session[c].fd /\ v = Append(inbox[s][f], l)
    OBVIOUS
  <2>2. v \in Seq(Line) /\ inbox' = [inbox EXCEPT ![s][f] = v]
    BY <1>5, <1>8, <1>9, <2>1 DEF Types, NetTypes
  <2> QED
    BY <1>8, <2>1, <2>2, Nested DEF Types, NetTypes
<1>13. StoreTypes'
  BY <1>10, StoreSameTypes DEF Types, StoreTypes
<1>14. NetTypes'
  BY <1>10, <1>11, <1>12 DEF Types, NetTypes
<1>15. Present'
  BY <1>2, <1>6, <1>8, <1>10, <1>11 DEF Types, Present, at_work
<1>16. Calls(c, l)
  BY <1>5, <1>6, <1>8, <1>9, <1>10, <1>11 DEF Calls
<1> QED
  BY <1>5, <1>10, <1>13, <1>14, <1>15, <1>16 DEF Types

\* A client takes its answer.
LEMMA TakeTypes ==
  ASSUME Types, NEW c \in Client, take_response(c)
  PROVE  /\ Types' /\ StoreSame /\ UNCHANGED proposed
         /\ session'[c].state = "idle"
         /\ session'[c].server = session[c].server /\ session'[c].fd = session[c].fd
         /\ session'[c].request_id = session[c].request_id
         /\ \A d \in Client \ {c} : session'[d] = session[d]
         /\ outbox' = [outbox EXCEPT ![session[c].server][session[c].fd] = Tail(@)]
<1>1. PICK x : x = [session[c] EXCEPT !.state = "idle", !.retry = FALSE]
  OBVIOUS
<1>2. /\ x \in Session /\ x.state = "idle" /\ ~x.retry /\ x.server = session[c].server
      /\ x.fd = session[c].fd /\ x.request_id = session[c].request_id
  BY <1>1 DEF Types, NetTypes, Session
<1>3. session' = [session EXCEPT ![c] = x]
  BY <1>1 DEF take_response
<1>4. session' \in [Client -> Session] /\ session'[c] = x
      /\ \A d \in Client \ {c} : session'[d] = session[d]
  BY <1>2, <1>3 DEF Types, NetTypes
<1>5. PICK s, f, v : s = session[c].server /\ f = session[c].fd /\ v = Tail(outbox[s][f])
  OBVIOUS
<1>6. /\ s \in Server /\ f \in Fd /\ outbox[s][f] # <<>> /\ outbox' = [outbox EXCEPT ![s][f] = v]
  BY <1>5 DEF take_response, replies, Types, Present, at_work
<1>7. outbox' \in [Server -> [Fd -> Seq(Item)]]
  <2>1. v \in Seq(Item)
    BY <1>5, <1>6 DEF Types, NetTypes
  <2> QED
    BY <1>6, <2>1, Nested DEF Types, NetTypes
<1>8. /\ StoreSame
      /\ UNCHANGED <<proposed, up, m_connected_clients, m_all_fds, loop, peer, inbox>>
  BY DEF take_response, StoreSame, log_vars, store_vars, fd_vars, loop_vars
<1>9. StoreTypes'
  BY <1>8, StoreSameTypes DEF Types, StoreTypes
<1>10. NetTypes'
  BY <1>4, <1>7, <1>8 DEF Types, NetTypes
<1>11. Present'
  BY <1>2, <1>4, <1>6, <1>5, <1>8 DEF Types, Present, at_work
<1> QED
  BY <1>2, <1>4, <1>5, <1>6, <1>8, <1>9, <1>10, <1>11 DEF Types

\* A client loses its session.
LEMMA FailTypes ==
  ASSUME Types, NEW c \in Client, fail(c)
  PROVE  /\ Types' /\ StoreSame /\ UNCHANGED proposed
         /\ session'[c].state = IF c \in Failover THEN "away" ELSE "done"
         /\ \A d \in Client \ {c} : session'[d] = session[d]
<1>1. PICK x : x = [session[c] EXCEPT !.state = IF c \in Failover THEN "away" ELSE "done",
                                      !.server = nobody, !.fd = nobody,
                                      !.retry = @ \/ session[c].state = "waiting"]
  OBVIOUS
<1>2. /\ x \in Session /\ x.state = (IF c \in Failover THEN "away" ELSE "done")
      /\ x.retry = (session[c].retry \/ session[c].state = "waiting") /\ x.call = session[c].call
  <2>1. session[c] \in Session
    BY DEF Types, NetTypes
  <2> QED
    BY <1>1, <2>1 DEF Session
<1>3. session' = [session EXCEPT ![c] = x]
  BY <1>1 DEF fail
<1>4. session' \in [Client -> Session] /\ session'[c] = x
      /\ \A d \in Client \ {c} : session'[d] = session[d]
  BY <1>2, <1>3 DEF Types, NetTypes
<1>5. /\ StoreSame
      /\ UNCHANGED <<proposed, up, m_connected_clients, m_all_fds, loop, peer, inbox, outbox>>
  BY DEF fail, StoreSame, log_vars, store_vars, fd_vars, loop_vars, stream_vars
<1>6. StoreTypes'
  BY <1>5, StoreSameTypes DEF Types, StoreTypes
<1>7. NetTypes'
  BY <1>4, <1>5 DEF Types, NetTypes
<1>8. Present'
  BY <1>2, <1>4, <1>5 DEF Types, Present, at_work
<1> QED
  BY <1>2, <1>4, <1>5, <1>6, <1>7, <1>8 DEF Types

\* A socket is closed.
LEMMA HangUpTypes ==
  ASSUME Types, NEW s \in Server, NEW f \in Fd, hang_up(s, f)
  PROVE  Types' /\ StoreSame /\ UNCHANGED proposed
<1>1. /\ peer' = [peer EXCEPT ![s][f] = nobody] /\ outbox' = [outbox EXCEPT ![s][f] = <<>>]
      /\ StoreSame
      /\ UNCHANGED <<proposed, up, m_connected_clients, m_all_fds, loop, inbox, session>>
  BY DEF hang_up, StoreSame, log_vars, store_vars, fd_vars, loop_vars
<1>2. <<>> \in Seq(Item)
  OBVIOUS
<1>3. StoreTypes'
  BY <1>1, StoreSameTypes DEF Types, StoreTypes
<1>4. NetTypes'
  BY <1>1, <1>2, Nested DEF Types, NetTypes
<1>5. Present'
  BY <1>1 DEF Types, Present, at_work
<1> QED
  BY <1>1, <1>3, <1>4, <1>5 DEF Types
-----------------------------------------------------------------------------
(***************************************************************************)
(* AnswersAreTrue.  A cache that has nothing of a client, or its last      *)
(* request, tells whether the next entry is effective; so what a server    *)
(* executes is what the log says.                                          *)
(***************************************************************************)

\* r tells of entry p.
Answer(p, r) ==
    /\ log[p].client = r.client /\ log[p].seqnum = r.seqnum /\ log[p].key = r.key
    /\ effective(p)
    /\ r.old_value = holds(r.key, p - 1) /\ r.value = holds(r.key, p)

Stores == \A s \in Server, k \in Key : m_kvstore[s][k] = holds(k, applied[s])

\* The cache of s keeps the response to the last effective request of c.
Cached(s, c) ==
    LET x == m_response_cache[s][c]
    IN  IF x = Null THEN \A p \in 1 .. applied[s] : log[p].client # c
        ELSE /\ x.client = c
             /\ \E p \in 1 .. applied[s] : Answer(p, x)
             /\ \A p \in 1 .. applied[s] : log[p].client = c => log[p].seqnum <= x.seqnum

Caches == \A s \in Server, c \in Client : Cached(s, c)

Outboxes ==
    \A s \in Server, f \in Fd : \A r \in responses(s, f) : \E p \in 1 .. Len(log) : Answer(p, r)

AnswersInv == Types /\ Behind /\ Stores /\ Caches /\ Outboxes

\* The responses in a stream.
told(o) == {o[i].of : i \in {j \in DOMAIN o : o[j].kind = "response"}}

LEMMA Told ==
  ASSUME NEW o \in Seq(Item)
  PROVE  /\ told(o) \subseteq Response /\ told(<<>>) = {}
         /\ o # <<>> => told(Tail(o)) \subseteq told(o)
         /\ told(Append(o, header)) = told(o) /\ told(Append(o, NotLeader)) = told(o)
         /\ \A r \in Response : told(Append(o, frame(r))) \subseteq told(o) \cup {r}
<1>1. \A i \in DOMAIN o : o[i] \in Item
  OBVIOUS
<1>2. \A x \in Item : x.kind = "response" => x.of \in Response
  BY DEF Item, header, NotLeader
<1>3. told(o) \subseteq Response /\ told(<<>>) = {}
  BY <1>1, <1>2 DEF told
<1>4. ASSUME o # <<>> PROVE told(Tail(o)) \subseteq told(o)
  BY <1>4 DEF told
<1>5. header.kind # "response" /\ NotLeader.kind # "response"
  BY DEF header, NotLeader
<1>6. ASSUME NEW x
      PROVE  told(Append(o, x)) = told(o) \cup (IF x.kind = "response" THEN {x.of} ELSE {})
  <2>1. PICK u : u = Append(o, x)
    OBVIOUS
  <2>2. DOMAIN u = DOMAIN o \cup {Len(o) + 1} /\ Len(o) + 1 \notin DOMAIN o
        /\ (\A i \in DOMAIN o : u[i] = o[i]) /\ u[Len(o) + 1] = x
    BY <2>1
  <2>3. told(u) = told(o) \cup (IF x.kind = "response" THEN {x.of} ELSE {})
    BY <2>2 DEF told
  <2> QED
    BY <2>1, <2>3
<1>7. \A r : frame(r).kind = "response" /\ frame(r).of = r
  BY DEF frame
<1>8. told(Append(o, header)) = told(o) /\ told(Append(o, NotLeader)) = told(o)
  BY <1>5, <1>6
<1>9. \A r \in Response : told(Append(o, frame(r))) \subseteq told(o) \cup {r}
  BY <1>6, <1>7
<1> QED
  BY <1>3, <1>4, <1>8, <1>9

\* What does not answer adds no response to any stream.
Quiet == \A s \in Server, f \in Fd : responses(s, f)' \subseteq responses(s, f)

LEMMA LoopIsQuiet ==
  ASSUME Types, NEW s \in Server, event_loop(s)
  PROVE  Quiet
<1>0. outbox \in [Server -> [Fd -> Seq(Item)]] /\ <<>> \in Seq(Item)
  BY DEF Types, NetTypes
<1>a. told(<<>>) = {}
  BY <1>0, Told
<1>1. (\A t \in Server, d \in Fd : told(outbox'[t][d]) \subseteq told(outbox[t][d])) => Quiet
  BY DEF Quiet, responses, told
<1>2. CASE UNCHANGED outbox
  BY <1>1, <1>2
<1>3. ASSUME NEW c \in Client, accept(s, c) PROVE Quiet
  <2>1. PICK f \in Fd : outbox' = [outbox EXCEPT ![s][f] = <<>>]
    BY <1>3 DEF accept
  <2>2. \A t \in Server, d \in Fd :
           outbox'[t][d] = IF t = s /\ d = f THEN <<>> ELSE outbox[t][d]
    BY <1>0, <2>1, Nested
  <2> QED
    BY <1>1, <1>a, <2>2
<1>4. ASSUME NEW f \in Fd, body_did_not_come_at_once(s, f) PROVE Quiet
  <2>1. outbox' = [outbox EXCEPT ![s] = [d \in Fd |-> <<>>]]
    BY <1>4 DEF body_did_not_come_at_once, halt
  <2>2. \A t \in Server, d \in Fd : outbox'[t][d] = IF t = s THEN <<>> ELSE outbox[t][d]
    BY <1>0, <2>1
  <2> QED
    BY <1>1, <1>a, <2>2
<1>5. ASSUME NEW item \in {header, NotLeader}, loop[s].fd \in Fd,
             outbox' = to_stream(s, loop[s].fd, item)
      PROVE  Quiet
  <2>1. PICK f \in Fd : f = loop[s].fd
    BY <1>5
  <2>2. item \in Item /\ outbox' = to_stream(s, f, item) /\ NetTypes
    BY <1>5, <2>1 DEF Item, Types
  <2>3. Sends(s, f, item)
    BY <2>2, ToStream
  <2>4. \A t \in Server, d \in Fd :
           outbox'[t][d] = outbox[t][d] \/ outbox'[t][d] = Append(outbox[t][d], item)
    BY <2>3 DEF Sends
  <2>5. \A t \in Server, d \in Fd : outbox[t][d] \in Seq(Item)
    BY <1>0
  <2>6. \A t \in Server, d \in Fd : told(Append(outbox[t][d], item)) = told(outbox[t][d])
    BY <1>5, <2>5, Told
  <2> QED
    BY <1>1, <2>4, <2>6
<1>6. CASE reject_header(s) \/ reject_body(s)
  <2>1. loop[s].fd \in Fd
    BY <1>6 DEF reject_header, reject_body, at, Types, Present
  <2> QED
    BY <1>5, <1>6, <2>1 DEF reject_header, reject_body
<1>7. CASE register(s) \/ replicate(s) \/ \E f \in Fd : disconnect(s, f) \/ receive(s, f)
  BY <1>2, <1>7 DEF register, replicate, disconnect, receive, stream_vars
<1> QED
  BY <1>3, <1>4, <1>6, <1>7 DEF event_loop

LEMMA ClientIsQuiet ==
  ASSUME Types,
         \/ \E c \in Client : call(c) \/ take_response(c) \/ fail(c)
         \/ \E s \in Server, f \in Fd : hang_up(s, f)
  PROVE  Quiet
<1>0. outbox \in [Server -> [Fd -> Seq(Item)]] /\ <<>> \in Seq(Item)
  BY DEF Types, NetTypes
<1>a. told(<<>>) = {}
  BY <1>0, Told
<1>1. (\A t \in Server, d \in Fd : told(outbox'[t][d]) \subseteq told(outbox[t][d])) => Quiet
  BY DEF Quiet, responses, told
<1>2. ASSUME NEW c \in Client, call(c) \/ fail(c) PROVE Quiet
  BY <1>1, <1>2 DEF call, send_command, fail, stream_vars
<1>3. ASSUME NEW c \in Client, take_response(c) PROVE Quiet
  <2>1. PICK s, f, v : s = session[c].server /\ f = session[c].fd /\ v = Tail(outbox[s][f])
    OBVIOUS
  <2>2. s \in Server /\ f \in Fd /\ outbox[s][f] # <<>> /\ outbox' = [outbox EXCEPT ![s][f] = v]
    BY <1>3, <2>1 DEF take_response, replies, Types, Present, at_work
  <2>3. v \in Seq(Item) /\ outbox[s][f] \in Seq(Item)
    BY <1>0, <2>1, <2>2
  <2>4. \A t \in Server, d \in Fd :
           outbox'[t][d] = IF t = s /\ d = f THEN v ELSE outbox[t][d]
    BY <1>0, <2>2, <2>3, Nested
  <2>5. told(v) \subseteq told(outbox[s][f])
    BY <2>1, <2>2, <2>3, Told
  <2> QED
    BY <1>1, <2>4, <2>5
<1>4. ASSUME NEW s \in Server, NEW f \in Fd, hang_up(s, f) PROVE Quiet
  <2>1. outbox' = [outbox EXCEPT ![s][f] = <<>>]
    BY <1>4 DEF hang_up
  <2>2. \A t \in Server, d \in Fd :
           outbox'[t][d] = IF t = s /\ d = f THEN <<>> ELSE outbox[t][d]
    BY <1>0, <2>1, Nested
  <2> QED
    BY <1>1, <1>a, <2>2
<1> QED
  BY <1>2, <1>3, <1>4

\* The disjuncts of Next, in the groups the proofs treat together.
Answers == \E s \in Server : committed_callback(s)
Locks == \E s \in Server : lock(s)
Moves ==
    \/ \E s \in Server : event_loop(s)
    \/ \E c \in Client : call(c) \/ take_response(c) \/ fail(c)
    \/ \E s \in Server, f \in Fd : hang_up(s, f)

LEMMA NextCases == Next => (\E l \in proposed : commit(l)) \/ Locks \/ Answers \/ Moves
  BY DEF Next, Answers, Locks, Moves

LEMMA MoveTypes ==
  ASSUME Types, Moves
  PROVE  Types' /\ StoreSame /\ Quiet
<1>1. ASSUME NEW s \in Server, event_loop(s) PROVE Types' /\ StoreSame
  BY <1>1, ConnectionTypes, HandlerTypes DEF event_loop
<1>2. ASSUME NEW c \in Client, call(c) \/ take_response(c) \/ fail(c) PROVE Types' /\ StoreSame
  BY <1>2, CallTypes, TakeTypes, FailTypes
<1>3. ASSUME NEW s \in Server, NEW f \in Fd, hang_up(s, f) PROVE Types' /\ StoreSame
  BY <1>3, HangUpTypes
<1> QED
  BY <1>1, <1>2, <1>3, LoopIsQuiet, ClientIsQuiet DEF Moves

\* The same log says the same.
LEMMA LogSame ==
  ASSUME log' = log
  PROVE  /\ \A p : effective(p)' = effective(p)
         /\ \A k, p : holds(k, p)' = holds(k, p)
         /\ \A p, r : Answer(p, r)' = Answer(p, r)
<1>1. \A p : effective(p)' = effective(p)
  BY DEF effective
<1>2. \A k, p : holds(k, p)' = holds(k, p)
  BY DEF holds, last_write, writes, behind, first_behind, inserts, calls, effective
<1>3. \A p, r : Answer(p, r)' = Answer(p, r)
  BY <1>1, <1>2 DEF Answer
<1> QED
  BY <1>1, <1>2, <1>3

LEMMA InitAnswers == Init => AnswersInv
<1> SUFFICES ASSUME Init PROVE AnswersInv
  OBVIOUS
<1>1. Types
  BY InitTypes
<1>2. log = <<>> /\ Len(log) = 0 /\ 1 .. 0 = {}
  BY DEF Init
<1>3. \A k \in Key : holds(k, 0) = Null
  <2>1. \A k : writes(k, 0) = {0}
    BY <1>2 DEF writes
  <2>2. \A k : last_write(k, 0) = 0
    BY <2>1 DEF last_write
  <2>3. \A k : behind(k, 0) = {}
    BY <2>2 DEF behind
  <2> QED
    BY <2>2, <2>3 DEF holds
<1>4. Behind /\ Stores /\ Caches
  BY <1>2, <1>3 DEF Init, Behind, Stores, Caches, Cached
<1>5. Outboxes
  <2>1. \A s \in Server, f \in Fd : responses(s, f) = {}
    BY DEF Init, responses
  <2> QED
    BY <2>1 DEF Outboxes
<1> QED
  BY <1>1, <1>4, <1>5 DEF AnswersInv

\* An entry more in the log.
LEMMA CommitAnswers ==
  ASSUME AnswersInv, NEW l \in proposed, commit(l)
  PROVE  AnswersInv'
<1>1. /\ log' = Append(log, l) /\ l \in Line /\ StoreTypes
      /\ UNCHANGED <<applied, m_kvstore, m_response_cache, committer, outbox>>
  BY DEF commit, store_vars, stream_vars, AnswersInv, Types, StoreTypes
<1>2. Types'
  BY ConsensusTypes DEF AnswersInv
<1>3. /\ Len(log') = Len(log) + 1 /\ Len(log) \in Nat
      /\ \A p \in 1 .. Len(log) : log'[p] = log[p] /\ effective(p)' = effective(p)
      /\ \A k, p : p \in 0 .. Len(log) => holds(k, p)' = holds(k, p)
  BY <1>1, LogGrows
<1>4. \A p, r : p \in 1 .. Len(log) => Answer(p, r)' = Answer(p, r)
  <2> SUFFICES ASSUME NEW p \in 1 .. Len(log), NEW r PROVE Answer(p, r)' = Answer(p, r)
    OBVIOUS
  <2>1. p - 1 \in 0 .. Len(log) /\ p \in 0 .. Len(log)
    BY <1>3
  <2> QED
    BY <1>3, <2>1 DEF Answer
<1>5. \A s \in Server : applied[s] \in Nat /\ applied[s] <= Len(log)
  BY DEF AnswersInv, Types, StoreTypes, Behind
<1>6. Behind'
  BY <1>1, <1>3, <1>5 DEF AnswersInv, Behind
<1>7. Stores'
  <2>1. \A s \in Server : applied[s] \in 0 .. Len(log)
    BY <1>3, <1>5
  <2> QED
    BY <1>1, <1>3, <2>1 DEF AnswersInv, Stores
<1>8. Caches'
  <2> SUFFICES ASSUME NEW s \in Server, NEW c \in Client PROVE Cached(s, c)'
    BY DEF Caches
  <2>1. Cached(s, c) /\ \A p \in 1 .. applied[s] : p \in 1 .. Len(log)
    BY <1>3, <1>5 DEF AnswersInv, Caches
  <2> QED
    BY <1>1, <1>3, <1>4, <2>1 DEF Cached
<1>9. Outboxes'
  <2>1. \A s \in Server, f \in Fd : responses(s, f)' = responses(s, f)
    BY <1>1 DEF responses
  <2>2. \A p \in 1 .. Len(log) : p \in 1 .. Len(log')
    BY <1>3
  <2> QED
    BY <1>4, <2>1, <2>2 DEF AnswersInv, Outboxes
<1> QED
  BY <1>2, <1>6, <1>7, <1>8, <1>9 DEF AnswersInv

\* The cache tells whether a request is effective.
LEMMA NewIsEffective ==
  ASSUME AnswersInv, NEW s \in Server, NEW l \in Line,
         applied[s] + 1 \in 1 .. Len(log), log[applied[s] + 1] = l
  PROVE  is_new(m_response_cache[s], parse_request(l)) <=> effective(applied[s] + 1)
<1>1. PICK n, c, x : n = applied[s] /\ c = l.client /\ x = m_response_cache[s][c]
  OBVIOUS
<1>2. n \in Nat /\ c \in Client /\ l.seqnum \in Nat /\ n <= Len(log) /\ Len(log) \in Nat
  BY <1>1 DEF AnswersInv, Types, StoreTypes, Behind, Line
<1>3. effective(n + 1) <=> \A q \in 1 .. n : log[q].client = c => log[q].seqnum < l.seqnum
  BY <1>1, <1>2 DEF effective
<1>4. is_new(m_response_cache[s], parse_request(l)) <=> (x # Null => x.seqnum < l.seqnum)
  BY <1>1 DEF is_new, parse_request
<1>5. IF x = Null THEN \A p \in 1 .. n : log[p].client # c
      ELSE /\ x.client = c
           /\ \E p \in 1 .. n : Answer(p, x)
           /\ \A p \in 1 .. n : log[p].client = c => log[p].seqnum <= x.seqnum
  BY <1>1, <1>2 DEF AnswersInv, Caches, Cached
<1>6. CASE x = Null
  BY <1>1, <1>3, <1>4, <1>5, <1>6
<1>7. CASE x # Null
  <2>1. x \in Response
    BY <1>1, <1>2, <1>7 DEF AnswersInv, Types, StoreTypes
  <2>2. x.seqnum \in Nat
    BY <2>1 DEF Response
  <2>3. \A q \in 1 .. n : log[q].seqnum \in Nat
    <3>1. \A q \in 1 .. n : log[q] \in Line
      BY <1>2 DEF AnswersInv, Types, StoreTypes
    <3> QED
      BY <3>1 DEF Line
  <2>4. PICK p \in 1 .. n : log[p].client = c /\ log[p].seqnum = x.seqnum
    BY <1>5, <1>7 DEF Answer
  <2>5. ASSUME x.seqnum < l.seqnum PROVE effective(n + 1)
    BY <1>2, <1>3, <1>5, <1>7, <2>2, <2>3, <2>5
  <2>6. ASSUME effective(n + 1) PROVE x.seqnum < l.seqnum
    BY <1>3, <2>4, <2>6
  <2> QED
    BY <1>1, <1>4, <1>7, <2>5, <2>6
<1> QED
  BY <1>6, <1>7

LEMMA CallbackAnswers ==
  ASSUME AnswersInv, NEW s \in Server, committed_callback(s)
  PROVE  AnswersInv'
<1>0. Types /\ Behind
  BY DEF AnswersInv
<1>1. PICK l \in Line :
        LET p == applied[s] + 1
            r == parse_request(l)
            old == m_kvstore[s][l.key]
        IN  /\ p \in 1 .. Len(log) /\ log[p] = l
            /\ r.client = l.client /\ r.seqnum = l.seqnum /\ r.key = l.key
            /\ old \in Stored \cup {Null} /\ response(r, old) \in Response
            /\ applied' = [applied EXCEPT ![s] = p]
            /\ committer' = [committer EXCEPT ![s] = "idle"]
            /\ \/ /\ is_new(m_response_cache[s], r)
                  /\ m_kvstore' = [m_kvstore EXCEPT ![s][l.key] = value_after(r, old)]
                  /\ m_response_cache' = [m_response_cache EXCEPT ![s][l.client] = response(r, old)]
               \/ /\ ~is_new(m_response_cache[s], r)
                  /\ UNCHANGED <<m_kvstore, m_response_cache>>
            /\ log' = log
  BY <1>0, Callback
<1>2. PICK n, p, r, key, c, old, x, v :
        /\ n = applied[s] /\ p = n + 1 /\ r = parse_request(l) /\ key = l.key /\ c = l.client
        /\ old = m_kvstore[s][key] /\ x = response(r, old) /\ v = value_after(r, old)
  OBVIOUS
<1>3. /\ n \in Nat /\ p \in Nat /\ p - 1 = n /\ p \in 1 .. Len(log) /\ n <= Len(log) /\ Len(log) \in Nat
      /\ key \in Key /\ c \in Client /\ x \in Response /\ v \in Stored \cup {Null}
  <2>1. n \in Nat /\ n <= Len(log) /\ Len(log) \in Nat
    BY <1>0, <1>2 DEF Types, StoreTypes, Behind
  <2>2. key \in Key /\ c \in Client
    BY <1>2 DEF Line
  <2> QED
    BY <1>1, <1>2, <2>1, <2>2, RequestTypes
<1>4. /\ log' = log /\ log[p] = l /\ r.key = key
      /\ x.client = c /\ x.seqnum = l.seqnum /\ x.key = key /\ x.value = v /\ x.old_value = old
  BY <1>1, <1>2 DEF response
<1>5. /\ m_kvstore \in [Server -> [Key -> Stored \cup {Null}]]
      /\ m_response_cache \in [Server -> [Client -> Response \cup {Null}]]
      /\ applied \in [Server -> Nat] /\ committer \in [Server -> {"idle", "locked"}]
  BY <1>0 DEF Types, StoreTypes
<1>6. \A t \in Server : applied'[t] = (IF t = s THEN p ELSE applied[t])
                        /\ committer'[t] = IF t = s THEN "idle" ELSE committer[t]
  BY <1>1, <1>2, <1>5
<1>7. is_new(m_response_cache[s], r) <=> effective(p)
  <2>1. is_new(m_response_cache[s], parse_request(l)) <=> effective(applied[s] + 1)
    BY <1>1, NewIsEffective
  <2> QED
    BY <1>2, <2>1
<1>8. \/ /\ effective(p)
         /\ \A t \in Server, k \in Key :
               m_kvstore'[t][k] = IF t = s /\ k = key THEN v ELSE m_kvstore[t][k]
         /\ \A t \in Server, d \in Client :
               m_response_cache'[t][d] = IF t = s /\ d = c THEN x ELSE m_response_cache[t][d]
      \/ /\ ~effective(p)
         /\ m_kvstore' = m_kvstore /\ m_response_cache' = m_response_cache
  <2>1. CASE effective(p)
    <3>1. /\ m_kvstore' = [m_kvstore EXCEPT ![s][key] = v]
          /\ m_response_cache' = [m_response_cache EXCEPT ![s][c] = x]
      BY <1>1, <1>2, <1>7, <2>1
    <3>2. \A t \in Server, k \in Key :
               m_kvstore'[t][k] = IF t = s /\ k = key THEN v ELSE m_kvstore[t][k]
      BY <1>3, <1>5, <3>1, Nested
    <3>3. x \in Response \cup {Null}
      BY <1>3
    <3>4. \A t \in Server, d \in Client :
               m_response_cache'[t][d] = IF t = s /\ d = c THEN x ELSE m_response_cache[t][d]
      BY <1>3, <1>5, <3>1, <3>3, Nested
    <3> QED
      BY <2>1, <3>2, <3>4
  <2>2. CASE ~effective(p)
    BY <1>1, <1>2, <1>7, <2>2
  <2> QED
    BY <2>1, <2>2
<1>9. /\ \A q : effective(q)' = effective(q)
      /\ \A k, q : holds(k, q)' = holds(k, q)
      /\ \A q, y : Answer(q, y)' = Answer(q, y)
  BY <1>4, LogSame
<1>10. \A k \in Key : holds(k, p) = IF effective(p) /\ k = key
                                    THEN value_after(r, holds(k, n)) ELSE holds(k, n)
  <2>1. StoreTypes /\ l.key = key
    BY <1>0, <1>2 DEF Types
  <2> QED
    BY <1>2, <1>3, <1>4, <2>1, HoldsNext
<1>11. old = holds(key, n)
  BY <1>2, <1>3 DEF AnswersInv, Stores
<1>12. effective(p) => Answer(p, x)
  BY <1>2, <1>3, <1>4, <1>10, <1>11 DEF Answer
<1>13. Types'
  BY <1>0, CallbackTypes
<1>14. Behind'
  BY <1>0, <1>3, <1>4, <1>6 DEF Behind
<1>15. Stores'
  <2> SUFFICES ASSUME NEW t \in Server, NEW k \in Key
               PROVE  m_kvstore'[t][k] = holds(k, applied'[t])
    BY <1>9 DEF Stores
  <2>1. m_kvstore[t][k] = holds(k, applied[t])
    BY DEF AnswersInv, Stores
  <2>2. CASE t # s
    BY <1>6, <1>8, <2>1, <2>2
  <2>3. CASE t = s
    BY <1>2, <1>6, <1>8, <1>10, <1>11, <2>1, <2>3
  <2> QED
    BY <2>2, <2>3
<1>16. Caches'
  <2> SUFFICES ASSUME NEW t \in Server, NEW d \in Client PROVE Cached(t, d)'
    BY DEF Caches
  <2>1. Cached(t, d)
    BY DEF AnswersInv, Caches
  <2>2. CASE t # s
    <3>1. m_response_cache'[t][d] = m_response_cache[t][d] /\ applied'[t] = applied[t]
      BY <1>6, <1>8, <2>2
    <3> QED
      BY <1>4, <1>9, <2>1, <3>1 DEF Cached
  <2>3. CASE t = s
    <3>1. PICK y : y = m_response_cache[s][d]
      OBVIOUS
    <3>2. applied'[t] = p /\ \A q : q \in 1 .. p <=> q \in 1 .. n \/ q = p
      BY <1>2, <1>3, <1>6, <2>3
    <3>3. IF y = Null THEN \A q \in 1 .. n : log[q].client # d
          ELSE /\ y.client = d
               /\ \E q \in 1 .. n : Answer(q, y)
               /\ \A q \in 1 .. n : log[q].client = d => log[q].seqnum <= y.seqnum
      BY <1>2, <2>1, <2>3, <3>1 DEF Cached
    <3>4. CASE d # c
      <4>1. m_response_cache'[t][d] = y
        BY <1>8, <2>3, <3>1, <3>4
      <4>2. log[p].client # d
        BY <1>2, <1>4, <3>4
      <4> QED
        BY <1>4, <1>9, <3>2, <3>3, <4>1, <4>2 DEF Cached
    <3>5. CASE d = c /\ effective(p)
      <4>1. m_response_cache'[t][d] = x /\ x # Null
        BY <1>3, <1>8, <2>3, <3>5, NullAssumption
      <4>2. \A q \in 1 .. n : log[q].client = c => log[q].seqnum <= l.seqnum
        <5>1. \A q \in 1 .. n : log[q].client = c => log[q].seqnum < l.seqnum
          BY <1>2, <1>3, <1>4, <3>5 DEF effective
        <5>2. \A q \in 1 .. n : log[q] \in Line
          BY <1>0, <1>3 DEF Types, StoreTypes
        <5>3. \A q \in 1 .. n : log[q].seqnum \in Nat
          BY <5>2 DEF Line
        <5> QED
          BY <5>1, <5>3 DEF Line
      <4>3. log[p].seqnum <= x.seqnum
        BY <1>4 DEF Line
      <4>4. Answer(p, x)' /\ p \in 1 .. p
        BY <1>3, <1>9, <1>12, <3>5
      <4> QED
        BY <1>4, <3>2, <3>5, <4>1, <4>2, <4>3, <4>4 DEF Cached
    <3>6. CASE d = c /\ ~effective(p)
      <4>1. m_response_cache'[t][d] = y
        BY <1>8, <2>3, <3>1, <3>6
      <4>2. PICK q \in 1 .. n : log[q].client = c /\ ~(log[q].seqnum < l.seqnum)
        BY <1>2, <1>3, <1>4, <3>6 DEF effective
      <4>3. y # Null /\ log[q].seqnum <= y.seqnum
        BY <3>3, <3>6, <4>2
      <4>4. y.seqnum \in Nat /\ log[q].seqnum \in Nat /\ l.seqnum \in Nat
        <5>1. log[q] \in Line /\ y \in Response
          BY <1>0, <1>3, <1>5, <3>1, <3>6, <4>3 DEF Types, StoreTypes
        <5> QED
          BY <5>1 DEF Line, Response
      <4>5. log[p].seqnum <= y.seqnum
        BY <1>4, <4>2, <4>3, <4>4
      <4> QED
        BY <1>4, <1>9, <3>2, <3>3, <4>1, <4>3, <4>5 DEF Cached
    <3> QED
      BY <3>4, <3>5, <3>6
  <2> QED
    BY <2>2, <2>3
<1>17. Outboxes'
  <2>1. \/ outbox' = outbox
        \/ \E y \in Response :
             /\ \/ y = x /\ effective(p)
                \/ y = m_response_cache[s][c] /\ y.seqnum = l.seqnum
             /\ m_connected_clients[s][y.client] \in Fd
             /\ Sends(s, m_connected_clients[s][y.client], frame(y))
    BY <1>0, <1>2, <1>4, <1>7, CallbackSends
  <2>2. CASE outbox' = outbox
    <3>1. \A t \in Server, f \in Fd : responses(t, f)' = responses(t, f)
      BY <2>2 DEF responses
    <3>2. \A t \in Server, f \in Fd : \A y \in responses(t, f) : \E q \in 1 .. Len(log) : Answer(q, y)
      BY Zenon DEF AnswersInv, Outboxes
    <3> QED
      BY <1>4, <1>9, <3>1, <3>2, Zenon DEF Outboxes
  <2>3. ASSUME NEW y \in Response,
               \/ y = x /\ effective(p)
               \/ y = m_response_cache[s][c] /\ y.seqnum = l.seqnum,
               NEW f \in Fd, Sends(s, f, frame(y))
        PROVE  Outboxes'
    <3>1. \E q \in 1 .. Len(log) : Answer(q, y)
      <4>1. CASE y = m_response_cache[s][c] /\ y.seqnum = l.seqnum
        <5>1. y # Null /\ Cached(s, c)
          BY <1>3, NullAssumption DEF AnswersInv, Caches
        <5>2. \E q \in 1 .. n : Answer(q, y)
          BY <1>2, <4>1, <5>1 DEF Cached
        <5> QED
          BY <1>3, <5>2
      <4>2. CASE y = x /\ effective(p)
        BY <1>3, <1>12, <4>2
      <4> QED
        BY <2>3, <4>1, <4>2
    <3>2. \A t \in Server, d \in Fd : told(outbox'[t][d]) \subseteq told(outbox[t][d]) \cup {y}
      <4>1. \A t \in Server, d \in Fd : outbox[t][d] \in Seq(Item)
        BY <1>0 DEF Types, NetTypes
      <4>2. \A t \in Server, d \in Fd :
              told(Append(outbox[t][d], frame(y))) \subseteq told(outbox[t][d]) \cup {y}
        BY <4>1, Told
      <4>3. \A t \in Server, d \in Fd :
              outbox'[t][d] = outbox[t][d] \/ outbox'[t][d] = Append(outbox[t][d], frame(y))
        BY <2>3 DEF Sends
      <4> QED
        BY <4>2, <4>3
    <3>3. \A t \in Server, d \in Fd : responses(t, d)' \subseteq responses(t, d) \cup {y}
      BY <3>2 DEF responses, told
    <3>4. \A t \in Server, d \in Fd : \A z \in responses(t, d)' :
            \E q \in 1 .. Len(log) : Answer(q, z)
      BY <3>1, <3>3 DEF AnswersInv, Outboxes
    <3> QED
      BY <1>4, <1>9, <3>4 DEF Outboxes
  <2> QED
    BY <2>1, <2>2, <2>3
<1> QED
  BY <1>13, <1>14, <1>15, <1>16, <1>17 DEF AnswersInv

\* A handler of a server has the consensus lock.
LEMMA LockAnswers ==
  ASSUME AnswersInv, Locks
  PROVE  AnswersInv'
<1>1. PICK s \in Server : lock(s)
  BY DEF Locks
<1>2. /\ committer' = [committer EXCEPT ![s] = "locked"] /\ applied[s] < Len(log)
      /\ UNCHANGED <<log, applied, m_kvstore, m_response_cache, outbox>>
  BY <1>1 DEF lock, log_vars, stream_vars
<1>3. Types'
  BY <1>1, ConsensusTypes DEF AnswersInv
<1>4. Behind'
  <2>1. committer \in [Server -> {"idle", "locked"}]
    BY DEF AnswersInv, Types, StoreTypes
  <2>2. \A t \in Server : t # s => committer'[t] = committer[t]
    BY <1>2, <2>1
  <2> QED
    BY <1>2, <2>2 DEF AnswersInv, Behind
<1>5. /\ \A k, p : holds(k, p)' = holds(k, p)
      /\ \A p, r : Answer(p, r)' = Answer(p, r)
  BY <1>2, LogSame
<1>6. Stores' /\ Caches'
  BY <1>2, <1>5 DEF AnswersInv, Stores, Caches, Cached
<1>7. Outboxes'
  <2>1. \A t \in Server, f \in Fd : responses(t, f)' = responses(t, f)
    BY <1>2 DEF responses
  <2> QED
    BY <1>2, <1>5, <2>1 DEF AnswersInv, Outboxes
<1> QED
  BY <1>3, <1>4, <1>6, <1>7 DEF AnswersInv

LEMMA QuietAnswers ==
  ASSUME AnswersInv, Types', StoreSame, Quiet
  PROVE  AnswersInv'
<1>1. UNCHANGED <<log, applied, m_kvstore, m_response_cache, committer>>
  BY DEF StoreSame
<1>2. Behind'
  BY <1>1 DEF AnswersInv, Behind
<1>3. /\ \A k, p : holds(k, p)' = holds(k, p)
      /\ \A p, r : Answer(p, r)' = Answer(p, r)
  BY <1>1, LogSame
<1>4. Stores' /\ Caches' /\ Outboxes'
  BY <1>1, <1>3 DEF AnswersInv, Stores, Caches, Cached, Outboxes, Quiet
<1> QED
  BY <1>2, <1>4 DEF AnswersInv

LEMMA AnswersStep == AnswersInv /\ [Next]_vars => AnswersInv'
<1> SUFFICES ASSUME AnswersInv, [Next]_vars PROVE AnswersInv'
  OBVIOUS
<1>1. CASE UNCHANGED vars
  <2>1. StoreSame /\ Quiet
    BY <1>1 DEF vars, log_vars, store_vars, stream_vars, StoreSame, Quiet, responses
  <2>2. Types'
    BY <1>1 DEF AnswersInv, Types, StoreTypes, NetTypes, Present, at_work, vars, log_vars,
                store_vars, fd_vars, loop_vars, stream_vars
  <2> QED
    BY <2>1, <2>2, QuietAnswers
<1>2. CASE \E l \in proposed : commit(l)
  BY <1>2, CommitAnswers
<1>3. CASE Locks
  BY <1>3, LockAnswers
<1>4. CASE Answers
  BY <1>4, CallbackAnswers DEF Answers
<1>5. CASE Moves
  BY <1>5, MoveTypes, QuietAnswers DEF AnswersInv
<1> QED
  BY <1>1, <1>2, <1>3, <1>4, <1>5, NextCases

\* Stores and caches say what the log says in every state (AnswersInv).
THEOREM AnswersInvariance == Spec => []AnswersInv
  BY InitAnswers, AnswersStep, PTL DEF Spec

\* A store holds what the log up to its last applied entry says, and every
\* response tells what its key held before and after its own entry, through
\* whatever failures and repeated requests (execute_request, the cache of
\* responses).
THEOREM AnswersTrue == Spec => []AnswersAreTrue
<1>1. AnswersInv => AnswersAreTrue
  BY DEF AnswersInv, Stores, Outboxes, Answer, AnswersAreTrue
<1> QED
  BY <1>1, AnswersInvariance, PTL
-----------------------------------------------------------------------------
(***************************************************************************)
(* AnswersAreForTheCall and FramesAreWhole, for new clients. One that had  *)
(* no session before has at most one request under way, which is in one    *)
(* place: in the stream to the server, with the event loop, proposed, in   *)
(* the log ahead of what the server has applied, or answered.              *)
(***************************************************************************)
New == Client \ Failover

\* The descriptors in use are the open ones.
Fds ==
    \A s \in Server :
        /\ loop[s].pc # "select" => loop[s].fd \in m_all_fds[s]
        /\ \A c \in Client : m_connected_clients[s][c] \in m_all_fds[s] \cup {nobody}

\* Nobody is connected to a server that has ended.
Down == \A s \in Server : ~up[s] => \A f \in Fd : peer[s][f] = nobody /\ outbox[s][f] = <<>>

\* A session has an open descriptor of its own while the server is up.
Open(c) ==
    /\ session[c].fd \in m_all_fds[session[c].server]
    /\ up[session[c].server] => peer[session[c].server][session[c].fd] = c

Links == Fds /\ Down /\ \A c \in Client : at_work(c) => Open(c)

\* No line of c is anywhere.
Unknown(c) ==
    /\ \A s \in Server, f \in Fd : \A i \in DOMAIN inbox[s][f] : inbox[s][f][i].client # c
    /\ \A s \in Server : loop[s].pc # "select" => loop[s].line.client # c
    /\ \A l \in proposed : l.client # c
    /\ \A p \in DOMAIN log : log[p].client # c

\* What comes in at the descriptor is what c sent, and c sent nothing elsewhere.
Own(c, s, f) ==
    /\ \A t \in Server, d \in Fd : \A i \in DOMAIN inbox[t][d] :
          inbox[t][d][i].client = c <=> t = s /\ d = f
    /\ \A t \in Server : loop[t].pc # "select" =>
          (loop[t].line.client = c <=> t = s /\ loop[t].fd = f)
    /\ \A d \in Client : m_connected_clients[s][d] = f => d = c

handles(s, f) == loop[s].pc # "select" /\ loop[s].fd = f

\* Entries of c that server s has yet to apply.
ahead(c, s) == {p \in DOMAIN log : p > applied[s] /\ log[p].client = c}
asks(c) == {l \in proposed : l.client = c}

\* The answer of the server is there, of the one or the other kind.
Answered(c, s, f) ==
    \/ outbox[s][f] = <<header, NotLeader>>
    \/ \E r \in Response : /\ outbox[s][f] = <<frame(r)>> /\ r.client = c
                           /\ r.seqnum + 1 = session[c].request_id

\* Where the one request of c is.
Stage(c, s, f, w) ==
    /\ w # "none" => session[c].state = "waiting"
    /\ Len(inbox[s][f]) = IF w = "inbox" THEN 1 ELSE 0
    /\ handles(s, f) => w = "loop"
    /\ asks(c) # {} => w = "proposed"
    /\ \A l, m \in asks(c) : l = m
    /\ ahead(c, s) # {} => w = "log"
    /\ \A p, q \in ahead(c, s) : p = q
    /\ w = "outbox" => Answered(c, s, f)
    /\ w # "outbox" =>
          outbox[s][f] = IF handles(s, f) /\ loop[s].pc = "reject body" THEN <<header>> ELSE <<>>

\* It is the request the client waits for.
Asked(c, s, f) ==
    /\ \A i \in DOMAIN inbox[s][f] : inbox[s][f][i].seqnum + 1 = session[c].request_id
    /\ handles(s, f) => loop[s].line.seqnum + 1 = session[c].request_id
    /\ \A l \in asks(c) : l.seqnum + 1 = session[c].request_id
    /\ \A p \in ahead(c, s) : log[p].seqnum + 1 = session[c].request_id

Places == {"none", "inbox", "loop", "proposed", "log", "outbox"}

Works(c, s, f) ==
    Own(c, s, f) /\ Asked(c, s, f) /\ \E w \in Places : Stage(c, s, f, w)

WorksHere(c) == Works(c, session[c].server, session[c].fd)

FreshAt(c) ==
    /\ session[c].state = "away" => Unknown(c)
    /\ at_work(c) => WorksHere(c)

Fresh == \A c \in New : FreshAt(c)

CallsInv == AnswersInv /\ Links /\ Fresh

LEMMA InitCalls == Init => Links /\ Fresh
<1> SUFFICES ASSUME Init PROVE Links /\ Fresh
  OBVIOUS
<1>1. Links
  BY DEF Init, Links, Fds, Down, selecting, at_work
<1>2. \A c \in Client : Unknown(c) /\ ~at_work(c)
  BY DEF Init, Unknown, selecting, at_work
<1> QED
  BY <1>1, <1>2 DEF Fresh, FreshAt, New

\* Nothing about descriptors changes in the layer below.
LEMMA CoreLinks ==
  ASSUME Links, UNCHANGED <<up, m_connected_clients, m_all_fds, loop, peer, session>>,
         \A s \in Server : ~up[s] => UNCHANGED outbox \/ \A f \in Fd : outbox'[s][f] = outbox[s][f]
  PROVE  Links'
<1>1. Fds'
  BY DEF Links, Fds
<1>2. Down'
  BY DEF Links, Down
<1>3. \A c \in Client : at_work(c)' => Open(c)'
  BY DEF Links, at_work, Open
<1> QED
  BY <1>1, <1>2, <1>3 DEF Links

LEMMA CallbackLinks ==
  ASSUME Types, Behind, Links, NEW s \in Server, committed_callback(s)
  PROVE  Links'
<1>1. /\ up[s]
      /\ UNCHANGED <<up, m_connected_clients, m_all_fds, loop, peer, session>>
  BY DEF committed_callback, fd_vars, loop_vars
<1>2. outbox' = outbox \/ (\E f \in Fd : \E x \in Response : Sends(s, f, frame(x)))
  BY CallbackSends
<1>3. \A t \in Server : ~up[t] => UNCHANGED outbox \/ \A f \in Fd : outbox'[t][f] = outbox[t][f]
  BY <1>1, <1>2 DEF Sends
<1> QED
  BY <1>1, <1>3, CoreLinks

\* Client c comes to server s, on descriptor f.
Accepts(s, c, f) ==
    /\ \A t \in Server :
          m_all_fds'[t] = IF t = s THEN m_all_fds[s] \cup {f} ELSE m_all_fds[t]
    /\ \A t \in Server, d \in Fd :
          /\ peer'[t][d] = IF t = s /\ d = f THEN c ELSE peer[t][d]
          /\ inbox'[t][d] = IF t = s /\ d = f THEN <<>> ELSE inbox[t][d]
          /\ outbox'[t][d] = IF t = s /\ d = f THEN <<>> ELSE outbox[t][d]
    /\ session[c].state = "away" /\ session'[c].state = "idle"
    /\ session'[c].server = s /\ session'[c].fd = f
    /\ session'[c].request_id = session[c].request_id
    /\ \A d \in Client : d # c => session'[d] = session[d]
    /\ UNCHANGED <<log, proposed, applied, up, m_connected_clients, loop>>
    /\ up[s] /\ loop[s].pc = "select"

LEMMA AcceptAccepts ==
  ASSUME Types, NEW s \in Server, NEW c \in Client, accept(s, c)
  PROVE  \E f \in Fd \ m_all_fds[s] : Accepts(s, c, f)
<1>1. PICK f \in Fd \ m_all_fds[s] :
        /\ m_all_fds' = [m_all_fds EXCEPT ![s] = @ \cup {f}]
        /\ peer' = [peer EXCEPT ![s][f] = c]
        /\ inbox' = [inbox EXCEPT ![s][f] = <<>>]
        /\ outbox' = [outbox EXCEPT ![s][f] = <<>>]
        /\ session' = [session EXCEPT ![c].state = "idle", ![c].server = s, ![c].fd = f]
  BY DEF accept
<1>2. /\ UNCHANGED <<log, proposed, applied, up, m_connected_clients, loop>>
      /\ up[s] /\ loop[s].pc = "select" /\ session[c].state = "away"
  BY DEF accept, log_vars, store_vars, loop_vars, at
<1>3. PICK x : x = [session[c] EXCEPT !.state = "idle", !.server = s, !.fd = f]
  OBVIOUS
<1>4. x.state = "idle" /\ x.server = s /\ x.fd = f /\ x.request_id = session[c].request_id
  BY <1>3 DEF Types, NetTypes, Session
<1>5. session' = [session EXCEPT ![c] = x]
  BY <1>1, <1>3
<1>6. session'[c] = x /\ \A d \in Client : d # c => session'[d] = session[d]
  BY <1>5 DEF Types, NetTypes
<1>7. <<>> \in Seq(Line) /\ <<>> \in Seq(Item)
  OBVIOUS
<1>8. \A t \in Server, d \in Fd : peer'[t][d] = IF t = s /\ d = f THEN c ELSE peer[t][d]
  BY <1>1, Nested DEF Types, NetTypes
<1>9. \A t \in Server, d \in Fd : inbox'[t][d] = IF t = s /\ d = f THEN <<>> ELSE inbox[t][d]
  BY <1>1, <1>7, Nested DEF Types, NetTypes
<1>10. \A t \in Server, d \in Fd : outbox'[t][d] = IF t = s /\ d = f THEN <<>> ELSE outbox[t][d]
  BY <1>1, <1>7, Nested DEF Types, NetTypes
<1>11. \A t \in Server, d \in Fd :
         /\ peer'[t][d] = IF t = s /\ d = f THEN c ELSE peer[t][d]
         /\ inbox'[t][d] = IF t = s /\ d = f THEN <<>> ELSE inbox[t][d]
         /\ outbox'[t][d] = IF t = s /\ d = f THEN <<>> ELSE outbox[t][d]
  BY <1>8, <1>9, <1>10
<1>12. \A t \in Server : m_all_fds'[t] = IF t = s THEN m_all_fds[s] \cup {f} ELSE m_all_fds[t]
  BY <1>1 DEF Types, NetTypes
<1> QED
  BY <1>1, <1>2, <1>4, <1>6, <1>11, <1>12 DEF Accepts

LEMMA AcceptLinks ==
  ASSUME Types, Links, NEW s \in Server, NEW c \in Client, accept(s, c)
  PROVE  Links'
<1>1. PICK f \in Fd \ m_all_fds[s] : Accepts(s, c, f)
  BY AcceptAccepts
<1>7. Fds'
  BY <1>1 DEF Accepts, Links, Fds
<1>8. Down'
  BY <1>1 DEF Accepts, Links, Down
<1>9. ASSUME NEW d \in Client, at_work(d)' PROVE Open(d)'
  <2>1. CASE d = c
    BY <1>1, <2>1 DEF Accepts, Open
  <2>2. CASE d # c
    <3>1. session'[d] = session[d] /\ at_work(d)
      BY <1>1, <1>9, <2>2 DEF Accepts, at_work
    <3>2. session[d].server \in Server /\ session[d].fd \in Fd /\ Open(d)
      BY <3>1 DEF Accepts, Types, Present, Links
    <3> QED
      BY <1>1, <3>1, <3>2 DEF Accepts, Open
  <2> QED
    BY <2>1, <2>2
<1> QED
  BY <1>7, <1>8, <1>9 DEF Accepts, Links

LEMMA DisconnectLinks ==
  ASSUME Types, Links, NEW s \in Server, NEW f \in Fd, disconnect(s, f)
  PROVE  Links'
<1>1. /\ m_all_fds' = [m_all_fds EXCEPT ![s] = @ \ {f}]
      /\ m_connected_clients' = [m_connected_clients EXCEPT
             ![s] = [c \in Client |-> IF @[c] = f THEN nobody ELSE @[c]]]
      /\ UNCHANGED <<up, loop, peer, outbox, session>>
      /\ up[s] /\ loop[s].pc = "select" /\ peer[s][f] = nobody
  BY DEF disconnect, loop_vars, stream_vars, at
<1>2. \A t \in Server : m_all_fds'[t] = IF t = s THEN m_all_fds[s] \ {f} ELSE m_all_fds[t]
  BY <1>1 DEF Types, NetTypes
<1>3. \A t \in Server, c \in Client :
         m_connected_clients'[t][c] = IF t = s /\ m_connected_clients[s][c] = f THEN nobody
                                      ELSE m_connected_clients[t][c]
  BY <1>1 DEF Types, NetTypes
<1>4. Fds'
  BY <1>1, <1>2, <1>3 DEF Links, Fds
<1>5. Down'
  BY <1>1 DEF Links, Down
<1>6. ASSUME NEW c \in Client, at_work(c)' PROVE Open(c)'
  <2>1. at_work(c) /\ Open(c) /\ session[c].server \in Server /\ session[c].fd \in Fd
    BY <1>1, <1>6 DEF at_work, Links, Types, Present
  <2>2. ~(session[c].server = s /\ session[c].fd = f)
    BY <1>1, <2>1, NobodyAssumption DEF Open
  <2> QED
    BY <1>1, <1>2, <2>1, <2>2 DEF Open
<1> QED
  BY <1>4, <1>5, <1>6 DEF Links

LEMMA ReceiveLinks ==
  ASSUME Types, Links, NEW s \in Server, NEW f \in Fd, receive(s, f)
  PROVE  Links'
<1>1. /\ loop' = [loop EXCEPT ![s] = [pc |-> "register", fd |-> f, line |-> Head(inbox[s][f])]]
      /\ f \in m_all_fds[s]
      /\ UNCHANGED <<up, m_connected_clients, m_all_fds, peer, outbox, session>>
  BY DEF receive, fd_vars
<1>2. \A t \in Server : IF t = s THEN loop'[t].fd = f ELSE loop'[t] = loop[t]
  BY <1>1 DEF Types, NetTypes
<1>3. Fds'
  BY <1>1, <1>2 DEF Links, Fds
<1>4. Down' /\ \A c \in Client : at_work(c)' => Open(c)'
  BY <1>1 DEF Links, Down, at_work, Open
<1> QED
  BY <1>3, <1>4 DEF Links

LEMMA HaltLinks ==
  ASSUME Types, Links, NEW s \in Server, NEW f \in Fd, body_did_not_come_at_once(s, f)
  PROVE  Links'
<1>1. /\ up' = [up EXCEPT ![s] = FALSE]
      /\ peer' = [peer EXCEPT ![s] = [d \in Fd |-> nobody]]
      /\ outbox' = [outbox EXCEPT ![s] = [d \in Fd |-> <<>>]]
      /\ UNCHANGED <<m_connected_clients, m_all_fds, loop, session>>
  BY DEF body_did_not_come_at_once, halt, fd_vars, loop_vars
<1>a. /\ \A t \in Server : (t = s => ~up'[t]) /\ (t # s => up'[t] = up[t])
      /\ \A t \in Server, d \in Fd : peer'[t][d] = IF t = s THEN nobody ELSE peer[t][d]
  BY <1>1 DEF Types, NetTypes
<1>b. \A t \in Server, d \in Fd : outbox'[t][d] = IF t = s THEN <<>> ELSE outbox[t][d]
  BY <1>1 DEF Types, NetTypes
<1>2. ~up'[s] /\ \A t \in Server : t # s => up'[t] = up[t]
  BY <1>a
<1>3. Fds'
  BY <1>1 DEF Links, Fds
<1>4. Down'
  BY <1>a, <1>b DEF Links, Down
<1>5. ASSUME NEW c \in Client, at_work(c)' PROVE Open(c)'
  <2>1. at_work(c) /\ Open(c) /\ session[c].server \in Server /\ session[c].fd \in Fd
    BY <1>1, <1>5 DEF at_work, Links, Types, Present
  <2> QED
    BY <1>1, <1>2, <1>a, <2>1 DEF Open
<1> QED
  BY <1>3, <1>4, <1>5 DEF Links

LEMMA HandlerLinks ==
  ASSUME Types, Links, NEW s \in Server,
         register(s) \/ replicate(s) \/ reject_header(s) \/ reject_body(s)
  PROVE  Links'
<1>1. /\ UNCHANGED <<up, m_all_fds, peer, session>> /\ up[s] /\ loop[s].pc # "select"
  BY DEF register, replicate, reject_header, reject_body, at, log_vars, store_vars,
         fd_vars, stream_vars
<1>2. \A t \in Server : loop'[t].pc # "select" => loop[t].pc # "select" /\ loop'[t].fd = loop[t].fd
  BY HandlerTypes
<1>3. loop[s].line \in Line /\ loop[s].fd \in Fd
  BY <1>1 DEF Types, Present
<1>4. \A t \in Server, c \in Client :
         \/ m_connected_clients'[t][c] = m_connected_clients[t][c]
         \/ t = s /\ m_connected_clients'[t][c] = loop[t].fd
  <2>1. CASE UNCHANGED m_connected_clients
    BY <2>1
  <2>2. CASE register(s)
    <3>1. loop[s].line.client \in Client
      BY <1>3 DEF Line
    <3>2. m_connected_clients' =
            [m_connected_clients EXCEPT ![s][loop[s].line.client] = loop[s].fd]
      BY <2>2 DEF register
    <3> QED
      BY <1>3, <3>1, <3>2, Nested DEF Types, NetTypes
  <2> QED
    BY <2>1, <2>2 DEF replicate, reject_header, reject_body, fd_vars
<1>5. Fds'
  BY <1>1, <1>2, <1>4 DEF Links, Fds
<1>6. \A t \in Server, f \in Fd : t # s => outbox'[t][f] = outbox[t][f]
  <2>1. header \in Item /\ NotLeader \in Item
    BY DEF Item
  <2>2. \/ outbox' = outbox
        \/ \E item \in Item : outbox' = to_stream(s, loop[s].fd, item)
    BY <2>1 DEF register, replicate, reject_header, reject_body, stream_vars
  <2>3. ASSUME NEW item \in Item, outbox' = to_stream(s, loop[s].fd, item)
        PROVE  Sends(s, loop[s].fd, item)
    BY <1>3, <2>3, ToStream DEF Types
  <2> QED
    BY <2>2, <2>3 DEF Sends
<1>7. Down'
  BY <1>1, <1>6 DEF Links, Down
<1>8. \A c \in Client : at_work(c)' => Open(c)'
  BY <1>1 DEF Links, at_work, Open
<1> QED
  BY <1>5, <1>7, <1>8 DEF Links

LEMMA ClientLinks ==
  ASSUME Types, Links, NEW c \in Client, call(c) \/ take_response(c) \/ fail(c)
  PROVE  Links'
<1>1. UNCHANGED <<up, m_connected_clients, m_all_fds, loop, peer>>
  BY DEF call, send_command, take_response, fail, fd_vars, loop_vars, stream_vars
<1>2. /\ \A d \in Client : at_work(d)' =>
             at_work(d) /\ session'[d].server = session[d].server /\ session'[d].fd = session[d].fd
      /\ UNCHANGED outbox \/ take_response(c)
  <2>1. CASE call(c)
    BY <2>1, CallTypes DEF Calls, at_work
  <2>2. CASE take_response(c)
    <3>1. /\ session[c].state = "waiting"
          /\ session'[c].server = session[c].server /\ session'[c].fd = session[c].fd
          /\ \A d \in Client \ {c} : session'[d] = session[d]
      BY <2>2, TakeTypes DEF take_response
    <3> QED
      BY <2>2, <3>1 DEF at_work
  <2>3. CASE fail(c)
    <3>1. session'[c].state \in {"away", "done"} /\ \A d \in Client \ {c} : session'[d] = session[d]
      BY <2>3, FailTypes
    <3>2. UNCHANGED outbox
      BY <2>3 DEF fail, stream_vars
    <3> QED
      BY <3>1, <3>2 DEF at_work
  <2> QED
    BY <2>1, <2>2, <2>3
<1>3. Fds'
  BY <1>1 DEF Links, Fds
<1>4. Down'
  <2>1. CASE UNCHANGED outbox
    BY <1>1, <2>1 DEF Links, Down
  <2>2. CASE take_response(c)
    <3>1. PICK s, f, v : s = session[c].server /\ f = session[c].fd /\ v = Tail(outbox[s][f])
      OBVIOUS
    <3>2. s \in Server /\ f \in Fd /\ outbox[s][f] # <<>> /\ outbox' = [outbox EXCEPT ![s][f] = v]
      BY <2>2, <3>1 DEF take_response, replies, Types, Present, at_work
    <3>3. \A t \in Server, d \in Fd : t # s => outbox'[t][d] = outbox[t][d]
      BY <3>2 DEF Types, NetTypes
    <3> QED
      BY <1>1, <3>2, <3>3 DEF Links, Down
  <2> QED
    BY <1>2, <2>1, <2>2
<1>5. \A d \in Client : at_work(d)' => Open(d)'
  BY <1>1, <1>2 DEF Links, Open
<1> QED
  BY <1>3, <1>4, <1>5 DEF Links

LEMMA HangUpLinks ==
  ASSUME Types, Links, NEW s \in Server, NEW f \in Fd, hang_up(s, f)
  PROVE  Links'
<1>1. /\ peer' = [peer EXCEPT ![s][f] = nobody] /\ outbox' = [outbox EXCEPT ![s][f] = <<>>]
      /\ UNCHANGED <<up, m_connected_clients, m_all_fds, loop, session>>
      /\ peer[s][f] # nobody /\ connection(peer[s][f]) # <<s, f>>
  BY DEF hang_up, fd_vars, loop_vars
<1>2. <<>> \in Seq(Item)
  OBVIOUS
<1>3. /\ \A t \in Server, d \in Fd : peer'[t][d] = IF t = s /\ d = f THEN nobody ELSE peer[t][d]
      /\ \A t \in Server, d \in Fd : outbox'[t][d] = IF t = s /\ d = f THEN <<>> ELSE outbox[t][d]
  BY <1>1, <1>2, Nested DEF Types, NetTypes
<1>4. Fds'
  BY <1>1 DEF Links, Fds
<1>5. Down'
  BY <1>1, <1>3 DEF Links, Down
<1>6. ASSUME NEW c \in Client, at_work(c)' PROVE Open(c)'
  <2>1. at_work(c) /\ Open(c) /\ session[c].server \in Server /\ session[c].fd \in Fd
    BY <1>1, <1>6 DEF at_work, Links, Types, Present
  <2>2. up[session[c].server] => ~(session[c].server = s /\ session[c].fd = f)
    BY <1>1, <2>1 DEF Open, connection
  <2> QED
    BY <1>1, <1>3, <2>1, <2>2 DEF Open
<1> QED
  BY <1>4, <1>5, <1>6 DEF Links

LEMMA LinksStep == AnswersInv /\ Links /\ [Next]_vars => Links'
<1> SUFFICES ASSUME AnswersInv, Links, [Next]_vars PROVE Links'
  OBVIOUS
<1>0. Types /\ Behind
  BY DEF AnswersInv
<1>1. CASE UNCHANGED vars
  BY <1>1, CoreLinks DEF vars, fd_vars, loop_vars, stream_vars
<1>2. CASE (\E l \in proposed : commit(l)) \/ Locks
  BY <1>2, CoreLinks DEF commit, Locks, lock, fd_vars, loop_vars, stream_vars
<1>3. CASE Answers
  BY <1>0, <1>3, CallbackLinks DEF Answers
<1>4. CASE \E s \in Server : event_loop(s)
  BY <1>0, <1>4, AcceptLinks, DisconnectLinks, ReceiveLinks, HaltLinks, HandlerLinks DEF event_loop
<1>5. CASE \E c \in Client : call(c) \/ take_response(c) \/ fail(c)
  BY <1>0, <1>5, ClientLinks
<1>6. CASE \E s \in Server, f \in Fd : hang_up(s, f)
  BY <1>0, <1>6, HangUpLinks
<1> QED
  BY <1>1, <1>2, <1>3, <1>4, <1>5, <1>6, NextCases DEF Moves

\* What a client at work has, by name.
LEMMA AtWork ==
  ASSUME Types, Links, NEW c \in New, at_work(c)
  PROVE  /\ session[c].server \in Server /\ session[c].fd \in Fd /\ c \in Client
         /\ session[c].fd \in m_all_fds[session[c].server]
         /\ up[session[c].server] => peer[session[c].server][session[c].fd] = c /\ c # nobody
         /\ session[c].request_id \in Nat
  BY NobodyAssumption DEF New, Links, Open, Types, Present, NetTypes, Session

LEMMA CommitFresh ==
  ASSUME AnswersInv, Links, Fresh, NEW l \in proposed, commit(l), NEW c \in New
  PROVE  FreshAt(c)'
<1>1. /\ log' = Append(log, l) /\ proposed' = proposed \ {l} /\ l \in Line
      /\ UNCHANGED <<applied, m_connected_clients, loop, inbox, outbox, session>>
  BY DEF commit, store_vars, fd_vars, loop_vars, stream_vars, AnswersInv, Types, StoreTypes
<1>2. /\ Len(log) \in Nat /\ DOMAIN log = 1 .. Len(log) /\ DOMAIN log' = DOMAIN log \cup {Len(log) + 1}
      /\ log'[Len(log) + 1] = l /\ \A p \in DOMAIN log : log'[p] = log[p]
  BY <1>1 DEF AnswersInv, Types, StoreTypes
<1>3. ASSUME session'[c].state = "away" PROVE Unknown(c)'
  <2>1. Unknown(c)
    BY <1>1, <1>3 DEF Fresh, FreshAt
  <2> QED
    BY <1>1, <1>2, <2>1 DEF Unknown
<1>4. ASSUME at_work(c)' PROVE WorksHere(c)'
  <2>0. at_work(c) /\ Types
    BY <1>1, <1>4 DEF at_work, AnswersInv
  <2>1. PICK s, f : s = session[c].server /\ f = session[c].fd
    OBVIOUS
  <2>2. s \in Server /\ f \in Fd
    BY <2>0, <2>1, AtWork
  <2>3. Own(c, s, f) /\ Asked(c, s, f)
    BY <2>0, <2>1 DEF Fresh, FreshAt, WorksHere, Works
  <2>4. PICK w \in Places : Stage(c, s, f, w)
    BY <2>0, <2>1 DEF Fresh, FreshAt, WorksHere, Works
  <2>5. applied[s] \in Nat /\ applied[s] < Len(log) + 1
    BY <1>2, <2>2 DEF AnswersInv, Types, StoreTypes, Behind
  <2>6. Own(c, s, f)'
    BY <1>1, <2>3 DEF Own
  <2>7. /\ asks(c)' = asks(c) \ {l}
        /\ ahead(c, s)' = ahead(c, s) \cup {p \in {Len(log) + 1} : l.client = c}
    BY <1>1, <1>2, <2>5 DEF asks, ahead
  <2>8. l.client = c => asks(c) = {l} /\ ahead(c, s) = {} /\ w = "proposed"
    <3>1. ASSUME l.client = c PROVE l \in asks(c)
      BY <3>1 DEF asks
    <3> QED
      BY <2>4, <3>1 DEF Stage
  <2>9. l.client # c => asks(c)' = asks(c) /\ ahead(c, s)' = ahead(c, s)
    <3>1. l.client # c => l \notin asks(c)
      BY DEF asks
    <3> QED
      BY <2>7, <3>1
  <2>10. Asked(c, s, f)'
    <3>1. \A p \in ahead(c, s) : p \in DOMAIN log
      BY DEF ahead
    <3>2. \A p \in ahead(c, s)' : log'[p].seqnum + 1 = session[c].request_id
      <4>1. CASE l.client = c
        <5>1. l.seqnum + 1 = session[c].request_id
          BY <2>3, <2>8, <4>1 DEF Asked
        <5> QED
          BY <1>2, <2>7, <2>8, <4>1, <5>1
      <4>2. CASE l.client # c
        BY <1>2, <2>3, <2>9, <3>1, <4>2 DEF Asked
      <4> QED
        BY <4>1, <4>2
    <3>3. \A m \in asks(c)' : m.seqnum + 1 = session[c].request_id
      BY <2>3, <2>7 DEF Asked
    <3> QED
      BY <1>1, <2>3, <3>2, <3>3 DEF Asked, handles
  <2>11. CASE l.client = c
    <3>1. asks(c)' = {} /\ ahead(c, s)' = {Len(log) + 1}
      BY <2>7, <2>8, <2>11
    <3>2. Stage(c, s, f, "log")'
      BY <1>1, <2>4, <2>8, <2>11, <3>1 DEF Stage, handles
    <3> QED
      BY <1>1, <2>1, <2>6, <2>10, <3>2 DEF WorksHere, Works, Places
  <2>12. CASE l.client # c
    <3>1. Stage(c, s, f, w)'
      BY <1>1, <2>4, <2>9, <2>12 DEF Stage, handles, Answered
    <3> QED
      BY <1>1, <2>1, <2>4, <2>6, <2>10, <3>1 DEF WorksHere, Works
  <2> QED
    BY <2>11, <2>12
<1> QED
  BY <1>3, <1>4 DEF FreshAt

\* What the callback sends for the next entry, and to whom.
LEMMA CallbackReplies ==
  ASSUME AnswersInv, NEW t \in Server, committed_callback(t)
  PROVE  \E l \in Line :
           /\ applied[t] + 1 \in DOMAIN log /\ log[applied[t] + 1] = l /\ up[t]
           /\ applied' = [applied EXCEPT ![t] = applied[t] + 1]
           /\ UNCHANGED <<log, proposed, up, m_connected_clients, loop, inbox, session>>
           /\ \/ outbox' = outbox
              \/ \E x \in Response :
                   /\ x.client = l.client /\ x.seqnum = l.seqnum
                   /\ m_connected_clients[t][l.client] \in Fd
                   /\ Sends(t, m_connected_clients[t][l.client], frame(x))
<1>0. Types /\ Behind
  BY DEF AnswersInv
<1>1. PICK l \in Line :
        /\ applied[t] + 1 \in 1 .. Len(log) /\ log[applied[t] + 1] = l
        /\ parse_request(l).client = l.client /\ parse_request(l).seqnum = l.seqnum
        /\ applied' = [applied EXCEPT ![t] = applied[t] + 1] /\ up[t]
        /\ UNCHANGED <<log, proposed, up, m_connected_clients, loop, inbox, session>>
  BY <1>0, Callback
<1>2. l.client \in Client
  BY DEF Line
<1>3. \/ outbox' = outbox
      \/ \E x \in Response :
           /\ \/ x = response(parse_request(l), m_kvstore[t][l.key])
              \/ x = m_response_cache[t][l.client] /\ x.seqnum = l.seqnum
           /\ m_connected_clients[t][x.client] \in Fd
           /\ Sends(t, m_connected_clients[t][x.client], frame(x))
  BY <1>0, <1>1, CallbackSends
<1>4. ASSUME NEW x \in Response, x = m_response_cache[t][l.client] PROVE x.client = l.client
  BY <1>2, <1>4, NullAssumption DEF AnswersInv, Caches, Cached
<1>5. \A x : x = response(parse_request(l), m_kvstore[t][l.key]) =>
               x.client = l.client /\ x.seqnum = l.seqnum
  BY <1>1 DEF response
<1>6. DOMAIN log = 1 .. Len(log)
  BY <1>0 DEF Types, StoreTypes
<1> QED
  BY <1>1, <1>3, <1>4, <1>5, <1>6

LEMMA CallbackFresh ==
  ASSUME AnswersInv, Links, Fresh, NEW t \in Server, committed_callback(t), NEW c \in New
  PROVE  FreshAt(c)'
<1>0. Types /\ Behind
  BY DEF AnswersInv
<1>1. PICK l \in Line :
        /\ applied[t] + 1 \in DOMAIN log /\ log[applied[t] + 1] = l /\ up[t]
        /\ applied' = [applied EXCEPT ![t] = applied[t] + 1]
        /\ UNCHANGED <<log, proposed, up, m_connected_clients, loop, inbox, session>>
        /\ \/ outbox' = outbox
           \/ \E x \in Response :
                /\ x.client = l.client /\ x.seqnum = l.seqnum
                /\ m_connected_clients[t][l.client] \in Fd
                /\ Sends(t, m_connected_clients[t][l.client], frame(x))
  BY CallbackReplies
<1>2. PICK p : p = applied[t] + 1
  OBVIOUS
<1>3. /\ p \in DOMAIN log /\ log[p] = l /\ applied[t] \in Nat
      /\ DOMAIN log \subseteq Nat
      /\ \A u \in Server : applied'[u] = IF u = t THEN p ELSE applied[u]
  BY <1>0, <1>1, <1>2 DEF Types, StoreTypes
<1>4. \/ outbox' = outbox
      \/ \E x \in Response :
           /\ x.client = l.client /\ x.seqnum = l.seqnum
           /\ m_connected_clients[t][l.client] \in Fd
           /\ Sends(t, m_connected_clients[t][l.client], frame(x))
  BY <1>1
<1>5. ASSUME session'[c].state = "away" PROVE Unknown(c)'
  BY <1>1, <1>5 DEF Fresh, FreshAt, Unknown
<1>6. ASSUME at_work(c)' PROVE WorksHere(c)'
  <2>0. at_work(c)
    BY <1>1, <1>6 DEF at_work
  <2>1. PICK s, f : s = session[c].server /\ f = session[c].fd
    OBVIOUS
  <2>2. s \in Server /\ f \in Fd /\ (up[s] => peer[s][f] # nobody)
    BY <1>0, <2>0, <2>1, AtWork
  <2>3. Own(c, s, f) /\ Asked(c, s, f)
    BY <2>0, <2>1 DEF Fresh, FreshAt, WorksHere, Works
  <2>4. PICK w \in Places : Stage(c, s, f, w)
    BY <2>0, <2>1 DEF Fresh, FreshAt, WorksHere, Works
  <2>5. Own(c, s, f)' /\ asks(c)' = asks(c)
    BY <1>1, <2>3 DEF Own, asks
  <2>6. ahead(c, s)' = IF t = s THEN ahead(c, s) \ {p} ELSE ahead(c, s)
    BY <1>1, <1>2, <1>3, <2>2 DEF ahead
  <2>7. Asked(c, s, f)'
    <3>1. \A q \in ahead(c, s)' : log'[q].seqnum + 1 = session'[c].request_id
      BY <1>1, <2>3, <2>6 DEF Asked
    <3> QED
      BY <1>1, <2>3, <2>5, <3>1 DEF Asked, handles
  <2>8. CASE t = s /\ l.client = c
    <3>1. p \in ahead(c, s)
      BY <1>2, <1>3, <2>8 DEF ahead
    <3>2. ahead(c, s)' = {} /\ w = "log"
      BY <2>4, <2>6, <2>8, <3>1 DEF Stage
    <3>3. l.seqnum + 1 = session[c].request_id
      BY <1>3, <2>3, <3>1 DEF Asked
    <3>4. outbox[s][f] = <<>> /\ ~handles(s, f)
      BY <2>4, <3>2 DEF Stage
    <3>5. outbox'[s][f] = <<>>
          \/ \E x \in Response : /\ x.client = c /\ x.seqnum + 1 = session[c].request_id
                                 /\ outbox'[s][f] = <<frame(x)>>
      <4>1. CASE outbox' = outbox
        BY <3>4, <4>1
      <4>2. ASSUME NEW x \in Response, x.client = l.client, x.seqnum = l.seqnum,
                   NEW d \in Fd, Sends(t, d, frame(x))
            PROVE  outbox'[s][f] = <<>> \/ outbox'[s][f] = <<frame(x)>>
        <5>1. outbox'[s][f] = outbox[s][f] \/ outbox'[s][f] = Append(outbox[s][f], frame(x))
          BY <2>2, <4>2 DEF Sends
        <5>2. Append(<<>>, frame(x)) = <<frame(x)>>
          OBVIOUS
        <5> QED
          BY <3>4, <5>1, <5>2
      <4> QED
        BY <1>4, <2>8, <3>3, <4>1, <4>2
    <3>6. CASE outbox'[s][f] = <<>>
      <4>1. Stage(c, s, f, "none")'
        BY <1>1, <2>4, <2>5, <3>2, <3>4, <3>6 DEF Stage, handles
      <4> QED
        BY <1>1, <2>1, <2>5, <2>7, <4>1 DEF WorksHere, Works, Places
    <3>7. CASE outbox'[s][f] # <<>>
      <4>1. Answered(c, s, f)'
        BY <1>1, <3>5, <3>7 DEF Answered
      <4>2. Stage(c, s, f, "outbox")'
        BY <1>1, <2>4, <2>5, <3>2, <3>4, <4>1 DEF Stage, handles
      <4> QED
        BY <1>1, <2>1, <2>5, <2>7, <4>2 DEF WorksHere, Works, Places
    <3> QED
      BY <3>6, <3>7
  <2>9. CASE ~(t = s /\ l.client = c)
    <3>1. ahead(c, s)' = ahead(c, s)
      <4>1. t = s => p \notin ahead(c, s)
        BY <1>3, <2>9 DEF ahead
      <4> QED
        BY <2>6, <4>1
    <3>2. outbox'[s][f] = outbox[s][f]
      <4>1. l.client \in Client
        BY DEF Line
      <4>2. t = s => m_connected_clients[t][l.client] # f
        BY <2>3, <2>9, <4>1 DEF Own
      <4> QED
        BY <1>4, <2>2, <4>2 DEF Sends
    <3>3. Stage(c, s, f, w)'
      BY <1>1, <2>4, <2>5, <3>1, <3>2 DEF Stage, handles, Answered
    <3> QED
      BY <1>1, <2>1, <2>4, <2>5, <2>7, <3>3 DEF WorksHere, Works
  <2> QED
    BY <2>8, <2>9
<1> QED
  BY <1>5, <1>6 DEF FreshAt

\* Nothing of a new client is touched.
LEMMA SameFresh ==
  ASSUME Fresh, NEW c \in New,
         UNCHANGED <<log, proposed, applied, m_connected_clients, loop, inbox, outbox, session>>
  PROVE  FreshAt(c)'
<1>1. Unknown(c) => Unknown(c)'
  BY DEF Unknown
<1>2. ASSUME NEW s, NEW f, Works(c, s, f) PROVE Works(c, s, f)'
  <2>1. Own(c, s, f)' /\ Asked(c, s, f)'
    BY <1>2 DEF Works, Own, Asked, handles, asks, ahead
  <2>2. \A w : Stage(c, s, f, w) => Stage(c, s, f, w)'
    BY DEF Stage, handles, asks, ahead, Answered
  <2> QED
    BY <1>2, <2>1, <2>2 DEF Works
<1> QED
  BY <1>1, <1>2 DEF Fresh, FreshAt, WorksHere, at_work

\* The request stays where it is.
LEMMA SameStage ==
  ASSUME NEW c, NEW s, NEW f, NEW w, Stage(c, s, f, w), session'[c] = session[c],
         inbox'[s][f] = inbox[s][f], outbox'[s][f] = outbox[s][f],
         handles(s, f)' <=> handles(s, f),
         handles(s, f) => (loop'[s].pc = "reject body" <=> loop[s].pc = "reject body"),
         asks(c)' = asks(c), ahead(c, s)' = ahead(c, s)
  PROVE  Stage(c, s, f, w)'
  BY DEF Stage, Answered

LEMMA AcceptFresh ==
  ASSUME Types, Links, Fresh, NEW t \in Server, NEW d \in Client, accept(t, d), NEW c \in New
  PROVE  FreshAt(c)'
<1>1. PICK g \in Fd \ m_all_fds[t] : Accepts(t, d, g)
  BY AcceptAccepts
<1>2. /\ UNCHANGED <<log, proposed, applied, m_connected_clients, loop>>
      /\ \A u \in Server, e \in Fd :
            /\ inbox'[u][e] = IF u = t /\ e = g THEN <<>> ELSE inbox[u][e]
            /\ outbox'[u][e] = IF u = t /\ e = g THEN <<>> ELSE outbox[u][e]
      /\ session[d].state = "away" /\ session'[d].state = "idle"
      /\ session'[d].server = t /\ session'[d].fd = g
      /\ c # d => session'[c] = session[c]
  BY <1>1 DEF Accepts, New
<1>3. \A u \in Server, e \in Fd : \A i \in DOMAIN inbox'[u][e] :
         ~(u = t /\ e = g) /\ i \in DOMAIN inbox[u][e] /\ inbox'[u][e][i] = inbox[u][e][i]
  BY <1>2
<1>4. ASSUME session'[c].state = "away" PROVE Unknown(c)'
  <2>1. Unknown(c)
    BY <1>2, <1>4 DEF Fresh, FreshAt
  <2> QED
    BY <1>2, <1>3, <2>1 DEF Unknown
<1>5. ASSUME c = d PROVE WorksHere(c)'
  <2>1. Unknown(c)
    BY <1>2, <1>5 DEF Fresh, FreshAt
  <2>2. \A e \in Client : m_connected_clients[t][e] # g
    BY NobodyAssumption DEF Links, Fds
  <2>3. loop[t].pc # "select" => loop[t].fd # g
    BY DEF Links, Fds
  <2>4. Own(c, t, g)'
    BY <1>2, <1>3, <2>1, <2>2, <2>3 DEF Own, Unknown
  <2>5. inbox'[t][g] = <<>> /\ outbox'[t][g] = <<>> /\ Len(<<>>) = 0 /\ ~handles(t, g)'
        /\ asks(c)' = {} /\ ahead(c, t)' = {}
    BY <1>2, <2>1, <2>3 DEF handles, asks, ahead, Unknown
  <2>6. Asked(c, t, g)' /\ Stage(c, t, g, "none")'
    BY <2>5 DEF Asked, Stage
  <2> QED
    BY <1>2, <1>5, <2>4, <2>6 DEF WorksHere, Works, Places
<1>6. ASSUME c # d, at_work(c)' PROVE WorksHere(c)'
  <2>0. at_work(c)
    BY <1>2, <1>6 DEF at_work
  <2>1. PICK s, f : s = session[c].server /\ f = session[c].fd
    OBVIOUS
  <2>2. s \in Server /\ f \in Fd /\ ~(s = t /\ f = g)
    BY <1>1, <2>0, <2>1, AtWork
  <2>3. Own(c, s, f) /\ Asked(c, s, f)
    BY <2>0, <2>1 DEF Fresh, FreshAt, WorksHere, Works
  <2>4. PICK w \in Places : Stage(c, s, f, w)
    BY <2>0, <2>1 DEF Fresh, FreshAt, WorksHere, Works
  <2>5. inbox'[s][f] = inbox[s][f] /\ outbox'[s][f] = outbox[s][f]
    BY <1>2, <2>2
  <2>6. Own(c, s, f)'
    BY <1>2, <1>3, <2>3 DEF Own
  <2>7. Asked(c, s, f)'
    BY <1>2, <1>6, <2>3, <2>5 DEF Asked, handles, asks, ahead
  <2>8. Stage(c, s, f, w)'
    <3>1. asks(c)' = asks(c) /\ ahead(c, s)' = ahead(c, s) /\ (handles(s, f)' <=> handles(s, f))
          /\ loop' = loop /\ session'[c] = session[c]
      BY <1>2, <1>6 DEF asks, ahead, handles
    <3> QED
      BY <2>4, <2>5, <3>1, SameStage
  <2> QED
    BY <1>2, <1>6, <2>1, <2>4, <2>6, <2>7, <2>8 DEF WorksHere, Works
<1> QED
  BY <1>4, <1>5, <1>6 DEF FreshAt

LEMMA DisconnectFresh ==
  ASSUME Types, Links, Fresh, NEW t \in Server, NEW g \in Fd, disconnect(t, g), NEW c \in New
  PROVE  FreshAt(c)'
<1>1. /\ m_connected_clients' = [m_connected_clients EXCEPT
             ![t] = [e \in Client |-> IF @[e] = g THEN nobody ELSE @[e]]]
      /\ UNCHANGED <<log, proposed, applied, loop, inbox, outbox, session>>
  BY DEF disconnect, log_vars, store_vars, loop_vars, stream_vars
<1>2. \A u \in Server, e \in Client :
         m_connected_clients'[u][e] \in {m_connected_clients[u][e], nobody}
  BY <1>1 DEF Types, NetTypes
<1>3. Unknown(c) => Unknown(c)'
  BY <1>1 DEF Unknown
<1>4. ASSUME at_work(c) PROVE WorksHere(c)'
  <2>1. PICK s, f : s = session[c].server /\ f = session[c].fd
    OBVIOUS
  <2>2. s \in Server /\ f \in Fd /\ f # nobody
    BY <1>4, <2>1, AtWork, NobodyAssumption
  <2>3. Own(c, s, f) /\ Asked(c, s, f)
    BY <1>4, <2>1 DEF Fresh, FreshAt, WorksHere, Works
  <2>4. PICK w \in Places : Stage(c, s, f, w)
    BY <1>4, <2>1 DEF Fresh, FreshAt, WorksHere, Works
  <2>5. Own(c, s, f)'
    BY <1>1, <1>2, <2>2, <2>3 DEF Own
  <2>6. Asked(c, s, f)' /\ Stage(c, s, f, w)'
    BY <1>1, <2>3, <2>4 DEF Asked, Stage, handles, asks, ahead, Answered
  <2> QED
    BY <1>1, <2>1, <2>4, <2>5, <2>6 DEF WorksHere, Works
<1> QED
  BY <1>1, <1>3, <1>4 DEF Fresh, FreshAt, at_work

LEMMA ReceiveFresh ==
  ASSUME Types, Links, Fresh, NEW t \in Server, NEW g \in Fd, receive(t, g), NEW c \in New
  PROVE  FreshAt(c)'
<1>1. PICK l, rest : l = Head(inbox[t][g]) /\ rest = Tail(inbox[t][g])
  OBVIOUS
<1>2. /\ loop' = [loop EXCEPT ![t] = [pc |-> "register", fd |-> g, line |-> l]]
      /\ inbox' = [inbox EXCEPT ![t][g] = rest] /\ inbox[t][g] # <<>> /\ loop[t].pc = "select"
      /\ UNCHANGED <<log, proposed, applied, m_connected_clients, outbox, session>>
  BY <1>1 DEF receive, log_vars, store_vars, fd_vars, at
<1>3. inbox[t][g] \in Seq(Line) /\ rest \in Seq(Line)
  <2>1. inbox[t][g] \in Seq(Line)
    BY DEF Types, NetTypes
  <2> QED
    BY <1>1, <1>2, <2>1
<1>4. /\ 1 \in DOMAIN inbox[t][g] /\ inbox[t][g][1] = l
      /\ \A i \in DOMAIN rest : i + 1 \in DOMAIN inbox[t][g] /\ rest[i] = inbox[t][g][i + 1]
      /\ Len(rest) = Len(inbox[t][g]) - 1
  BY <1>1, <1>2, <1>3
<1>5. \A u \in Server, e \in Fd : inbox'[u][e] = IF u = t /\ e = g THEN rest ELSE inbox[u][e]
  BY <1>2, <1>3, Nested DEF Types, NetTypes
<1>6. /\ \A u \in Server : u # t => loop'[u] = loop[u]
      /\ loop'[t].pc = "register" /\ loop'[t].fd = g /\ loop'[t].line = l
  BY <1>2 DEF Types, NetTypes
<1>7. ASSUME Unknown(c) PROVE Unknown(c)'
  <2>1. \A u \in Server, e \in Fd : \A i \in DOMAIN inbox'[u][e] : inbox'[u][e][i].client # c
    BY <1>4, <1>5, <1>7 DEF Unknown
  <2>2. \A u \in Server : loop'[u].pc # "select" => loop'[u].line.client # c
    BY <1>4, <1>6, <1>7 DEF Unknown
  <2> QED
    BY <1>2, <1>7, <2>1, <2>2 DEF Unknown
<1>8. ASSUME at_work(c) PROVE WorksHere(c)'
  <2>1. PICK s, f : s = session[c].server /\ f = session[c].fd
    OBVIOUS
  <2>2. s \in Server /\ f \in Fd
    BY <1>8, <2>1, AtWork
  <2>3. Own(c, s, f) /\ Asked(c, s, f)
    BY <1>8, <2>1 DEF Fresh, FreshAt, WorksHere, Works
  <2>4. PICK w \in Places : Stage(c, s, f, w)
    BY <1>8, <2>1 DEF Fresh, FreshAt, WorksHere, Works
  <2>5. l.client = c <=> t = s /\ g = f
    BY <1>4, <2>3 DEF Own
  <2>6. Own(c, s, f)'
    <3>1. \A u \in Server, e \in Fd : \A i \in DOMAIN inbox'[u][e] :
             inbox'[u][e][i].client = c <=> u = s /\ e = f
      BY <1>4, <1>5, <2>3 DEF Own
    <3>2. \A u \in Server : loop'[u].pc # "select" =>
             (loop'[u].line.client = c <=> u = s /\ loop'[u].fd = f)
      BY <1>6, <2>3, <2>5 DEF Own
    <3> QED
      BY <1>2, <2>3, <3>1, <3>2 DEF Own
  <2>7. asks(c)' = asks(c) /\ ahead(c, s)' = ahead(c, s)
    BY <1>2 DEF asks, ahead
  <2>8. Asked(c, s, f)'
    <3>1. \A i \in DOMAIN inbox'[s][f] : inbox'[s][f][i].seqnum + 1 = session[c].request_id
      BY <1>4, <1>5, <2>2, <2>3 DEF Asked
    <3>2. handles(s, f)' => loop'[s].line.seqnum + 1 = session[c].request_id
      <4>1. CASE t = s
        BY <1>4, <1>6, <2>3, <4>1 DEF Asked, handles
      <4>2. CASE t # s
        BY <1>6, <2>2, <2>3, <4>2 DEF Asked, handles
      <4> QED
        BY <4>1, <4>2
    <3> QED
      BY <1>2, <2>3, <2>7, <3>1, <3>2 DEF Asked
  <2>9. CASE t = s /\ g = f
    <3>1. w = "inbox"
      <4>1. Len(inbox[s][f]) # 0
        BY <1>2, <1>3, <2>9
      <4> QED
        BY <2>4, <4>1 DEF Stage
    <3>2. Len(inbox[s][f]) = 1 /\ outbox[s][f] = <<>>
      BY <1>2, <2>4, <2>9, <3>1 DEF Stage, handles
    <3>3. Len(inbox'[s][f]) = 0
      BY <1>4, <1>5, <2>9, <3>2
    <3>4. loop'[s].pc = "register"
      BY <1>6, <2>9
    <3>5. asks(c)' = {} /\ ahead(c, s)' = {} /\ session'[c].state = "waiting"
      BY <1>2, <2>4, <2>7, <3>1 DEF Stage
    <3>a. outbox'[s][f] = <<>>
      BY <1>2, <3>2
    <3>6. Stage(c, s, f, "loop")'
      BY <3>a, <3>3, <3>4, <3>5 DEF Stage
    <3> QED
      BY <1>2, <2>1, <2>6, <2>8, <3>6 DEF WorksHere, Works, Places
  <2>10. CASE ~(t = s /\ g = f)
    <3>1. inbox'[s][f] = inbox[s][f]
      BY <1>5, <2>2, <2>10
    <3>2. handles(s, f)' <=> handles(s, f)
      BY <1>2, <1>6, <2>2, <2>10 DEF handles
    <3>3. handles(s, f) => loop'[s] = loop[s]
      BY <1>2, <1>6, <2>2 DEF handles
    <3>4. Stage(c, s, f, w)'
      BY <1>2, <2>4, <2>7, <3>1, <3>2, <3>3, SameStage
    <3> QED
      BY <1>2, <2>1, <2>4, <2>6, <2>8, <3>4 DEF WorksHere, Works
  <2> QED
    BY <2>9, <2>10
<1> QED
  BY <1>2, <1>7, <1>8 DEF Fresh, FreshAt, at_work

LEMMA HaltFresh ==
  ASSUME Types, Links, Fresh, NEW t \in Server, NEW g \in Fd, body_did_not_come_at_once(t, g),
         NEW c \in New
  PROVE  FreshAt(c)'
<1>1. /\ inbox' = [inbox EXCEPT ![t] = [e \in Fd |-> <<>>]]
      /\ outbox' = [outbox EXCEPT ![t] = [e \in Fd |-> <<>>]]
      /\ UNCHANGED <<log, proposed, applied, m_connected_clients, loop, session>>
      /\ loop[t].pc = "select"
  BY DEF body_did_not_come_at_once, halt, fd_vars, loop_vars, log_vars, store_vars, at
<1>2. \A u \in Server, e \in Fd : inbox'[u][e] = IF u = t THEN <<>> ELSE inbox[u][e]
  BY <1>1 DEF Types, NetTypes
<1>3. \A u \in Server, e \in Fd : outbox'[u][e] = IF u = t THEN <<>> ELSE outbox[u][e]
  BY <1>1 DEF Types, NetTypes
<1>4. \A u \in Server, e \in Fd : \A i \in DOMAIN inbox'[u][e] :
         i \in DOMAIN inbox[u][e] /\ inbox'[u][e][i] = inbox[u][e][i]
  BY <1>2
<1>5. Unknown(c) => Unknown(c)'
  BY <1>1, <1>4 DEF Unknown
<1>6. ASSUME at_work(c) PROVE WorksHere(c)'
  <2>1. PICK s, f : s = session[c].server /\ f = session[c].fd
    OBVIOUS
  <2>2. s \in Server /\ f \in Fd
    BY <1>6, <2>1, AtWork
  <2>3. Own(c, s, f) /\ Asked(c, s, f)
    BY <1>6, <2>1 DEF Fresh, FreshAt, WorksHere, Works
  <2>4. PICK w \in Places : Stage(c, s, f, w)
    BY <1>6, <2>1 DEF Fresh, FreshAt, WorksHere, Works
  <2>5. Own(c, s, f)' /\ Asked(c, s, f)'
    BY <1>1, <1>4, <2>2, <2>3 DEF Own, Asked, handles, asks, ahead
  <2>6. CASE t # s
    <3>1. inbox'[s][f] = inbox[s][f] /\ outbox'[s][f] = outbox[s][f]
      BY <1>2, <1>3, <2>2, <2>6
    <3>2. Stage(c, s, f, w)'
      BY <1>1, <2>4, <3>1 DEF Stage, handles, asks, ahead, Answered
    <3> QED
      BY <1>1, <2>1, <2>4, <2>5, <3>2 DEF WorksHere, Works
  <2>7. CASE t = s
    <3>1. inbox'[s][f] = <<>> /\ outbox'[s][f] = <<>> /\ Len(<<>>) = 0 /\ ~handles(s, f)
      BY <1>1, <1>2, <1>3, <2>2, <2>7 DEF handles
    <3>2. PICK x \in Places : x = IF w \in {"inbox", "outbox"} THEN "none" ELSE w
      BY DEF Places
    <3>3. /\ (asks(c) # {} => x = "proposed") /\ (\A l, m \in asks(c) : l = m)
          /\ (ahead(c, s) # {} => x = "log") /\ (\A p, q \in ahead(c, s) : p = q)
          /\ (x # "none" => session[c].state = "waiting") /\ x # "inbox" /\ x # "outbox"
      BY <2>4, <3>2 DEF Stage
    <3>4. asks(c)' = asks(c) /\ ahead(c, s)' = ahead(c, s) /\ ~handles(s, f)' /\ session' = session
      BY <1>1, <3>1 DEF asks, ahead, handles
    <3>5. Stage(c, s, f, x)'
      BY <3>1, <3>3, <3>4 DEF Stage
    <3> QED
      BY <1>1, <2>1, <2>5, <3>2, <3>5 DEF WorksHere, Works
  <2> QED
    BY <2>6, <2>7
<1> QED
  BY <1>1, <1>5, <1>6 DEF Fresh, FreshAt, at_work

LEMMA TwoItems ==
  ASSUME NEW x, NEW y
  PROVE  Append(<<x>>, y) = <<x, y>>
<1> DEFINE S == {x, y}
<1>1. <<x>> \in Seq(S) /\ Len(<<x>>) = 1 /\ <<x>>[1] = x
  OBVIOUS
<1>2. PICK u : u = Append(<<x>>, y)
  OBVIOUS
<1>3. u \in Seq(S) /\ Len(u) = 2 /\ u[1] = x /\ u[2] = y
  BY <1>1, <1>2
<1>4. u = <<x, y>>
  BY <1>3
<1> QED
  BY <1>2, <1>4

\* What the handlers of the event loop leave as it was.
LEMMA HandlerKeeps ==
  ASSUME Types, Fresh, NEW t \in Server,
         register(t) \/ replicate(t) \/ reject_header(t) \/ reject_body(t), NEW c \in New
  PROVE  /\ Unknown(c) => Unknown(c)'
         /\ \A s \in Server, f \in Fd : Own(c, s, f) => Own(c, s, f)'
         /\ \A s \in Server, f \in Fd : Own(c, s, f) /\ Asked(c, s, f) /\ c \in Client => Asked(c, s, f)'
         /\ \A s \in Server : ahead(c, s)' = ahead(c, s)
         /\ \A u \in Server : u # t => loop'[u] = loop[u]
         /\ session' = session /\ inbox' = inbox /\ up[t] /\ loop[t].pc # "select"
         /\ loop[t].line \in Line /\ loop[t].fd \in Fd
<1>1. /\ UNCHANGED <<log, applied, inbox, session>> /\ up[t] /\ loop[t].pc # "select"
      /\ \/ loop' = [loop EXCEPT ![t] = selecting]
         \/ \E q \in {"register", "replicate", "reject", "reject body"} : goto(t, q)
  BY DEF register, replicate, reject_header, reject_body, at, log_vars, store_vars, fd_vars,
         stream_vars
<1>2. /\ \A u \in Server : loop'[u].pc # "select" =>
            loop[u].pc # "select" /\ loop'[u].line = loop[u].line /\ loop'[u].fd = loop[u].fd
      /\ proposed' \subseteq proposed \cup {loop[t].line}
  BY HandlerTypes
<1>3. loop[t].line \in Line /\ loop[t].fd \in Fd
  BY <1>1 DEF Types, Present
<1>4. \A u \in Server : u # t => loop'[u] = loop[u]
  BY <1>1 DEF goto, Types, NetTypes
<1>5. ASSUME Unknown(c) PROVE Unknown(c)'
  <2>1. loop[t].line.client # c
    BY <1>1, <1>5 DEF Unknown
  <2> QED
    BY <1>1, <1>2, <1>5, <2>1 DEF Unknown
<1>6. \A u \in Server, d \in Client :
         \/ m_connected_clients'[u][d] = m_connected_clients[u][d]
         \/ u = t /\ d = loop[t].line.client /\ m_connected_clients'[u][d] = loop[t].fd
  <2>1. CASE UNCHANGED m_connected_clients
    BY <2>1
  <2>2. CASE register(t)
    <3>1. loop[t].line.client \in Client
      BY <1>3 DEF Line
    <3>2. m_connected_clients' =
            [m_connected_clients EXCEPT ![t][loop[t].line.client] = loop[t].fd]
      BY <2>2 DEF register
    <3> QED
      BY <1>3, <3>1, <3>2, Nested DEF Types, NetTypes
  <2> QED
    BY <2>1, <2>2 DEF replicate, reject_header, reject_body, fd_vars
<1>a. loop[t].pc # "select" /\ inbox' = inbox
  BY <1>1
<1>7. ASSUME NEW s \in Server, NEW f \in Fd, Own(c, s, f) PROVE Own(c, s, f)'
  <2>1. \A d \in Client : m_connected_clients'[s][d] = f => d = c
    BY <1>a, <1>6, <1>7 DEF Own
  <2>2. \A u \in Server : loop'[u].pc # "select" =>
           (loop'[u].line.client = c <=> u = s /\ loop'[u].fd = f)
    BY <1>2, <1>7 DEF Own
  <2> QED
    BY <1>a, <1>7, <2>1, <2>2 DEF Own
<1>8. \A s \in Server : ahead(c, s)' = ahead(c, s)
  BY <1>1 DEF ahead
<1>9. ASSUME NEW s \in Server, NEW f \in Fd, Own(c, s, f), Asked(c, s, f) PROVE Asked(c, s, f)'
  <2>1. loop[t].line.client = c => loop[t].line.seqnum + 1 = session[c].request_id
    BY <1>1, <1>9 DEF Own, Asked, handles
  <2>2. \A m \in asks(c)' : m.seqnum + 1 = session[c].request_id
    BY <1>2, <1>9, <2>1 DEF Asked, asks
  <2>3. handles(s, f)' => loop'[s].line.seqnum + 1 = session[c].request_id
    BY <1>2, <1>9 DEF Asked, handles
  <2> QED
    BY <1>1, <1>8, <1>9, <2>2, <2>3 DEF Asked
<1> QED
  BY <1>1, <1>3, <1>4, <1>5, <1>7, <1>8, <1>9

LEMMA HandlerFresh ==
  ASSUME Types, Links, Fresh, NEW t \in Server,
         register(t) \/ replicate(t) \/ reject_header(t) \/ reject_body(t), NEW c \in New
  PROVE  FreshAt(c)'
<1>1. /\ Unknown(c) => Unknown(c)'
      /\ \A s \in Server, f \in Fd : Own(c, s, f) => Own(c, s, f)'
      /\ \A s \in Server, f \in Fd : Own(c, s, f) /\ Asked(c, s, f) /\ c \in Client => Asked(c, s, f)'
      /\ \A s \in Server : ahead(c, s)' = ahead(c, s)
      /\ \A u \in Server : u # t => loop'[u] = loop[u]
      /\ session' = session /\ inbox' = inbox /\ up[t] /\ loop[t].pc # "select"
      /\ loop[t].line \in Line /\ loop[t].fd \in Fd
  BY HandlerKeeps
<1>2. ASSUME at_work(c) PROVE WorksHere(c)'
  <2>1. PICK s, f : s = session[c].server /\ f = session[c].fd
    OBVIOUS
  <2>2. s \in Server /\ f \in Fd /\ c \in Client /\ (up[s] => peer[s][f] # nobody)
    BY <1>2, <2>1, AtWork
  <2>3. Own(c, s, f) /\ Asked(c, s, f)
    BY <1>2, <2>1 DEF Fresh, FreshAt, WorksHere, Works
  <2>4. PICK w \in Places : Stage(c, s, f, w)
    BY <1>2, <2>1 DEF Fresh, FreshAt, WorksHere, Works
  <2>5. Own(c, s, f)' /\ Asked(c, s, f)'
    BY <1>1, <2>2, <2>3
  <2>6. loop[t].line.client = c <=> t = s /\ loop[t].fd = f
    BY <1>1, <2>3 DEF Own
  <2>7. (\E x \in Places : Stage(c, s, f, x)') => WorksHere(c)'
    BY <1>1, <2>1, <2>5 DEF WorksHere, Works
  \* Somebody else's request.
  <2>8. CASE ~(t = s /\ loop[t].fd = f)
    <3>1. (~handles(s, f)' /\ ~handles(s, f)) \/ (t # s /\ loop'[s] = loop[s])
      <4>1. CASE t = s
        <5>1. loop'[t].pc # "select" => loop'[t].fd = loop[t].fd
          BY HandlerTypes
        <5> QED
          BY <2>8, <4>1, <5>1 DEF handles
      <4> QED
        BY <1>1, <2>2, <4>1
    <3>2. asks(c)' = asks(c)
      <4>1. proposed' = proposed \/ proposed' = proposed \cup {loop[t].line}
        BY DEF register, replicate, reject_header, reject_body, log_vars
      <4> QED
        BY <2>6, <2>8, <4>1 DEF asks
    <3>3. outbox'[s][f] = outbox[s][f]
      <4>1. CASE outbox' = outbox
        BY <4>1
      <4>2. ASSUME NEW item \in {header, NotLeader}, outbox' = to_stream(t, loop[t].fd, item)
            PROVE  outbox'[s][f] = outbox[s][f]
        <5>1. Sends(t, loop[t].fd, item)
          BY <1>1, <4>2, ToStream DEF Types, Item
        <5> QED
          BY <2>2, <2>8, <5>1 DEF Sends
      <4> QED
        BY <4>1, <4>2 DEF register, replicate, reject_header, reject_body, stream_vars
    <3>4. (handles(s, f)' <=> handles(s, f)) /\ (handles(s, f) => loop'[s].pc = loop[s].pc)
      BY <3>1 DEF handles
    <3>5. Stage(c, s, f, w)'
      BY <1>1, <2>2, <2>4, <3>2, <3>3, <3>4, SameStage
    <3> QED
      BY <2>4, <2>7, <3>5
  <2>9. CASE t = s /\ loop[t].fd = f
    <3>1. handles(s, f) /\ w = "loop" /\ asks(c) = {} /\ ahead(c, s)' = {}
          /\ Len(inbox'[s][f]) = 0 /\ session'[c].state = "waiting"
      BY <1>1, <2>2, <2>4, <2>9 DEF handles, Stage
    <3>2. outbox[s][f] = IF loop[s].pc = "reject body" THEN <<header>> ELSE <<>>
      BY <2>4, <3>1 DEF Stage
    <3>3. loop \in [Server -> Loop] /\ selecting.pc = "select"
      BY DEF Types, NetTypes, selecting
    <3>4. \A q : goto(s, q) => loop'[s].pc = q /\ loop'[s].fd = f
      <4>1. ASSUME NEW q, goto(s, q) PROVE loop'[s].pc = q /\ loop'[s].fd = f
        <5>1. PICK y : y = [loop[s] EXCEPT !.pc = q]
          OBVIOUS
        <5>2. loop' = [loop EXCEPT ![s] = y]
          BY <4>1, <5>1 DEF goto
        <5>3. loop'[s] = y
          BY <2>2, <3>3, <5>2
        <5>4. y.pc = q /\ y.fd = f
          BY <2>2, <2>9, <3>3, <5>1 DEF Loop
        <5> QED
          BY <5>3, <5>4
      <4> QED
        BY <4>1
    <3>5. CASE register(t)
      <4>1. loop'[s].pc = "replicate" /\ loop[s].pc = "register" /\ outbox' = outbox /\ proposed' = proposed
        BY <2>9, <3>4, <3>5 DEF register, at, stream_vars, log_vars
      <4>2. asks(c)' = {} /\ outbox'[s][f] = <<>>
        BY <3>1, <3>2, <4>1 DEF asks
      <4>3. Stage(c, s, f, "loop")'
        BY <3>1, <4>1, <4>2 DEF Stage
      <4> QED
        BY <2>7, <4>3 DEF Places
    <3>6. CASE replicate(t)
      <4>1. loop[s].pc = "replicate" /\ outbox' = outbox
        BY <2>9, <3>6 DEF replicate, at, stream_vars
      <4>2. outbox'[s][f] = <<>>
        BY <3>2, <4>1
      <4>3. CASE proposed' = proposed \cup {loop[t].line} /\ loop' = [loop EXCEPT ![t] = selecting]
        <5>1. asks(c)' = {loop[t].line}
          BY <2>6, <2>9, <3>1, <4>3 DEF asks
        <5>2. ~handles(s, f)'
          BY <2>9, <3>3, <4>3 DEF handles
        <5>3. Stage(c, s, f, "proposed")'
          BY <3>1, <4>2, <5>1, <5>2 DEF Stage
        <5> QED
          BY <2>7, <5>3 DEF Places
      <4>4. CASE goto(t, "reject") /\ UNCHANGED proposed
        <5>1. asks(c)' = {} /\ loop'[s].pc = "reject"
          BY <2>9, <3>1, <3>4, <4>4 DEF asks
        <5>2. Stage(c, s, f, "loop")'
          BY <3>1, <4>2, <5>1 DEF Stage
        <5> QED
          BY <2>7, <5>2 DEF Places
      <4> QED
        BY <3>6, <4>3, <4>4 DEF replicate
    <3>7. CASE reject_header(t)
      <4>1. loop[s].pc = "reject" /\ loop'[s].pc = "reject body" /\ loop'[s].fd = f
            /\ proposed' = proposed /\ outbox' = to_stream(s, f, header)
        BY <2>9, <3>4, <3>7 DEF reject_header, at, log_vars
      <4>2. Sends(s, f, header)
        BY <2>2, <4>1, ToStream DEF Types, Item
      <4>3. outbox'[s][f] = Append(<<>>, header)
        BY <1>1, <2>2, <2>9, <3>2, <4>1, <4>2 DEF Sends
      <4>4. outbox'[s][f] = <<header>>
        BY <4>3
      <4>5. asks(c)' = {} /\ handles(s, f)'
        BY <3>1, <4>1 DEF asks, handles
      <4>6. Stage(c, s, f, "loop")'
        BY <3>1, <4>1, <4>4, <4>5 DEF Stage
      <4> QED
        BY <2>7, <4>6 DEF Places
    <3>8. CASE reject_body(t)
      <4>1. loop[s].pc = "reject body" /\ loop' = [loop EXCEPT ![s] = selecting]
            /\ proposed' = proposed /\ outbox' = to_stream(s, f, NotLeader)
        BY <2>9, <3>8 DEF reject_body, at, log_vars
      <4>2. Sends(s, f, NotLeader)
        BY <2>2, <4>1, ToStream DEF Types, Item
      <4>a. peer[s][f] # nobody /\ outbox[s][f] = <<header>>
        BY <1>1, <2>2, <2>9, <3>2, <4>1
      <4>3. outbox'[s][f] = Append(<<header>>, NotLeader)
        BY <2>2, <4>2, <4>a DEF Sends
      <4>4. outbox'[s][f] = <<header, NotLeader>>
        BY <4>3, TwoItems
      <4>5. asks(c)' = {} /\ ~handles(s, f)'
        BY <2>2, <3>1, <3>3, <4>1 DEF asks, handles
      <4>6. Answered(c, s, f)'
        BY <4>4 DEF Answered
      <4>7. Stage(c, s, f, "outbox")'
        BY <3>1, <4>5, <4>6 DEF Stage
      <4> QED
        BY <2>7, <4>7 DEF Places
    <3> QED
      BY <3>5, <3>6, <3>7, <3>8
  <2> QED
    BY <2>8, <2>9
<1> QED
  BY <1>1, <1>2 DEF Fresh, FreshAt, at_work

LEMMA CallFresh ==
  ASSUME Types, Links, Fresh, NEW d \in Client, call(d), NEW c \in New
  PROVE  FreshAt(c)'
<1>1. PICK l \in Line : Calls(d, l)
  BY CallTypes
<1>2. /\ StoreSame /\ UNCHANGED <<proposed, loop, outbox, m_connected_clients>>
      /\ l.client = d /\ l.seqnum = session[d].request_id /\ session[d].state = "idle"
  BY <1>1, CallTypes DEF Calls
<1>3. UNCHANGED <<log, applied, proposed, loop, outbox, m_connected_clients>>
  BY <1>2 DEF StoreSame
<1>4. PICK t, g, v : t = session[d].server /\ g = session[d].fd /\ v = Append(inbox[t][g], l)
  OBVIOUS
<1>a. t \in Server /\ g \in Fd /\ inbox' = [inbox EXCEPT ![t][g] = v]
  BY <1>1, <1>4 DEF Calls
<1>b. inbox[t][g] \in Seq(Line)
  BY <1>a DEF Types, NetTypes
<1>c. v \in Seq(Line)
  BY <1>4, <1>b
<1>5. /\ t \in Server /\ g \in Fd /\ inbox[t][g] \in Seq(Line) /\ v \in Seq(Line)
      /\ inbox' = [inbox EXCEPT ![t][g] = v]
  BY <1>a, <1>b, <1>c, Zenon
<1>6. \A u \in Server, e \in Fd : inbox'[u][e] = IF u = t /\ e = g THEN v ELSE inbox[u][e]
  BY <1>5, Nested DEF Types, NetTypes
<1>7. /\ DOMAIN v = DOMAIN inbox[t][g] \cup {Len(inbox[t][g]) + 1}
      /\ v[Len(inbox[t][g]) + 1] = l /\ \A i \in DOMAIN inbox[t][g] : v[i] = inbox[t][g][i]
  <2>1. PICK o : o = inbox[t][g]
    OBVIOUS
  <2>2. o \in Seq(Line) /\ v = Append(o, l)
    BY <1>4, <1>5, <2>1
  <2>3. DOMAIN v = DOMAIN o \cup {Len(o) + 1} /\ v[Len(o) + 1] = l /\ \A i \in DOMAIN o : v[i] = o[i]
    BY <2>2
  <2> QED
    BY <2>1, <2>3
<1>8. /\ session'[d].state = "waiting" /\ session'[d].request_id = session[d].request_id + 1
      /\ session'[d].server = t /\ session'[d].fd = g
      /\ \A e \in Client \ {d} : session'[e] = session[e]
  BY <1>1, <1>4 DEF Calls
<1>9. peer[t][g] = d
  BY <1>1, <1>4 DEF Calls
<1>10. ASSUME session'[c].state = "away" PROVE Unknown(c)'
  <2>1. c # d /\ c \in Client
    BY <1>8, <1>10 DEF New
  <2>2. Unknown(c)
    BY <1>8, <1>10, <2>1 DEF Fresh, FreshAt
  <2>3. \A u \in Server, e \in Fd : \A i \in DOMAIN inbox'[u][e] : inbox'[u][e][i].client # c
    BY <1>2, <1>6, <1>7, <2>1, <2>2 DEF Unknown
  <2> QED
    BY <1>3, <2>2, <2>3 DEF Unknown
<1>11. ASSUME c = d PROVE WorksHere(c)'
  <2>1. at_work(c) /\ Own(c, t, g)
    BY <1>2, <1>4, <1>11 DEF at_work, Fresh, FreshAt, WorksHere, Works
  <2>2. PICK w \in Places : Stage(c, t, g, w)
    BY <1>4, <1>11, <2>1 DEF Fresh, FreshAt, WorksHere, Works
  <2>3. w = "none"
    BY <1>2, <1>11, <2>2 DEF Stage
  <2>a. Stage(c, t, g, "none")
    BY <2>2, <2>3
  <2>b. ~handles(t, g) /\ asks(c) = {} /\ ahead(c, t) = {} /\ Len(inbox[t][g]) = 0
    BY <2>a DEF Stage
  <2>c. outbox[t][g] = <<>>
    BY <2>a, <2>b DEF Stage
  <2>4. /\ Len(inbox[t][g]) = 0 /\ ~handles(t, g) /\ asks(c) = {} /\ ahead(c, t) = {}
        /\ outbox[t][g] = <<>>
    BY <2>b, <2>c
  <2>5. v[1] = l /\ DOMAIN v = {1} /\ Len(v) = 1
    <3>1. PICK o : o = inbox[t][g]
      OBVIOUS
    <3>2. o \in Seq(Line) /\ v = Append(o, l) /\ Len(o) = 0
      BY <1>4, <1>5, <2>4, <3>1
    <3>3. Len(v) = 1 /\ v[1] = l /\ DOMAIN v = 1 .. 1
      BY <3>2
    <3> QED
      BY <3>3
  <2>6. inbox'[t][g] = v /\ ~handles(t, g)' /\ asks(c)' = {} /\ ahead(c, t)' = {}
        /\ outbox'[t][g] = <<>>
    BY <1>3, <1>5, <1>6, <2>4 DEF handles, asks, ahead
  <2>7. Own(c, t, g)'
    <3>1. \A u \in Server, e \in Fd : \A i \in DOMAIN inbox'[u][e] :
             inbox'[u][e][i].client = c <=> u = t /\ e = g
      BY <1>2, <1>6, <1>11, <2>1, <2>5 DEF Own
    <3> QED
      BY <1>3, <2>1, <3>1 DEF Own
  <2>8. Asked(c, t, g)'
    BY <1>2, <1>8, <1>11, <2>5, <2>6 DEF Asked
  <2>9. Stage(c, t, g, "inbox")'
    BY <1>8, <1>11, <2>5, <2>6 DEF Stage
  <2> QED
    BY <1>8, <1>11, <2>7, <2>8, <2>9 DEF WorksHere, Works, Places
<1>12. ASSUME c # d, at_work(c)' PROVE WorksHere(c)'
  <2>0. session'[c] = session[c] /\ at_work(c) /\ c \in Client
    BY <1>8, <1>12 DEF at_work, New
  <2>1. PICK s, f : s = session[c].server /\ f = session[c].fd
    OBVIOUS
  <2>2. s \in Server /\ f \in Fd
    BY <2>0, <2>1, AtWork
  <2>3. ~(t = s /\ g = f)
    <3>1. d # nobody
      BY NobodyAssumption
    <3>2. up[s] => peer[s][f] = c
      BY <2>0, <2>1, AtWork
    <3>3. ~up[s] => peer[s][f] = nobody
      BY <2>2 DEF Links, Down
    <3> QED
      BY <1>9, <1>12, <3>1, <3>2, <3>3
  <2>4. Own(c, s, f) /\ Asked(c, s, f)
    BY <2>0, <2>1 DEF Fresh, FreshAt, WorksHere, Works
  <2>5. PICK w \in Places : Stage(c, s, f, w)
    BY <2>0, <2>1 DEF Fresh, FreshAt, WorksHere, Works
  <2>6. inbox'[s][f] = inbox[s][f] /\ outbox'[s][f] = outbox[s][f]
    BY <1>3, <1>6, <2>2, <2>3
  <2>7. Own(c, s, f)'
    <3>1. \A u \in Server, e \in Fd : \A i \in DOMAIN inbox'[u][e] :
             inbox'[u][e][i].client = c <=> u = s /\ e = f
      BY <1>2, <1>6, <1>7, <1>12, <2>3, <2>4 DEF Own
    <3> QED
      BY <1>3, <2>4, <3>1 DEF Own
  <2>8. /\ asks(c)' = asks(c) /\ ahead(c, s)' = ahead(c, s) /\ (handles(s, f)' <=> handles(s, f))
        /\ loop' = loop
    BY <1>3 DEF asks, ahead, handles
  <2>9. Asked(c, s, f)'
    BY <1>3, <2>0, <2>4, <2>6, <2>8 DEF Asked
  <2>10. Stage(c, s, f, w)'
    BY <2>0, <2>5, <2>6, <2>8, SameStage
  <2> QED
    BY <2>0, <2>1, <2>5, <2>7, <2>9, <2>10 DEF WorksHere, Works
<1> QED
  BY <1>10, <1>11, <1>12 DEF FreshAt

LEMMA TakeFresh ==
  ASSUME Types, Links, Fresh, NEW d \in Client, take_response(d), NEW c \in New
  PROVE  FreshAt(c)'
<1>1. /\ session'[d].state = "idle" /\ session'[d].server = session[d].server
      /\ session'[d].fd = session[d].fd /\ session'[d].request_id = session[d].request_id
      /\ \A e \in Client \ {d} : session'[e] = session[e]
      /\ session[d].state = "waiting"
  BY TakeTypes DEF take_response
<1>2. UNCHANGED <<log, applied, proposed, loop, inbox, m_connected_clients>>
  BY DEF take_response, log_vars, store_vars, fd_vars, loop_vars
<1>3. PICK t, g, v : t = session[d].server /\ g = session[d].fd /\ v = Tail(outbox[t][g])
  OBVIOUS
<1>4. /\ t \in Server /\ g \in Fd /\ outbox[t][g] # <<>> /\ Head(outbox[t][g]).kind = "response"
      /\ outbox' = [outbox EXCEPT ![t][g] = v]
  BY <1>3 DEF take_response, replies, Types, Present, at_work
<1>5. outbox[t][g] \in Seq(Item) /\ v \in Seq(Item)
  <2>1. outbox[t][g] \in Seq(Item)
    BY <1>4 DEF Types, NetTypes
  <2> QED
    BY <1>3, <1>4, <2>1
<1>6. \A u \in Server, e \in Fd : outbox'[u][e] = IF u = t /\ e = g THEN v ELSE outbox[u][e]
  BY <1>4, <1>5, Nested DEF Types, NetTypes
<1>7. Unknown(c) => Unknown(c)'
  BY <1>2 DEF Unknown
<1>8. ASSUME session'[c].state = "away" PROVE Unknown(c)'
  <2>1. session[c].state = "away"
    BY <1>1, <1>8 DEF New
  <2> QED
    BY <1>7, <2>1 DEF Fresh, FreshAt
<1>9. /\ asks(c)' = asks(c) /\ (\A s : ahead(c, s)' = ahead(c, s))
      /\ (\A s, f : handles(s, f)' <=> handles(s, f))
      /\ \A s, f : Own(c, s, f) => Own(c, s, f)'
  BY <1>2 DEF asks, ahead, handles, Own
<1>10. ASSUME at_work(c)' PROVE WorksHere(c)'
  <2>0. at_work(c) /\ c \in Client /\ session'[c].server = session[c].server
        /\ session'[c].fd = session[c].fd /\ session'[c].request_id = session[c].request_id
    BY <1>1, <1>10 DEF at_work, New
  <2>1. PICK s, f : s = session[c].server /\ f = session[c].fd
    OBVIOUS
  <2>2. s \in Server /\ f \in Fd
    BY <2>0, <2>1, AtWork
  <2>4. Own(c, s, f) /\ Asked(c, s, f)
    BY <2>0, <2>1 DEF Fresh, FreshAt, WorksHere, Works
  <2>5. PICK w \in Places : Stage(c, s, f, w)
    BY <2>0, <2>1 DEF Fresh, FreshAt, WorksHere, Works
  <2>6. Own(c, s, f)' /\ Asked(c, s, f)'
    BY <1>2, <1>9, <2>0, <2>4 DEF Asked
  <2>7. CASE c = d
    <3>1. t = s /\ g = f
      BY <1>3, <2>1, <2>7
    <3>2. header.kind # "response"
      BY DEF header
    <3>3. w = "outbox"
      <4>1. ASSUME w # "outbox" PROVE FALSE
        <5>1. outbox[s][f] = <<header>>
          BY <1>4, <2>5, <3>1, <4>1 DEF Stage
        <5>2. Head(<<header>>) = header
          OBVIOUS
        <5> QED
          BY <1>4, <3>1, <3>2, <5>1, <5>2
      <4> QED
        BY <4>1
    <3>4. PICK x : outbox[s][f] = <<x>>
      <4>1. Head(<<header, NotLeader>>) = header
        OBVIOUS
      <4> QED
        BY <1>4, <2>5, <3>1, <3>2, <3>3, <4>1 DEF Stage, Answered
    <3>5. v = <<>>
      BY <1>3, <3>1, <3>4
    <3>6. outbox'[s][f] = <<>>
      BY <1>6, <2>2, <3>1, <3>5
    <3>7. ~handles(s, f)' /\ asks(c)' = {} /\ ahead(c, s)' = {} /\ Len(inbox'[s][f]) = 0
      BY <1>2, <1>9, <2>5, <3>3 DEF Stage
    <3>8. Stage(c, s, f, "none")'
      BY <3>6, <3>7 DEF Stage
    <3> QED
      BY <2>0, <2>1, <2>6, <3>8 DEF WorksHere, Works, Places
  <2>8. CASE c # d
    <3>1. ~(t = s /\ g = f)
      <4>1. up[t]
        BY <1>4 DEF Links, Down
      <4>2. peer[t][g] = d
        BY <1>1, <1>3, <4>1 DEF Links, Open, at_work
      <4> QED
        BY <2>0, <2>1, <2>8, <4>1, <4>2, AtWork
    <3>2. outbox'[s][f] = outbox[s][f] /\ session'[c] = session[c]
      BY <1>1, <1>6, <2>0, <2>2, <2>8, <3>1
    <3>3. Stage(c, s, f, w)'
      BY <1>2, <1>9, <2>5, <3>2, SameStage
    <3> QED
      BY <2>0, <2>1, <2>5, <2>6, <3>3 DEF WorksHere, Works
  <2> QED
    BY <2>7, <2>8
<1> QED
  BY <1>8, <1>10 DEF FreshAt

LEMMA FailFresh ==
  ASSUME Types, Fresh, NEW d \in Client, fail(d), NEW c \in New
  PROVE  FreshAt(c)'
<1>1. /\ UNCHANGED <<log, proposed, applied, m_connected_clients, loop, inbox, outbox>>
      /\ session'[d].state = IF d \in Failover THEN "away" ELSE "done"
      /\ \A e \in Client \ {d} : session'[e] = session[e]
  BY FailTypes DEF fail, log_vars, store_vars, fd_vars, loop_vars, stream_vars
<1>2. CASE c = d
  BY <1>1, <1>2 DEF New, FreshAt, at_work
<1>3. CASE c # d
  <2>1. session'[c] = session[c]
    BY <1>1, <1>3 DEF New
  <2>2. Unknown(c) => Unknown(c)'
    BY <1>1 DEF Unknown
  <2>3. ASSUME NEW s, NEW f, Works(c, s, f) PROVE Works(c, s, f)'
    <3>1. /\ asks(c)' = asks(c) /\ ahead(c, s)' = ahead(c, s) /\ (handles(s, f)' <=> handles(s, f))
          /\ Own(c, s, f)'
      BY <1>1, <2>3 DEF asks, ahead, handles, Works, Own
    <3>2. Asked(c, s, f)'
      BY <1>1, <2>1, <2>3, <3>1 DEF Works, Asked
    <3>3. \A w : Stage(c, s, f, w) => Stage(c, s, f, w)'
      BY <1>1, <2>1, <3>1, SameStage
    <3> QED
      BY <2>3, <3>1, <3>2, <3>3 DEF Works
  <2> QED
    BY <2>1, <2>2, <2>3 DEF Fresh, FreshAt, WorksHere, at_work
<1> QED
  BY <1>2, <1>3

LEMMA HangUpFresh ==
  ASSUME Types, Links, Fresh, NEW t \in Server, NEW g \in Fd, hang_up(t, g), NEW c \in New
  PROVE  FreshAt(c)'
<1>1. /\ UNCHANGED <<log, proposed, applied, m_connected_clients, loop, inbox, session>>
      /\ outbox' = [outbox EXCEPT ![t][g] = <<>>]
      /\ peer[t][g] # nobody /\ connection(peer[t][g]) # <<t, g>>
  BY DEF hang_up, log_vars, store_vars, fd_vars, loop_vars
<1>2. <<>> \in Seq(Item)
  OBVIOUS
<1>3. \A u \in Server, e \in Fd : outbox'[u][e] = IF u = t /\ e = g THEN <<>> ELSE outbox[u][e]
  BY <1>1, <1>2, Nested DEF Types, NetTypes
<1>4. Unknown(c) => Unknown(c)'
  BY <1>1 DEF Unknown
<1>5. ASSUME at_work(c) PROVE WorksHere(c)'
  <2>1. PICK s, f : s = session[c].server /\ f = session[c].fd
    OBVIOUS
  <2>2. s \in Server /\ f \in Fd /\ (up[s] => peer[s][f] = c)
    BY <1>5, <2>1, AtWork
  <2>3. ~(t = s /\ g = f)
    <3>1. up[t]
      BY <1>1 DEF Links, Down
    <3> QED
      BY <1>1, <2>1, <2>2, <3>1 DEF connection
  <2>4. PICK w \in Places : Stage(c, s, f, w)
    BY <1>5, <2>1 DEF Fresh, FreshAt, WorksHere, Works
  <2>5. Own(c, s, f) /\ Asked(c, s, f)
    BY <1>5, <2>1 DEF Fresh, FreshAt, WorksHere, Works
  <2>6. outbox'[s][f] = outbox[s][f]
    BY <1>3, <2>2, <2>3
  <2>7. asks(c)' = asks(c) /\ ahead(c, s)' = ahead(c, s) /\ (handles(s, f)' <=> handles(s, f))
    BY <1>1 DEF asks, ahead, handles
  <2>8. Own(c, s, f)' /\ Asked(c, s, f)'
    BY <1>1, <2>5, <2>7 DEF Own, Asked
  <2>9. Stage(c, s, f, w)'
    BY <1>1, <2>4, <2>6, <2>7, SameStage
  <2> QED
    BY <1>1, <2>1, <2>4, <2>8, <2>9 DEF WorksHere, Works
<1> QED
  BY <1>1, <1>4, <1>5 DEF Fresh, FreshAt, at_work

LEMMA FreshStep == AnswersInv /\ Links /\ Fresh /\ [Next]_vars => Fresh'
<1> SUFFICES ASSUME AnswersInv, Links, Fresh, [Next]_vars, NEW c \in New PROVE FreshAt(c)'
  BY DEF Fresh
<1>0. Types
  BY DEF AnswersInv
<1>1. CASE UNCHANGED vars \/ Locks
  <2>1. UNCHANGED <<log, proposed, applied, m_connected_clients, loop, inbox, outbox, session>>
    BY <1>1 DEF vars, log_vars, store_vars, Locks, lock, fd_vars, loop_vars, stream_vars
  <2> QED
    BY <2>1, SameFresh
<1>2. CASE \E l \in proposed : commit(l)
  BY <1>2, CommitFresh
<1>3. CASE Answers
  BY <1>3, CallbackFresh DEF Answers
<1>4. CASE \E s \in Server : event_loop(s)
  BY <1>0, <1>4, AcceptFresh, DisconnectFresh, ReceiveFresh, HaltFresh, HandlerFresh DEF event_loop
<1>5. CASE \E d \in Client : call(d) \/ take_response(d) \/ fail(d)
  BY <1>0, <1>5, CallFresh, TakeFresh, FailFresh
<1>6. CASE \E s \in Server, f \in Fd : hang_up(s, f)
  BY <1>0, <1>6, HangUpFresh
<1> QED
  BY <1>1, <1>2, <1>3, <1>4, <1>5, <1>6, NextCases DEF Moves

\* Sessions, calls and threads agree in every state (CallsInv).
THEOREM CallsInvariance == Spec => []CallsInv
<1>1. Init => CallsInv
  BY InitAnswers, InitCalls DEF CallsInv
<1>2. CallsInv /\ [Next]_vars => CallsInv'
  BY AnswersStep, LinksStep, FreshStep DEF CallsInv
<1> QED
  BY <1>1, <1>2, PTL DEF Spec

\* What is in the streams of a new client at work.
LEMMA Streams ==
  ASSUME CallsInv, NEW c \in New, at_work(c)
  PROVE  \/ replies(c) = <<>>
         \/ replies(c) = <<header, NotLeader>>
         \/ /\ replies(c) = <<header>> /\ at(session[c].server, "reject body")
            /\ loop[session[c].server].fd = session[c].fd
         \/ /\ session[c].state = "waiting"
            /\ \E r \in Response : /\ replies(c) = <<frame(r)>> /\ r.client = c
                                   /\ r.seqnum + 1 = session[c].request_id
<1>1. PICK s, f : s = session[c].server /\ f = session[c].fd /\ replies(c) = outbox[s][f]
  BY DEF replies
<1>2. PICK w \in Places : Stage(c, s, f, w)
  BY <1>1 DEF CallsInv, Fresh, FreshAt, WorksHere, Works
<1>3. s \in Server /\ f \in Fd
  BY <1>1, AtWork DEF CallsInv, AnswersInv
<1>4. CASE w = "outbox"
  BY <1>1, <1>2, <1>4 DEF Stage, Answered
<1>5. CASE w # "outbox"
  <2>1. outbox[s][f] = IF handles(s, f) /\ loop[s].pc = "reject body" THEN <<header>> ELSE <<>>
    BY <1>2, <1>5 DEF Stage
  <2>2. ~up[s] => outbox[s][f] = <<>>
    BY <1>3 DEF CallsInv, Links, Down
  <2> QED
    BY <1>1, <2>1, <2>2 DEF handles, at
<1> QED
  BY <1>4, <1>5

-----------------------------------------------------------------------------
(***************************************************************************)
(* The same for every client, one that fails over too, which may have left *)
(* requests on connections it had before, accepted ones and answers to     *)
(* come.  A connection is one client's alone, and its lines are later than *)
(* all the client sent elsewhere and than all that was accepted of it:     *)
(* what is answered on it while a request is rejected is an earlier one.   *)
(***************************************************************************)
\* Lines that were accepted, and lines on a connection or with its event loop.
settled == proposed \cup {log[p] : p \in DOMAIN log}

on(s, f) ==
    {inbox[s][f][i] : i \in DOMAIN inbox[s][f]} \cup {l \in {loop[s].line} : handles(s, f)}

\* Of c, the lines among these are older than request n.
Older(c, lines, n) == \A l \in lines : l.client = c => l.seqnum < n

Below(c) ==
    /\ Older(c, settled, session[c].request_id)
    /\ \A s \in Server, f \in Fd : Older(c, on(s, f), session[c].request_id)

InOrder(s, f) ==
    /\ \A i, j \in DOMAIN inbox[s][f] : i < j => inbox[s][f][i].seqnum < inbox[s][f][j].seqnum
    /\ handles(s, f) => \A i \in DOMAIN inbox[s][f] : loop[s].line.seqnum < inbox[s][f][i].seqnum

\* The connection is that of c alone.
Ours(c, s, f) ==
    /\ \A l \in on(s, f) : l.client = c
    /\ \A d \in Client : m_connected_clients[s][d] = f => d = c

\* What is on the connection is later than all c sent elsewhere and all accepted of c.
Latest(c, s, f) ==
    \A l \in on(s, f) :
        /\ Older(c, settled, l.seqnum)
        /\ \A t \in Server, d \in Fd : ~(t = s /\ d = f) => Older(c, on(t, d), l.seqnum)

Apart(c) ==
    Ours(c, session[c].server, session[c].fd) /\ Latest(c, session[c].server, session[c].fd)

Ordered ==
    /\ \A s \in Server, f \in Fd : InOrder(s, f)
    /\ \A c \in Client : Below(c) /\ (at_work(c) => Apart(c))

\* Nothing is on the connection yet.
Unused(c) ==
    /\ on(session[c].server, session[c].fd) = {}
    /\ \A d \in Client : m_connected_clients[session[c].server][d] # session[c].fd

\* The same connection, or one that is new.
Connected(c) ==
    /\ session'[c].request_id = session[c].request_id
    /\ at_work(c)' =>
        \/ /\ at_work(c)
           /\ session'[c].server = session[c].server /\ session'[c].fd = session[c].fd
        \/ Unused(c)'

\* A line that is accepted was the first on its connection.
Taken(l) == \E t \in Server, d \in Fd : l \in on(t, d) /\ \A m \in on(t, d)' : l.seqnum < m.seqnum

Registered(s, c) ==
    \/ m_connected_clients'[s][c] \in {m_connected_clients[s][c], nobody}
    \/ \E l \in on(s, m_connected_clients'[s][c]) : l.client = c

\* No line is written.
LEMMA Fewer ==
  ASSUME Types, Ordered, \A s \in Server, f \in Fd : InOrder(s, f)',
         \A s \in Server, f \in Fd : on(s, f)' \subseteq on(s, f),
         \A l \in settled' : l \in settled \/ Taken(l),
         \A s \in Server, c \in Client : Registered(s, c),
         \A c \in Client : Connected(c)
  PROVE  Ordered'
<1>1. ASSUME NEW c \in Client, NEW n, Older(c, settled, n),
             \A s \in Server, f \in Fd : Older(c, on(s, f), n)
      PROVE  Older(c, settled', n)
  BY <1>1 DEF Older, Taken
<1>2. ASSUME NEW c \in Client PROVE Below(c)'
  <2>1. Below(c) /\ session'[c].request_id = session[c].request_id
    BY DEF Ordered, Connected
  <2>2. Older(c, settled', session[c].request_id)
    BY <1>1, <2>1 DEF Below
  <2>3. \A s \in Server, f \in Fd : Older(c, on(s, f)', session[c].request_id)
    BY <2>1 DEF Below, Older
  <2>4. Older(c, settled, session[c].request_id)'
    BY <2>1, <2>2 DEF Older
  <2>5. \A s \in Server, f \in Fd : Older(c, on(s, f), session[c].request_id)'
    BY <2>1, <2>3 DEF Older
  <2> QED
    BY <2>4, <2>5 DEF Below
<1>3. ASSUME NEW c \in Client, at_work(c)' PROVE Apart(c)'
  <2>1. PICK s, f : s = session'[c].server /\ f = session'[c].fd
    OBVIOUS
  <2>2. CASE Unused(c)'
    BY <2>2 DEF Unused, Apart, Ours, Latest
  <2>3. CASE at_work(c) /\ s = session[c].server /\ f = session[c].fd
    <3>0. s \in Server /\ f \in Fd /\ f # nobody
      BY <2>3, NobodyAssumption DEF Types, Present
    <3>1. Ours(c, s, f) /\ Latest(c, s, f) /\ on(s, f)' \subseteq on(s, f)
      BY <2>3, <3>0 DEF Ordered, Apart
    <3>2. Ours(c, s, f)'
      <4>1. ASSUME NEW d \in Client, m_connected_clients'[s][d] = f PROVE d = c
        BY <3>0, <3>1, <4>1 DEF Ours, Registered
      <4> QED
        BY <3>1, <4>1 DEF Ours
    <3>3. ASSUME NEW l \in on(s, f)'
          PROVE  /\ Older(c, settled', l.seqnum)
                 /\ \A t \in Server, d \in Fd : ~(t = s /\ d = f) => Older(c, on(t, d)', l.seqnum)
      <4>1. l \in on(s, f) /\ Older(c, settled, l.seqnum)
            /\ \A t \in Server, d \in Fd : ~(t = s /\ d = f) => Older(c, on(t, d), l.seqnum)
        BY <3>1, <3>3 DEF Latest
      <4>2. \A t \in Server, d \in Fd : ~(t = s /\ d = f) => Older(c, on(t, d)', l.seqnum)
        BY <4>1 DEF Older
      <4>3. ASSUME NEW m \in settled', m.client = c, m \notin settled PROVE m.seqnum < l.seqnum
        <5>1. PICK t \in Server, d \in Fd : m \in on(t, d) /\ \A k \in on(t, d)' : m.seqnum < k.seqnum
          BY <4>3 DEF Taken
        <5> QED
          BY <3>3, <4>1, <4>3, <5>1 DEF Older
      <4> QED
        BY <4>1, <4>2, <4>3 DEF Older
    <3>4. Latest(c, s, f)'
      BY <3>3 DEF Latest, Older
    <3> QED
      BY <2>1, <3>2, <3>4 DEF Apart
  <2> QED
    BY <1>3, <2>1, <2>2, <2>3 DEF Connected
<1> QED
  BY <1>2, <1>3 DEF Ordered

\* Lines stay where they are, or go.
LEMMA Stays ==
  ASSUME NEW s \in Server, NEW f \in Fd, InOrder(s, f),
         inbox'[s][f] = inbox[s][f] \/ inbox'[s][f] = <<>>,
         loop'[s].pc # "select" =>
            loop[s].pc # "select" /\ loop'[s].line = loop[s].line /\ loop'[s].fd = loop[s].fd
  PROVE  InOrder(s, f)' /\ on(s, f)' \subseteq on(s, f)
<1>1. handles(s, f)' => handles(s, f) /\ loop'[s].line = loop[s].line
  BY DEF handles
<1>2. on(s, f)' \subseteq on(s, f)
  BY <1>1 DEF on
<1>3. InOrder(s, f)'
  BY <1>1 DEF InOrder
<1> QED
  BY <1>2, <1>3

\* Neither lines nor descriptors nor connections come.
LEMMA NoneCome ==
  ASSUME Types, Ordered, settled' \subseteq settled,
         \A s \in Server, f \in Fd : inbox'[s][f] = inbox[s][f] \/ inbox'[s][f] = <<>>,
         \A s \in Server : loop'[s].pc # "select" =>
            loop[s].pc # "select" /\ loop'[s].line = loop[s].line /\ loop'[s].fd = loop[s].fd,
         \A s \in Server, c \in Client : Registered(s, c),
         \A c \in Client : Connected(c)
  PROVE  Ordered'
<1>1. \A s \in Server, f \in Fd : InOrder(s, f)' /\ on(s, f)' \subseteq on(s, f)
  BY Stays DEF Ordered
<1> QED
  BY <1>1, Fewer

LEMMA InitOrdered == Init => Ordered
<1> SUFFICES ASSUME Init PROVE Ordered
  OBVIOUS
<1>1. \A s \in Server, f \in Fd : inbox[s][f] = <<>> /\ ~handles(s, f)
  BY DEF Init, handles, selecting
<1>2. \A s \in Server, f \in Fd : on(s, f) = {} /\ InOrder(s, f)
  BY <1>1 DEF on, InOrder
<1>3. settled = {} /\ \A c \in Client : ~at_work(c)
  BY DEF Init, settled, at_work
<1> QED
  BY <1>2, <1>3 DEF Ordered, Below, Older

\* The layer below, and steps that neither read nor write lines nor connect.
LEMMA QuietOrdered ==
  ASSUME Types, Ordered,
         settled' \subseteq settled, UNCHANGED <<m_connected_clients, loop>>,
         \A s \in Server, f \in Fd : inbox'[s][f] = inbox[s][f] \/ inbox'[s][f] = <<>>,
         \A c \in Client :
            /\ session'[c].request_id = session[c].request_id
            /\ at_work(c)' => /\ at_work(c) /\ session'[c].server = session[c].server
                              /\ session'[c].fd = session[c].fd
  PROVE  Ordered'
<1>1. \A s \in Server, c \in Client : Registered(s, c)
  BY DEF Registered
<1>2. \A c \in Client : Connected(c)
  BY DEF Connected
<1>3. \A s \in Server : loop'[s] = loop[s]
  OBVIOUS
<1> QED
  BY <1>1, <1>2, <1>3, NoneCome

LEMMA CommitOrdered ==
  ASSUME Types, Ordered, NEW l \in proposed, commit(l)
  PROVE  Ordered'
<1>1. /\ log' = Append(log, l) /\ proposed' = proposed \ {l} /\ log \in Seq(Line) /\ l \in Line
      /\ UNCHANGED <<m_connected_clients, loop, inbox, session>>
  BY DEF commit, fd_vars, loop_vars, stream_vars, Types, StoreTypes
<1>2. /\ DOMAIN log' = DOMAIN log \cup {Len(log) + 1} /\ log'[Len(log) + 1] = l
      /\ \A p \in DOMAIN log : log'[p] = log[p]
  BY <1>1
<1>3. settled' \subseteq settled
  BY <1>1, <1>2 DEF settled
<1> QED
  BY <1>1, <1>3, QuietOrdered DEF at_work

LEMMA CallbackOrdered ==
  ASSUME Types, Ordered, NEW t \in Server, committed_callback(t)
  PROVE  Ordered'
<1>1. UNCHANGED <<log, proposed, m_connected_clients, loop, inbox, session>>
  BY DEF committed_callback, log_vars, fd_vars, loop_vars
<1> QED
  BY <1>1, QuietOrdered DEF settled, at_work

LEMMA AcceptOrdered ==
  ASSUME Types, Links, Ordered, NEW t \in Server, NEW d \in Client, accept(t, d)
  PROVE  Ordered'
<1>1. PICK g \in Fd \ m_all_fds[t] : Accepts(t, d, g)
  BY AcceptAccepts
<1>2. UNCHANGED <<log, proposed, m_connected_clients, loop>>
      /\ \A u \in Server, e \in Fd :
            inbox'[u][e] = inbox[u][e] \/ inbox'[u][e] = <<>>
  BY <1>1 DEF Accepts
<1>3. settled' \subseteq settled
  BY <1>2 DEF settled
<1>4. ASSUME NEW c \in Client PROVE Connected(c)
  <2>1. CASE c # d
    BY <1>1, <2>1 DEF Accepts, Connected, at_work
  <2>2. CASE c = d
    <3>1. /\ inbox'[t][g] = <<>> /\ session'[c].server = t /\ session'[c].fd = g
          /\ session'[c].request_id = session[c].request_id
      BY <1>1, <2>2 DEF Accepts
    <3>2. \A e \in Client : m_connected_clients'[t][e] # g
      BY <1>2, NobodyAssumption DEF Links, Fds
    <3>3. ~handles(t, g)'
      BY <1>2 DEF Links, Fds, handles
    <3>4. on(t, g)' = {}
      BY <3>1, <3>3 DEF on
    <3>5. Unused(c)'
      BY <3>1, <3>2, <3>4 DEF Unused
    <3> QED
      BY <3>1, <3>5 DEF Connected
  <2> QED
    BY <2>1, <2>2
<1>5. \A s \in Server, c \in Client : Registered(s, c)
  BY <1>2 DEF Registered
<1> QED
  BY <1>2, <1>3, <1>4, <1>5, NoneCome

LEMMA DisconnectOrdered ==
  ASSUME Types, Ordered, NEW t \in Server, NEW g \in Fd, disconnect(t, g)
  PROVE  Ordered'
<1>1. /\ m_connected_clients' = [m_connected_clients EXCEPT
             ![t] = [e \in Client |-> IF @[e] = g THEN nobody ELSE @[e]]]
      /\ UNCHANGED <<log, proposed, loop, inbox, session>>
  BY DEF disconnect, log_vars, loop_vars, stream_vars
<1>2. \A u \in Server, e \in Client :
         m_connected_clients'[u][e] \in {m_connected_clients[u][e], nobody}
  BY <1>1 DEF Types, NetTypes
<1>3. (\A s \in Server, c \in Client : Registered(s, c)) /\ \A c \in Client : Connected(c)
  BY <1>1, <1>2 DEF Registered, Connected, at_work
<1>4. settled' \subseteq settled
  BY <1>1 DEF settled
<1>5. /\ \A s \in Server : loop'[s] = loop[s]
      /\ \A s \in Server, f \in Fd : inbox'[s][f] = inbox[s][f]
  BY <1>1
<1> QED
  BY <1>3, <1>4, <1>5, NoneCome

LEMMA ReceiveOrdered ==
  ASSUME Types, Ordered, NEW t \in Server, NEW g \in Fd, receive(t, g)
  PROVE  Ordered'
<1>1. PICK l, rest : l = Head(inbox[t][g]) /\ rest = Tail(inbox[t][g])
  OBVIOUS
<1>2. /\ loop' = [loop EXCEPT ![t] = [pc |-> "register", fd |-> g, line |-> l]]
      /\ inbox' = [inbox EXCEPT ![t][g] = rest] /\ inbox[t][g] # <<>> /\ loop[t].pc = "select"
      /\ UNCHANGED <<log, proposed, m_connected_clients, session>>
  BY <1>1 DEF receive, log_vars, fd_vars, at
<1>3. inbox[t][g] \in Seq(Line) /\ rest \in Seq(Line)
  <2>1. inbox[t][g] \in Seq(Line)
    BY DEF Types, NetTypes
  <2> QED
    BY <1>1, <1>2, <2>1
<1>4. /\ 1 \in DOMAIN inbox[t][g] /\ inbox[t][g][1] = l
      /\ \A i \in DOMAIN rest : i + 1 \in DOMAIN inbox[t][g] /\ rest[i] = inbox[t][g][i + 1]
      /\ \A i \in DOMAIN rest : i \in Nat /\ 1 < i + 1
  BY <1>1, <1>2, <1>3
<1>5. \A u \in Server, e \in Fd : inbox'[u][e] = IF u = t /\ e = g THEN rest ELSE inbox[u][e]
  BY <1>2, <1>3, Nested DEF Types, NetTypes
<1>6. /\ \A u \in Server : u # t => loop'[u] = loop[u]
      /\ loop'[t].pc = "register" /\ loop'[t].fd = g /\ loop'[t].line = l
  BY <1>2 DEF Types, NetTypes
<1>7. ASSUME NEW u \in Server, NEW e \in Fd
      PROVE  InOrder(u, e)' /\ on(u, e)' \subseteq on(u, e)
  <2>0. InOrder(u, e)
    BY DEF Ordered
  <2>1. CASE u = t /\ e = g
    <3>1. /\ \A i, j \in DOMAIN rest : i < j => rest[i].seqnum < rest[j].seqnum
          /\ \A i \in DOMAIN rest : l.seqnum < rest[i].seqnum
      <4>1. \A i, j \in DOMAIN inbox[t][g] : i < j => inbox[t][g][i].seqnum < inbox[t][g][j].seqnum
        BY <2>0, <2>1 DEF InOrder
      <4>2. ASSUME NEW i \in DOMAIN rest, NEW j \in DOMAIN rest, i < j
            PROVE  rest[i].seqnum < rest[j].seqnum
        <5>1. i + 1 < j + 1
          BY <1>4, <4>2
        <5> QED
          BY <1>4, <4>1, <5>1
      <4>3. ASSUME NEW i \in DOMAIN rest PROVE l.seqnum < rest[i].seqnum
        BY <1>4, <4>1
      <4> QED
        BY <4>2, <4>3
    <3>2. InOrder(u, e)'
      BY <1>5, <1>6, <2>1, <3>1 DEF InOrder
    <3>3. on(u, e)' \subseteq on(u, e)
      <4>1. ASSUME NEW m \in on(u, e)' PROVE m = l \/ \E i \in DOMAIN rest : m = rest[i]
        BY <1>5, <1>6, <2>1 DEF on
      <4> QED
        BY <1>4, <2>1, <4>1 DEF on
    <3> QED
      BY <3>2, <3>3
  <2>2. CASE ~(u = t /\ e = g)
    <3>1. inbox'[u][e] = inbox[u][e] /\ ~(u = t /\ handles(u, e)')
      BY <1>5, <1>6, <2>2 DEF handles
    <3>2. handles(u, e)' => handles(u, e) /\ loop'[u] = loop[u]
      BY <1>6, <3>1 DEF handles
    <3> QED
      BY <2>0, <3>1, <3>2 DEF InOrder, on
  <2> QED
    BY <2>1, <2>2
<1>8. (\A s \in Server, c \in Client : Registered(s, c)) /\ \A c \in Client : Connected(c)
  BY <1>2 DEF Registered, Connected, at_work
<1>9. settled' \subseteq settled
  BY <1>2 DEF settled
<1> QED
  BY <1>7, <1>8, <1>9, Fewer

LEMMA HaltOrdered ==
  ASSUME Types, Ordered, NEW t \in Server, NEW g \in Fd, body_did_not_come_at_once(t, g)
  PROVE  Ordered'
<1>1. /\ inbox' = [inbox EXCEPT ![t] = [e \in Fd |-> <<>>]]
      /\ UNCHANGED <<log, proposed, m_connected_clients, loop, session>>
  BY DEF body_did_not_come_at_once, halt, fd_vars, loop_vars, log_vars
<1>2. \A u \in Server, e \in Fd : inbox'[u][e] = IF u = t THEN <<>> ELSE inbox[u][e]
  BY <1>1 DEF Types, NetTypes
<1> QED
  BY <1>1, <1>2, QuietOrdered DEF settled, at_work

\* The line is accepted if the loop goes back to select in replicate.
LEMMA HandlerOrdered ==
  ASSUME Types, Ordered, NEW t \in Server,
         register(t) \/ replicate(t) \/ reject_header(t) \/ reject_body(t)
  PROVE  Ordered'
<1>1. /\ UNCHANGED <<log, inbox, session>> /\ loop[t].pc # "select"
      /\ \/ UNCHANGED proposed
         \/ proposed' = proposed \cup {loop[t].line} /\ loop' = [loop EXCEPT ![t] = selecting]
  BY DEF register, replicate, reject_header, reject_body, at, log_vars, fd_vars, stream_vars
<1>2. \A u \in Server : loop'[u].pc # "select" =>
            loop[u].pc # "select" /\ loop'[u].line = loop[u].line /\ loop'[u].fd = loop[u].fd
  BY HandlerTypes
<1>3. loop[t].line \in Line /\ loop[t].fd \in Fd
  BY <1>1 DEF Types, Present
<1>4. \A s \in Server, f \in Fd : InOrder(s, f)' /\ on(s, f)' \subseteq on(s, f)
  BY <1>1, <1>2, Stays DEF Ordered
<1>5. loop[t].line \in on(t, loop[t].fd)
  BY <1>1 DEF on, handles
<1>6. ASSUME NEW s \in Server, NEW c \in Client PROVE Registered(s, c)
  <2>1. CASE UNCHANGED m_connected_clients
    BY <2>1 DEF Registered
  <2>2. CASE register(t)
    <3>1. loop[t].line.client \in Client
      BY <1>3 DEF Line
    <3>2. m_connected_clients' =
            [m_connected_clients EXCEPT ![t][loop[t].line.client] = loop[t].fd]
      BY <2>2 DEF register
    <3>3. m_connected_clients'[s][c] = IF s = t /\ c = loop[t].line.client THEN loop[t].fd
                                       ELSE m_connected_clients[s][c]
      BY <1>3, <3>1, <3>2, Nested DEF Types, NetTypes
    <3> QED
      BY <1>5, <3>3 DEF Registered
  <2> QED
    BY <2>1, <2>2 DEF replicate, reject_header, reject_body, fd_vars
<1>7. \A c \in Client : Connected(c)
  BY <1>1 DEF Connected, at_work
<1>8. ASSUME NEW l \in settled', l \notin settled PROVE Taken(l)
  <2>1. l = loop[t].line /\ loop' = [loop EXCEPT ![t] = selecting]
    BY <1>1, <1>8 DEF settled
  <2>2. loop'[t].pc = "select"
    BY <2>1 DEF Types, NetTypes, selecting
  <2>3. PICK f \in Fd : f = loop[t].fd
    BY <1>3
  <2>4. handles(t, f) /\ InOrder(t, f) /\ ~handles(t, f)'
    BY <1>1, <2>2, <2>3 DEF handles, Ordered
  <2>5. \A m \in on(t, f)' : l.seqnum < m.seqnum
    BY <1>1, <2>1, <2>4 DEF on, InOrder
  <2> QED
    BY <1>5, <2>1, <2>3, <2>5 DEF Taken
<1> QED
  BY <1>4, <1>6, <1>7, <1>8, Fewer

LEMMA CallOrdered ==
  ASSUME Types, Links, Ordered, NEW d \in Client, call(d)
  PROVE  Ordered'
<1>1. PICK l \in Line : Calls(d, l)
  BY CallTypes
<1>2. UNCHANGED <<log, proposed, loop, m_connected_clients>>
      /\ l.client = d /\ l.seqnum = session[d].request_id /\ session[d].state = "idle"
  BY <1>1, CallTypes DEF Calls, StoreSame
<1>3. PICK t, g, o, v : t = session[d].server /\ g = session[d].fd /\ o = inbox[t][g]
                        /\ v = Append(o, l)
  OBVIOUS
<1>4. /\ t \in Server /\ g \in Fd /\ peer[t][g] = d
      /\ inbox' = [inbox EXCEPT ![t][g] = v]
  BY <1>1, <1>3 DEF Calls
<1>5. o \in Seq(Line) /\ v \in Seq(Line)
  <2>1. o \in Seq(Line)
    BY <1>3, <1>4 DEF Types, NetTypes
  <2> QED
    BY <1>3, <2>1
<1>6. \A u \in Server, e \in Fd : inbox'[u][e] = IF u = t /\ e = g THEN v ELSE inbox[u][e]
  BY <1>4, <1>5, Nested DEF Types, NetTypes
<1>7. /\ DOMAIN v = DOMAIN o \cup {Len(o) + 1} /\ DOMAIN o = 1 .. Len(o) /\ Len(o) \in Nat
      /\ v[Len(o) + 1] = l /\ \A i \in DOMAIN o : v[i] = o[i]
  <2>1. v = Append(o, l)
    BY <1>3
  <2> QED
    BY <1>5, <2>1
<1>8. /\ session'[d].state = "waiting" /\ session'[d].request_id = session[d].request_id + 1
      /\ session'[d].server = t /\ session'[d].fd = g /\ session[d].request_id \in Nat
      /\ \A e \in Client \ {d} : session'[e] = session[e]
  BY <1>1, <1>3 DEF Calls, Types, NetTypes, Session
<1>9. \A u \in Server, e \in Fd : handles(u, e)' <=> handles(u, e)
  BY <1>2 DEF handles
<1>10. \A u \in Server, e \in Fd :
          /\ ~(u = t /\ e = g) => on(u, e)' = on(u, e)
          /\ u = t /\ e = g => on(u, e)' \subseteq on(u, e) \cup {l}
  <2>1. ASSUME NEW u \in Server, NEW e \in Fd, ~(u = t /\ e = g) PROVE on(u, e)' = on(u, e)
    BY <1>2, <1>6, <1>9, <2>1 DEF on
  <2>2. on(t, g)' \subseteq on(t, g) \cup {l}
    <3>1. inbox'[t][g] = v /\ loop'[t] = loop[t] /\ (handles(t, g)' <=> handles(t, g))
      BY <1>2, <1>4, <1>6, <1>9
    <3>2. \A i \in DOMAIN v : v[i] = l \/ \E j \in DOMAIN o : v[i] = o[j]
      BY <1>7
    <3>3. ASSUME NEW m \in on(t, g)', m # l PROVE m \in on(t, g)
      <4>1. CASE m = loop[t].line /\ handles(t, g)
        BY <4>1 DEF on
      <4>2. CASE \E i \in DOMAIN v : m = v[i]
        <5>1. PICK j \in DOMAIN o : m = o[j]
          BY <3>2, <3>3, <4>2
        <5>2. j \in DOMAIN inbox[t][g] /\ m = inbox[t][g][j]
          BY <1>3, <5>1
        <5> QED
          BY <5>2 DEF on
      <4> QED
        BY <3>1, <3>3, <4>1, <4>2 DEF on
    <3> QED
      BY <3>3
  <2> QED
    BY <2>1, <2>2
<1>11. settled' = settled
  BY <1>2 DEF settled
<1>12. Below(d) /\ Ours(d, t, g) /\ Latest(d, t, g)
  BY <1>2, <1>3 DEF Ordered, Apart, at_work
<1>13. \A m \in on(t, g) : m.client = d /\ m.seqnum < l.seqnum
  BY <1>2, <1>4, <1>12 DEF Ours, Below, Older
<1>14. ASSUME NEW u \in Server, NEW e \in Fd PROVE InOrder(u, e)'
  <2>1. InOrder(u, e)
    BY DEF Ordered
  <2>2. CASE ~(u = t /\ e = g)
    BY <1>2, <1>6, <1>9, <2>1, <2>2 DEF InOrder
  <2>3. CASE u = t /\ e = g
    <3>1. \A i \in DOMAIN o : o[i].seqnum < l.seqnum
      BY <1>3, <1>4, <1>13 DEF on
    <3>2. \A i, j \in DOMAIN o : i < j => o[i].seqnum < o[j].seqnum
      <4>1. \A i, j \in DOMAIN inbox[u][e] : i < j => inbox[u][e][i].seqnum < inbox[u][e][j].seqnum
        BY <2>1, Zenon DEF InOrder
      <4>2. o = inbox[u][e]
        BY <1>3, <2>3, Zenon
      <4> QED
        BY <4>1, <4>2, Zenon
    <3>3. ASSUME NEW i \in DOMAIN v, NEW j \in DOMAIN v, i < j PROVE v[i].seqnum < v[j].seqnum
      <4>1. i \in DOMAIN o
        BY <1>7, <3>3
      <4> QED
        BY <1>7, <3>1, <3>2, <3>3, <4>1
    <3>4. ASSUME handles(t, g), NEW i \in DOMAIN v PROVE loop[t].line.seqnum < v[i].seqnum
      <4>1. loop[t].line.seqnum < l.seqnum
        BY <1>13, <3>4 DEF on
      <4>2. \A j \in DOMAIN o : loop[t].line.seqnum < o[j].seqnum
        BY <1>3, <2>1, <2>3, <3>4 DEF InOrder
      <4> QED
        BY <1>7, <3>4, <4>1, <4>2
    <3> QED
      BY <1>2, <1>6, <1>9, <2>3, <3>3, <3>4 DEF InOrder
  <2> QED
    BY <2>2, <2>3
<1>15. ASSUME NEW c \in Client PROVE Below(c)'
  <2>0. Below(c) /\ settled \subseteq Line
        /\ \A u \in Server, e \in Fd : on(u, e) \subseteq Line
    BY DEF Ordered, Types, StoreTypes, NetTypes, Present, settled, on, handles
  <2>1. CASE c # d
    <3>1. session'[c] = session[c]
      BY <1>8, <2>1
    <3>2. Older(c, settled, session[c].request_id)'
      BY <1>11, <2>0, <3>1 DEF Below, Older
    <3>3. ASSUME NEW u \in Server, NEW e \in Fd PROVE Older(c, on(u, e), session[c].request_id)'
      BY <1>2, <1>10, <2>0, <2>1, <3>1 DEF Below, Older
    <3> QED
      BY <3>2, <3>3 DEF Below
  <2>2. CASE c = d
    <3>0. \A m \in Line : m.seqnum \in Nat
      BY DEF Line
    <3>1. \A m \in Line : m.seqnum < session[d].request_id => m.seqnum < session'[d].request_id
      BY <1>8, <3>0
    <3>2. Older(c, settled, session[c].request_id)'
      BY <1>11, <2>0, <2>2, <3>1 DEF Below, Older
    <3>3. l.seqnum < session'[d].request_id
      BY <1>2, <1>8
    <3>4. ASSUME NEW u \in Server, NEW e \in Fd PROVE Older(c, on(u, e), session[c].request_id)'
      <4>1. \A m \in on(u, e)' : m = l \/ m \in on(u, e)
        BY <1>10
      <4> QED
        BY <2>0, <2>2, <3>1, <3>3, <4>1 DEF Below, Older
    <3> QED
      BY <3>2, <3>4 DEF Below
  <2> QED
    BY <2>1, <2>2
<1>16. ASSUME NEW c \in Client, at_work(c)' PROVE Apart(c)'
  <2>1. CASE c = d
    <3>1. Ours(d, t, g)'
      BY <1>2, <1>4, <1>10, <1>12 DEF Ours
    <3>2. ASSUME NEW m \in on(t, g)'
          PROVE  /\ Older(d, settled, m.seqnum)
                 /\ \A u \in Server, e \in Fd : ~(u = t /\ e = g) => Older(d, on(u, e), m.seqnum)
      <4>1. m = l \/ m \in on(t, g)
        BY <1>4, <1>10, <3>2
      <4> QED
        BY <1>2, <1>12, <4>1 DEF Latest, Below
    <3>3. Latest(d, t, g)'
      BY <1>10, <1>11, <3>2 DEF Latest, Older
    <3> QED
      BY <1>8, <2>1, <3>1, <3>3 DEF Apart
  <2>2. CASE c # d
    <3>0. session'[c] = session[c] /\ at_work(c)
      BY <1>8, <1>16, <2>2 DEF at_work
    <3>1. PICK s, f : s = session[c].server /\ f = session[c].fd
      OBVIOUS
    <3>2. /\ s \in Server /\ f \in Fd /\ Ours(c, s, f) /\ Latest(c, s, f)
          /\ up[s] => peer[s][f] = c
      BY <3>0, <3>1 DEF Types, Present, Ordered, Apart, Links, Open
    <3>3. ~(s = t /\ f = g)
      <4>1. ~up[s] => peer[s][f] = nobody
        BY <3>2 DEF Links, Down
      <4> QED
        BY <1>4, <2>2, <3>2, <4>1, NobodyAssumption
    <3>4. on(s, f)' = on(s, f)
      BY <1>10, <3>2, <3>3
    <3>5. Ours(c, s, f)'
      BY <1>2, <3>2, <3>4 DEF Ours
    <3>6. ASSUME NEW u \in Server, NEW e \in Fd, NEW n, Older(c, on(u, e), n)
          PROVE  Older(c, on(u, e)', n)
      BY <1>2, <1>10, <2>2, <3>6 DEF Older
    <3>7. ASSUME NEW m \in on(s, f)'
          PROVE  /\ Older(c, settled', m.seqnum)
                 /\ \A u \in Server, e \in Fd : ~(u = s /\ e = f) => Older(c, on(u, e)', m.seqnum)
      BY <1>11, <3>2, <3>4, <3>6, <3>7 DEF Latest
    <3>8. Latest(c, s, f)'
      BY <3>7 DEF Latest, Older
    <3> QED
      BY <3>0, <3>1, <3>5, <3>8 DEF Apart
  <2> QED
    BY <2>1, <2>2
<1> QED
  BY <1>14, <1>15, <1>16 DEF Ordered

LEMMA LeaveOrdered ==
  ASSUME Types, Ordered, NEW d \in Client, take_response(d) \/ fail(d)
  PROVE  Ordered'
<1>1. UNCHANGED <<log, proposed, loop, inbox, m_connected_clients>>
  BY DEF take_response, fail, log_vars, fd_vars, loop_vars, stream_vars
<1>2. ASSUME NEW c \in Client
      PROVE  /\ session'[c].request_id = session[c].request_id
             /\ at_work(c)' => /\ at_work(c) /\ session'[c].server = session[c].server
                               /\ session'[c].fd = session[c].fd
  <2>1. CASE take_response(d)
    BY <2>1, TakeTypes DEF take_response, at_work
  <2>2. CASE fail(d)
    <3>1. /\ session'[d].state = IF d \in Failover THEN "away" ELSE "done"
          /\ \A e \in Client \ {d} : session'[e] = session[e]
      BY <2>2, FailTypes
    <3>2. session'[d].request_id = session[d].request_id
      BY <2>2 DEF fail, Types, NetTypes, Session
    <3> QED
      BY <3>1, <3>2 DEF at_work
  <2> QED
    BY <2>1, <2>2
<1>3. settled' = settled
  BY <1>1 DEF settled
<1> QED
  BY <1>1, <1>2, <1>3, QuietOrdered

LEMMA OrderedStep == AnswersInv /\ Links /\ Ordered /\ [Next]_vars => Ordered'
<1> SUFFICES ASSUME AnswersInv, Links, Ordered, [Next]_vars PROVE Ordered'
  OBVIOUS
<1>0. Types
  BY DEF AnswersInv
<1>1. CASE UNCHANGED vars \/ Locks \/ \E s \in Server, f \in Fd : hang_up(s, f)
  <2>1. UNCHANGED <<log, proposed, m_connected_clients, loop, inbox, session>>
    BY <1>1 DEF vars, log_vars, Locks, lock, hang_up, fd_vars, loop_vars, stream_vars
  <2> QED
    BY <1>0, <2>1, QuietOrdered DEF settled, at_work
<1>2. CASE \E l \in proposed : commit(l)
  BY <1>0, <1>2, CommitOrdered
<1>3. CASE Answers
  BY <1>0, <1>3, CallbackOrdered DEF Answers
<1>4. CASE \E s \in Server : event_loop(s)
  BY <1>0, <1>4, AcceptOrdered, DisconnectOrdered, ReceiveOrdered, HaltOrdered, HandlerOrdered
     DEF event_loop
<1>5. CASE \E d \in Client : call(d) \/ take_response(d) \/ fail(d)
  BY <1>0, <1>5, CallOrdered, LeaveOrdered
<1> QED
  BY <1>1, <1>2, <1>3, <1>4, <1>5, NextCases DEF Moves
-----------------------------------------------------------------------------
(***************************************************************************)
(* The streams to the clients.                                             *)
(***************************************************************************)
\* Nothing is in a stream in which a NotLeader is still split but its length, and
\* responses to c older than request n.  The text may be missing while it is sent.
Whole(c, o, sending, n) ==
    \A i \in DOMAIN o :
        /\ o[i].kind = "response" => o[i].of.client = c
        /\ o[i] = header =>
              /\ sending \/ \E j \in i + 1 .. Len(o) : o[j] = NotLeader
              /\ \A j \in before_text(o, i) : o[j].kind = "response" /\ o[j].of.seqnum + 1 < n

LEMMA Kinds ==
  /\ header.kind = "header" /\ NotLeader.kind = "NotLeader" /\ header # NotLeader
  /\ \A r : frame(r).kind = "response" /\ frame(r).of = r /\ frame(r) # header
            /\ frame(r) # NotLeader
<1>1. header.kind = "header" /\ NotLeader.kind = "NotLeader"
      /\ \A r : frame(r).kind = "response" /\ frame(r).of = r
  BY DEF header, NotLeader, frame
<1> QED
  BY <1>1

\* No time passes in the stream.
LEMMA WholeStays ==
  ASSUME NEW c, NEW o, NEW b, NEW n \in Nat, Whole(c, o, b, n), NEW d, NEW m \in Nat, b => d, n <= m,
         o \in Seq(Item)
  PROVE  Whole(c, o, d, m)
<1> SUFFICES ASSUME NEW i \in DOMAIN o
             PROVE  /\ o[i].kind = "response" => o[i].of.client = c
                    /\ o[i] = header =>
                          /\ d \/ \E j \in i + 1 .. Len(o) : o[j] = NotLeader
                          /\ \A j \in before_text(o, i) :
                                o[j].kind = "response" /\ o[j].of.seqnum + 1 < m
  BY DEF Whole
<1>1. ASSUME o[i] = header, NEW j \in before_text(o, i)
      PROVE  o[j].kind = "response" /\ o[j].of.seqnum + 1 < m
  <2>1. o[j].kind = "response" /\ o[j].of.seqnum + 1 < n
    BY <1>1 DEF Whole
  <2>2. o[j] \in Item
    BY DEF before_text
  <2>3. o[j].of \in Response
    BY <2>1, <2>2, Kinds DEF Item
  <2>4. o[j].of.seqnum \in Nat
    BY <2>3 DEF Response
  <2> QED
    BY <2>1, <2>4
<1> QED
  BY <1>1 DEF Whole

\* What Append does.
LEMMA AppendShape ==
  ASSUME NEW o \in Seq(Item), NEW x \in Item, NEW u, u = Append(o, x)
  PROVE  /\ u \in Seq(Item) /\ Len(u) = Len(o) + 1 /\ Len(o) \in Nat /\ DOMAIN o = 1 .. Len(o)
         /\ DOMAIN u = DOMAIN o \cup {Len(o) + 1} /\ u[Len(o) + 1] = x
         /\ \A i \in DOMAIN o : u[i] = o[i]
  OBVIOUS

\* What it does to what follows a header.
LEMMA AppendText ==
  ASSUME NEW o \in Seq(Item), NEW x \in Item, NEW u, u = Append(o, x), NEW i \in DOMAIN o
  PROVE  /\ before_text(u, i) \subseteq before_text(o, i) \cup {Len(o) + 1}
         /\ (\E j \in i + 1 .. Len(o) : o[j] = NotLeader) =>
               /\ \E j \in i + 1 .. Len(u) : u[j] = NotLeader
               /\ before_text(u, i) \subseteq before_text(o, i)
<1>1. /\ Len(u) = Len(o) + 1 /\ Len(o) \in Nat /\ DOMAIN o = 1 .. Len(o)
      /\ u[Len(o) + 1] = x /\ \A k \in DOMAIN o : u[k] = o[k]
  BY AppendShape
<1>2. before_text(u, i) \subseteq before_text(o, i) \cup {Len(o) + 1}
  BY <1>1 DEF before_text
<1>3. ASSUME NEW j \in i + 1 .. Len(u), u[j] = NotLeader
      PROVE  before_text(u, i) \subseteq before_text(o, i)
  <2>1. j \in i + 1 .. Len(o) + 1
    BY <1>1, <1>3
  <2>2. Len(o) + 1 \notin before_text(u, i)
    BY <1>3, <2>1 DEF before_text
  <2> QED
    BY <1>2, <2>2
<1>4. ASSUME NEW j \in i + 1 .. Len(o), o[j] = NotLeader
      PROVE  \E k \in i + 1 .. Len(u) : u[k] = NotLeader
  <2>1. j \in i + 1 .. Len(u) /\ j \in DOMAIN o
    BY <1>1, <1>4
  <2> QED
    BY <1>1, <1>4, <2>1
<1> QED
  BY <1>2, <1>3, <1>4

\* A response comes, to a request before the one that is rejected.
LEMMA WholeResponse ==
  ASSUME NEW c, NEW o \in Seq(Item), NEW b, NEW n \in Nat, Whole(c, o, b, n),
         NEW x \in Response, x.client = c, b => x.seqnum + 1 < n
  PROVE  Whole(c, Append(o, frame(x)), b, n)
<1>1. frame(x) \in Item
  BY DEF frame, Item
<1>2. PICK u : u = Append(o, frame(x))
  OBVIOUS
<1>3. /\ Len(u) = Len(o) + 1 /\ Len(o) \in Nat
      /\ DOMAIN u = DOMAIN o \cup {Len(o) + 1} /\ u[Len(o) + 1] = frame(x)
      /\ \A i \in DOMAIN o : u[i] = o[i]
  BY <1>1, <1>2, AppendShape
<1>4. ASSUME NEW i \in DOMAIN u, u[i].kind = "response" PROVE u[i].of.client = c
  BY <1>3, <1>4, Kinds DEF Whole
<1>5. ASSUME NEW i \in DOMAIN u, u[i] = header
      PROVE  /\ b \/ \E j \in i + 1 .. Len(u) : u[j] = NotLeader
             /\ \A j \in before_text(u, i) : u[j].kind = "response" /\ u[j].of.seqnum + 1 < n
  <2>1. i \in DOMAIN o /\ o[i] = header
    BY <1>3, <1>5, Kinds
  <2>2. /\ b \/ \E j \in i + 1 .. Len(o) : o[j] = NotLeader
        /\ \A j \in before_text(o, i) : o[j].kind = "response" /\ o[j].of.seqnum + 1 < n
    BY <2>1 DEF Whole
  <2>3. \A j \in before_text(o, i) : j \in DOMAIN o
    BY <2>1 DEF before_text
  <2>a. /\ before_text(u, i) \subseteq before_text(o, i) \cup {Len(o) + 1}
        /\ (\E j \in i + 1 .. Len(o) : o[j] = NotLeader) =>
              /\ \E j \in i + 1 .. Len(u) : u[j] = NotLeader
              /\ before_text(u, i) \subseteq before_text(o, i)
    BY <1>1, <1>2, <2>1, AppendText
  <2>4. CASE \E j \in i + 1 .. Len(o) : o[j] = NotLeader
    BY <1>3, <2>a, <2>2, <2>3, <2>4
  <2>5. CASE b
    <3>1. u[Len(o) + 1].kind = "response" /\ u[Len(o) + 1].of.seqnum + 1 < n
      BY <1>3, <2>5, Kinds
    <3> QED
      BY <1>3, <2>a, <2>2, <2>3, <2>5, <3>1
  <2> QED
    BY <2>2, <2>4, <2>5
<1>6. Whole(c, u, b, n)
  BY <1>4, <1>5 DEF Whole
<1> QED
  BY <1>2, <1>6

\* The length of a NotLeader comes.
LEMMA WholeHeader ==
  ASSUME NEW c, NEW o \in Seq(Item), NEW b, ~b, NEW n \in Nat, Whole(c, o, b, n), NEW d, d
  PROVE  Whole(c, Append(o, header), d, n)
<1>1. header \in Item
  BY DEF Item
<1>2. PICK u : u = Append(o, header)
  OBVIOUS
<1>3. /\ Len(u) = Len(o) + 1 /\ Len(o) \in Nat
      /\ DOMAIN u = DOMAIN o \cup {Len(o) + 1} /\ u[Len(o) + 1] = header
      /\ DOMAIN o = 1 .. Len(o) /\ \A i \in DOMAIN o : u[i] = o[i]
  BY <1>1, <1>2, AppendShape
<1>4. ASSUME NEW i \in DOMAIN u, u[i].kind = "response" PROVE u[i].of.client = c
  BY <1>3, <1>4, Kinds DEF Whole
<1>5. ASSUME NEW i \in DOMAIN u, u[i] = header, NEW j \in before_text(u, i)
      PROVE  u[j].kind = "response" /\ u[j].of.seqnum + 1 < n
  <2>1. j \in i + 1 .. Len(o) + 1
    BY <1>3, <1>5 DEF before_text
  <2>2. i \in DOMAIN o /\ o[i] = header
    BY <1>3, <1>5, <2>1
  <2>3. \E m \in i + 1 .. Len(o) : o[m] = NotLeader
    BY <2>2 DEF Whole
  <2>4. j \in before_text(o, i)
    BY <1>1, <1>2, <1>5, <2>2, <2>3, AppendText
  <2>5. j \in DOMAIN o /\ o[j].kind = "response" /\ o[j].of.seqnum + 1 < n
    BY <2>2, <2>4 DEF Whole, before_text
  <2> QED
    BY <1>3, <2>5
<1>6. Whole(c, u, d, n)
  BY <1>4, <1>5 DEF Whole
<1> QED
  BY <1>2, <1>6

\* Its text comes.
LEMMA WholeText ==
  ASSUME NEW c, NEW o \in Seq(Item), NEW b, NEW n \in Nat, Whole(c, o, b, n), NEW d
  PROVE  Whole(c, Append(o, NotLeader), d, n)
<1>1. NotLeader \in Item
  BY DEF Item
<1>2. PICK u : u = Append(o, NotLeader)
  OBVIOUS
<1>3. /\ Len(u) = Len(o) + 1 /\ Len(o) \in Nat
      /\ DOMAIN u = DOMAIN o \cup {Len(o) + 1} /\ u[Len(o) + 1] = NotLeader
      /\ \A i \in DOMAIN o : u[i] = o[i]
  BY <1>1, <1>2, AppendShape
<1>4. ASSUME NEW i \in DOMAIN u, u[i].kind = "response" PROVE u[i].of.client = c
  BY <1>3, <1>4, Kinds DEF Whole
<1>5. ASSUME NEW i \in DOMAIN u, u[i] = header
      PROVE  /\ \E j \in i + 1 .. Len(u) : u[j] = NotLeader
             /\ \A j \in before_text(u, i) : u[j].kind = "response" /\ u[j].of.seqnum + 1 < n
  <2>1. i \in DOMAIN o /\ o[i] = header
    BY <1>3, <1>5, Kinds
  <2>2. \A j \in before_text(o, i) :
            j \in DOMAIN o /\ o[j].kind = "response" /\ o[j].of.seqnum + 1 < n
    BY <2>1 DEF Whole, before_text
  <2>3. /\ \E j \in i + 1 .. Len(u) : u[j] = NotLeader
        /\ before_text(u, i) \subseteq before_text(o, i)
    <3>1. Len(o) + 1 \in i + 1 .. Len(u) /\ u[Len(o) + 1] = NotLeader
      BY <1>3, <2>1
    <3>2. before_text(u, i) \subseteq before_text(o, i) \cup {Len(o) + 1}
      BY <1>1, <1>2, <2>1, AppendText
    <3>3. Len(o) + 1 \notin before_text(u, i)
      BY <3>1 DEF before_text
    <3> QED
      BY <3>1, <3>2, <3>3
  <2> QED
    BY <1>3, <2>2, <2>3
<1>6. Whole(c, u, d, n)
  BY <1>4, <1>5 DEF Whole
<1> QED
  BY <1>2, <1>6

\* The client takes what has come first.
LEMMA WholeTail ==
  ASSUME NEW c, NEW o \in Seq(Item), o # <<>>, NEW b, NEW n \in Nat, Whole(c, o, b, n)
  PROVE  Whole(c, Tail(o), b, n)
<1>1. PICK u : u = Tail(o)
  OBVIOUS
<1>2. /\ Len(o) \in Nat /\ Len(u) = Len(o) - 1 /\ DOMAIN u = 1 .. Len(o) - 1 /\ DOMAIN o = 1 .. Len(o)
      /\ \A i \in DOMAIN u : i + 1 \in DOMAIN o /\ u[i] = o[i + 1]
  BY <1>1
<1>3. ASSUME NEW i \in DOMAIN u, u[i].kind = "response" PROVE u[i].of.client = c
  BY <1>2, <1>3 DEF Whole
<1>4. ASSUME NEW i \in DOMAIN u, u[i] = header
      PROVE  /\ b \/ \E j \in i + 1 .. Len(u) : u[j] = NotLeader
             /\ \A j \in before_text(u, i) : u[j].kind = "response" /\ u[j].of.seqnum + 1 < n
  <2>1. i + 1 \in DOMAIN o /\ o[i + 1] = header
    BY <1>2, <1>4
  <2>2. /\ b \/ \E j \in i + 1 + 1 .. Len(o) : o[j] = NotLeader
        /\ \A j \in before_text(o, i + 1) : o[j].kind = "response" /\ o[j].of.seqnum + 1 < n
    BY <2>1 DEF Whole
  <2>3. ASSUME NEW j \in i + 1 + 1 .. Len(o), o[j] = NotLeader
        PROVE  \E k \in i + 1 .. Len(u) : u[k] = NotLeader
    <3>1. j - 1 \in i + 1 .. Len(u) /\ j - 1 \in DOMAIN u /\ j - 1 + 1 = j
      BY <1>2, <2>3
    <3> QED
      BY <1>2, <2>3, <3>1
  <2>4. ASSUME NEW j \in before_text(u, i)
        PROVE  j \in DOMAIN u /\ j + 1 \in before_text(o, i + 1)
    <3>1. j \in i + 1 .. Len(u) /\ \A m \in i + 1 .. j : u[m] # NotLeader
      BY <2>4 DEF before_text
    <3>2. j \in DOMAIN u /\ j + 1 \in i + 1 + 1 .. Len(o)
      BY <1>2, <3>1
    <3>3. ASSUME NEW m \in i + 1 + 1 .. j + 1 PROVE o[m] # NotLeader
      <4>1. m - 1 \in i + 1 .. j /\ m - 1 \in DOMAIN u /\ m - 1 + 1 = m
        BY <1>2, <3>1, <3>3
      <4> QED
        BY <1>2, <3>1, <4>1
    <3> QED
      BY <3>2, <3>3 DEF before_text
  <2> QED
    BY <1>2, <2>2, <2>3, <2>4
<1>5. Whole(c, u, b, n)
  BY <1>3, <1>4 DEF Whole
<1> QED
  BY <1>1, <1>5

LEMMA WholeEmpty ==
  ASSUME NEW c, NEW b, NEW n
  PROVE  Whole(c, <<>>, b, n)
  BY DEF Whole

\* The event loop has sent the length of a NotLeader to the descriptor, not its text.
sending(s, f) == handles(s, f) /\ loop[s].pc = "reject body"

FramedAt(c) ==
    at_work(c) =>
        LET s == session[c].server
            f == session[c].fd
        IN  Whole(c, outbox[s][f], sending(s, f), session[c].request_id)

Framed == \A c \in Client : FramedAt(c)

LEMMA InitFramed == Init => Framed
  BY DEF Init, Framed, FramedAt, at_work

\* What a client at work has, by name.
LEMMA InSession ==
  ASSUME Types, Links, NEW c \in Client, at_work(c)
  PROVE  /\ session[c].server \in Server /\ session[c].fd \in Fd /\ c # nobody
         /\ session[c].fd \in m_all_fds[session[c].server]
         /\ up[session[c].server] => peer[session[c].server][session[c].fd] = c
         /\ ~up[session[c].server] => outbox[session[c].server][session[c].fd] = <<>>
         /\ session[c].request_id \in Nat
         /\ outbox[session[c].server][session[c].fd] \in Seq(Item)
  BY NobodyAssumption DEF Links, Down, Open, Types, Present, NetTypes, Session

\* Nothing is sent to the client.
LEMMA SameFramed ==
  ASSUME Types, Links, Framed, NEW c \in Client, at_work(c)' => at_work(c),
         session'[c].request_id \in Nat, session[c].request_id <= session'[c].request_id,
         NEW s, NEW f, s = session[c].server, f = session[c].fd,
         at_work(c)' => session'[c].server = s /\ session'[c].fd = f,
         \/ outbox'[s][f] = <<>>
         \/ outbox'[s][f] = outbox[s][f] /\ (sending(s, f) => sending(s, f)')
  PROVE  FramedAt(c)'
<1> SUFFICES ASSUME at_work(c)'
             PROVE  Whole(c, outbox'[s][f], sending(s, f)', session'[c].request_id)
  BY DEF FramedAt
<1>1. CASE outbox'[s][f] = <<>>
  BY <1>1, WholeEmpty
<1>2. CASE outbox'[s][f] = outbox[s][f] /\ (sending(s, f) => sending(s, f)')
  <2>1. Whole(c, outbox[s][f], sending(s, f), session[c].request_id)
    BY DEF Framed, FramedAt
  <2>2. outbox[s][f] \in Seq(Item) /\ session[c].request_id \in Nat
    BY InSession
  <2> QED
    BY <1>2, <2>1, <2>2, WholeStays
<1> QED
  BY <1>1, <1>2

\* A response to a client is to a request before the one that is rejected.
LEMMA CallbackFramed ==
  ASSUME AnswersInv, Links, Ordered, Framed, NEW t \in Server, committed_callback(t),
         NEW c \in Client
  PROVE  FramedAt(c)'
<1>0. Types
  BY DEF AnswersInv
<1>1. PICK l \in Line :
        /\ applied[t] + 1 \in DOMAIN log /\ log[applied[t] + 1] = l
        /\ UNCHANGED <<loop, session>>
        /\ \/ outbox' = outbox
           \/ \E x \in Response :
                /\ x.client = l.client /\ x.seqnum = l.seqnum
                /\ m_connected_clients[t][l.client] \in Fd
                /\ Sends(t, m_connected_clients[t][l.client], frame(x))
  BY CallbackReplies
<1>2. l \in settled /\ l.client \in Client
  BY <1>1 DEF settled, Line
<1> SUFFICES ASSUME at_work(c) PROVE FramedAt(c)'
  BY <1>1 DEF FramedAt, at_work
<1>3. PICK s, f : s = session[c].server /\ f = session[c].fd
  OBVIOUS
<1>4. /\ s \in Server /\ f \in Fd /\ session[c].request_id \in Nat
      /\ outbox[s][f] \in Seq(Item)
  BY <1>0, <1>3, InSession
<1>5. Whole(c, outbox[s][f], sending(s, f), session[c].request_id)
  BY <1>3 DEF Framed, FramedAt
<1>6. (sending(s, f)' <=> sending(s, f)) /\ session' = session
  BY <1>1 DEF sending, handles
<1>a. Whole(c, outbox'[s][f], sending(s, f)', session[c].request_id) => FramedAt(c)'
  BY <1>3, <1>6 DEF FramedAt
<1>b. ASSUME NEW b, NEW d, b <=> d, NEW n, NEW o, Whole(c, o, b, n) PROVE Whole(c, o, d, n)
  BY <1>b DEF Whole
<1>7. CASE outbox'[s][f] = outbox[s][f]
  BY <1>5, <1>6, <1>7, <1>a, <1>b
<1>8. CASE outbox'[s][f] # outbox[s][f]
  <2>1. PICK x \in Response :
          /\ x.client = l.client /\ x.seqnum = l.seqnum
          /\ m_connected_clients[t][l.client] = f /\ t = s
          /\ outbox'[s][f] = Append(outbox[s][f], frame(x))
    BY <1>1, <1>4, <1>8 DEF Sends
  <2>2. l.client = c
    BY <1>2, <1>3, <2>1 DEF Ordered, Apart, Ours
  <2>3. ASSUME sending(s, f) PROVE x.seqnum + 1 < session[c].request_id
    <3>1. PICK m : m = loop[s].line
      OBVIOUS
    <3>2. m \in on(s, f) /\ m \in Line
      BY <1>0, <1>4, <2>3, <3>1 DEF sending, handles, on, Types, Present
    <3>3. x.seqnum < m.seqnum
      BY <1>2, <1>3, <2>1, <2>2, <3>2 DEF Ordered, Apart, Latest, Older
    <3>4. m.client = c
      BY <1>3, <3>2 DEF Ordered, Apart, Ours
    <3>5. m.seqnum < session[c].request_id
      BY <1>4, <3>2, <3>4 DEF Ordered, Below, Older
    <3>6. x.seqnum \in Nat /\ m.seqnum \in Nat
      BY <3>2 DEF Response, Line
    <3> QED
      BY <1>4, <3>3, <3>5, <3>6
  <2>4. Whole(c, outbox'[s][f], sending(s, f), session[c].request_id)
    BY <1>4, <1>5, <2>1, <2>2, <2>3, WholeResponse
  <2> QED
    BY <1>6, <1>a, <1>b, <2>4
<1> QED
  BY <1>7, <1>8

LEMMA AcceptFramed ==
  ASSUME Types, Links, Framed, NEW t \in Server, NEW d \in Client, accept(t, d), NEW c \in Client
  PROVE  FramedAt(c)'
<1>1. PICK g \in Fd \ m_all_fds[t] : Accepts(t, d, g)
  BY AcceptAccepts
<1>2. CASE c = d
  <2>1. outbox'[t][g] = <<>> /\ session'[c].server = t /\ session'[c].fd = g
    BY <1>1, <1>2 DEF Accepts
  <2> QED
    BY <2>1, WholeEmpty DEF FramedAt
<1>3. CASE c # d
  <2>0. session'[c] = session[c] /\ loop' = loop
    BY <1>1, <1>3 DEF Accepts
  <2> SUFFICES ASSUME at_work(c) PROVE FramedAt(c)'
    BY <2>0 DEF FramedAt, at_work
  <2>1. PICK s, f : s = session[c].server /\ f = session[c].fd
    OBVIOUS
  <2>2. s \in Server /\ f \in Fd /\ session[c].request_id \in Nat
    BY <2>1, InSession
  <2>3. outbox'[s][f] = outbox[s][f] \/ outbox'[s][f] = <<>>
    BY <1>1, <2>2 DEF Accepts
  <2>4. sending(s, f)' <=> sending(s, f)
    BY <2>0 DEF sending, handles
  <2> QED
    BY <2>0, <2>1, <2>2, <2>3, <2>4, SameFramed
<1> QED
  BY <1>2, <1>3

\* The event loop at its connections sends nothing.
LEMMA ConnectionFramed ==
  ASSUME Types, Links, Framed, NEW t \in Server, NEW g \in Fd,
         disconnect(t, g) \/ receive(t, g) \/ body_did_not_come_at_once(t, g), NEW c \in Client
  PROVE  FramedAt(c)'
<1>1. session' = session /\ loop[t].pc = "select"
  BY DEF disconnect, receive, body_did_not_come_at_once, halt, at
<1> SUFFICES ASSUME at_work(c) PROVE FramedAt(c)'
  BY <1>1 DEF FramedAt, at_work
<1>2. PICK s, f : s = session[c].server /\ f = session[c].fd
  OBVIOUS
<1>3. s \in Server /\ f \in Fd /\ session[c].request_id \in Nat
  BY <1>2, InSession
<1>4. outbox'[s][f] = outbox[s][f] \/ outbox'[s][f] = <<>>
  <2>1. CASE UNCHANGED outbox
    BY <2>1
  <2>2. CASE body_did_not_come_at_once(t, g)
    <3>1. outbox' = [outbox EXCEPT ![t] = [e \in Fd |-> <<>>]]
      BY <2>2 DEF body_did_not_come_at_once, halt
    <3> QED
      BY <1>3, <3>1 DEF Types, NetTypes
  <2> QED
    BY <2>1, <2>2 DEF disconnect, receive, stream_vars
<1>5. sending(s, f) => sending(s, f)'
  <2>1. ASSUME sending(s, f) PROVE s # t
    BY <1>1, <2>1 DEF sending, handles
  <2>2. \A u \in Server : u # t => loop'[u] = loop[u]
    BY DEF disconnect, receive, body_did_not_come_at_once, halt, loop_vars, Types, NetTypes
  <2> QED
    BY <1>3, <2>1, <2>2 DEF sending, handles
<1> QED
  BY <1>1, <1>2, <1>3, <1>4, <1>5, SameFramed

\* The two sends of a NotLeader.
LEMMA HandlerFramed ==
  ASSUME Types, Links, Framed, NEW t \in Server,
         register(t) \/ replicate(t) \/ reject_header(t) \/ reject_body(t), NEW c \in Client
  PROVE  FramedAt(c)'
<1>1. session' = session /\ up[t] /\ loop[t].pc # "select" /\ loop[t].fd \in Fd
  BY DEF register, replicate, reject_header, reject_body, at, stream_vars, Types, Present
<1> SUFFICES ASSUME at_work(c) PROVE FramedAt(c)'
  BY <1>1 DEF FramedAt, at_work
<1>2. PICK s, f, o, n : s = session[c].server /\ f = session[c].fd /\ o = outbox[s][f]
                        /\ n = session[c].request_id
  OBVIOUS
<1>3. /\ s \in Server /\ f \in Fd /\ n \in Nat /\ c # nobody /\ o \in Seq(Item)
      /\ up[s] => peer[s][f] = c
  BY <1>2, InSession
<1>4. Whole(c, o, sending(s, f), n)
  BY <1>2 DEF Framed, FramedAt
<1>5. \A u \in Server : u # t => loop'[u] = loop[u]
  BY DEF register, replicate, reject_header, reject_body, goto, Types, NetTypes
<1>6. header \in Item /\ NotLeader \in Item
  BY DEF Item
<1>7. CASE register(t) \/ replicate(t) \/ ~(t = s /\ loop[t].fd = f)
  <2>1. outbox'[s][f] = outbox[s][f]
    <3>1. CASE UNCHANGED outbox
      BY <3>1
    <3>2. ASSUME NEW item \in Item, outbox' = to_stream(t, loop[t].fd, item),
                 ~(t = s /\ loop[t].fd = f)
          PROVE  outbox'[s][f] = outbox[s][f]
      BY <1>1, <1>3, <3>2, ToStream DEF Types, Sends
    <3> QED
      BY <1>6, <1>7, <3>1, <3>2 DEF register, replicate, reject_header, reject_body, stream_vars
  <2>2. sending(s, f) => sending(s, f)'
    <3>1. CASE s # t
      BY <1>3, <1>5, <3>1 DEF sending, handles
    <3>2. CASE s = t
      BY <1>7, <3>2 DEF register, replicate, at, sending, handles
    <3> QED
      BY <3>1, <3>2
  <2> QED
    BY <1>1, <1>2, <1>3, <2>1, <2>2, SameFramed
<1>8. CASE t = s /\ loop[t].fd = f /\ reject_header(t)
  <2>1. ~sending(s, f)
    BY <1>8 DEF reject_header, at, sending
  <2>2. outbox'[s][f] = Append(o, header)
    <3>1. Sends(t, f, header)
      BY <1>3, <1>6, <1>8, ToStream DEF reject_header, Types
    <3> QED
      BY <1>1, <1>2, <1>3, <1>8, <3>1 DEF Sends
  <2>3. sending(s, f)'
    <3>1. PICK q : q = [loop[t] EXCEPT !.pc = "reject body"]
      OBVIOUS
    <3>a. loop \in [Server -> Loop] /\ loop[t] \in Loop
      BY DEF Types, NetTypes
    <3>2. q.pc = "reject body" /\ q.fd = f
      BY <1>8, <3>1, <3>a DEF Loop
    <3>3. loop' = [loop EXCEPT ![t] = q]
      BY <1>8, <3>1 DEF reject_header, goto
    <3>4. loop'[t] = q
      BY <3>3 DEF Types, NetTypes
    <3>5. loop'[s].pc = "reject body" /\ loop'[s].fd = f
      BY <1>8, <3>2, <3>4
    <3> QED
      BY <3>5 DEF sending, handles
  <2>4. Whole(c, outbox'[s][f], sending(s, f)', n)
    BY <1>3, <1>4, <2>1, <2>2, <2>3, WholeHeader
  <2> QED
    BY <1>1, <1>2, <2>4 DEF FramedAt
<1>9. CASE t = s /\ loop[t].fd = f /\ reject_body(t)
  <2>1. outbox'[s][f] = Append(o, NotLeader)
    <3>1. Sends(t, f, NotLeader)
      BY <1>3, <1>6, <1>9, ToStream DEF reject_body, Types
    <3> QED
      BY <1>1, <1>2, <1>3, <1>9, <3>1 DEF Sends
  <2>2. Whole(c, outbox'[s][f], sending(s, f)', n)
    BY <1>3, <1>4, <2>1, WholeText
  <2> QED
    BY <1>1, <1>2, <2>2 DEF FramedAt
<1> QED
  BY <1>7, <1>8, <1>9

\* A client calls, takes a response or loses its session.
LEMMA ClientFramed ==
  ASSUME Types, Links, Framed, NEW d \in Client, call(d) \/ take_response(d) \/ fail(d),
         NEW c \in Client
  PROVE  FramedAt(c)'
<1>1. loop' = loop
  BY DEF call, send_command, take_response, fail, loop_vars
<1>2. \A s, f : sending(s, f)' <=> sending(s, f)
  BY <1>1 DEF sending, handles
<1>3. /\ \A e \in Client \ {d} : session'[e] = session[e]
      /\ at_work(d)' => /\ at_work(d) /\ session'[d].server = session[d].server
                        /\ session'[d].fd = session[d].fd
      /\ session'[d].request_id \in Nat /\ session[d].request_id <= session'[d].request_id
  <2>0. session[d].request_id \in Nat
    BY DEF Types, NetTypes, Session
  <2>1. CASE call(d)
    <3>1. PICK l \in Line : Calls(d, l)
      BY <2>1, CallTypes
    <3>2. /\ session[d].state = "idle" /\ session'[d].server = session[d].server
          /\ session'[d].fd = session[d].fd
          /\ session'[d].request_id = session[d].request_id + 1
          /\ \A e \in Client \ {d} : session'[e] = session[e]
      BY <3>1 DEF Calls
    <3>3. at_work(d)
      BY <3>2 DEF at_work
    <3>4. session'[d].request_id \in Nat /\ session[d].request_id <= session'[d].request_id
      <4>1. PICK n \in Nat : n = session[d].request_id
        BY <2>0
      <4> QED
        BY <3>2, <4>1
    <3> QED
      BY <3>2, <3>3, <3>4
  <2>2. CASE take_response(d)
    <3>1. /\ session'[d].server = session[d].server /\ session'[d].fd = session[d].fd
          /\ session'[d].request_id = session[d].request_id
          /\ \A e \in Client \ {d} : session'[e] = session[e]
      BY <2>2, TakeTypes
    <3>2. at_work(d)
      BY <2>2 DEF take_response, at_work
    <3> QED
      BY <2>0, <3>1, <3>2
  <2>3. CASE fail(d)
    <3>1. /\ session'[d].state = IF d \in Failover THEN "away" ELSE "done"
          /\ \A e \in Client \ {d} : session'[e] = session[e]
      BY <2>3, FailTypes
    <3>2. session'[d].request_id = session[d].request_id
      BY <2>3 DEF fail, Types, NetTypes, Session
    <3> QED
      BY <2>0, <3>1, <3>2 DEF at_work
  <2> QED
    BY <2>1, <2>2, <2>3
<1>a. at_work(c)' => /\ at_work(c) /\ session'[c].server = session[c].server
                     /\ session'[c].fd = session[c].fd
  BY <1>3 DEF at_work
<1>b. session'[c].request_id \in Nat /\ session[c].request_id <= session'[c].request_id
  <2>1. session[c].request_id \in Nat
    BY DEF Types, NetTypes, Session
  <2> QED
    BY <1>3, <2>1
<1> SUFFICES ASSUME at_work(c), at_work(c)' PROVE FramedAt(c)'
  BY <1>a DEF FramedAt
<1>4. PICK s, f : s = session[c].server /\ f = session[c].fd
  OBVIOUS
<1>5. s \in Server /\ f \in Fd /\ outbox[s][f] \in Seq(Item) /\ session[c].request_id \in Nat
  BY <1>4, InSession
<1>6. CASE outbox'[s][f] = outbox[s][f]
  BY <1>2, <1>4, <1>6, <1>a, <1>b, SameFramed
<1>7. CASE outbox'[s][f] # outbox[s][f]
  <2>1. take_response(d)
    BY <1>7 DEF call, send_command, fail, stream_vars
  <2>2. PICK t, g, v : t = session[d].server /\ g = session[d].fd /\ v = Tail(outbox[t][g])
    OBVIOUS
  <2>3. /\ t \in Server /\ g \in Fd /\ outbox[t][g] # <<>> /\ outbox[t][g] \in Seq(Item)
        /\ outbox' = [outbox EXCEPT ![t][g] = v] /\ session'[d].request_id = session[d].request_id
    <3>1. at_work(d) /\ outbox[t][g] # <<>> /\ outbox' = [outbox EXCEPT ![t][g] = v]
      BY <2>1, <2>2 DEF take_response, replies, at_work
    <3>2. t \in Server /\ g \in Fd /\ outbox[t][g] \in Seq(Item)
      BY <2>2, <3>1, InSession
    <3> QED
      BY <2>1, <3>1, <3>2, TakeTypes
  <2>4. v \in Seq(Item)
    BY <2>2, <2>3
  <2>5. s = t /\ f = g /\ outbox'[s][f] = v
    BY <1>5, <1>7, <2>3, <2>4, Nested DEF Types, NetTypes
  <2>6. session'[c].request_id = session[c].request_id
    BY <1>3, <2>3
  <2>7. Whole(c, outbox[s][f], sending(s, f), session[c].request_id)
    BY <1>4 DEF Framed, FramedAt
  <2>8. Whole(c, v, sending(s, f), session[c].request_id)
    BY <1>5, <2>2, <2>3, <2>5, <2>7, WholeTail
  <2>9. Whole(c, v, sending(s, f)', session[c].request_id)
    BY <1>2, <1>5, <2>4, <2>8, WholeStays
  <2> QED
    BY <1>4, <1>a, <2>5, <2>6, <2>9 DEF FramedAt
<1> QED
  BY <1>6, <1>7

\* The layer below, and sockets that are closed.
LEMMA OtherFramed ==
  ASSUME Types, Links, Framed, NEW c \in Client, UNCHANGED <<loop, session>>,
         \/ UNCHANGED outbox
         \/ \E s \in Server, f \in Fd : outbox' = [outbox EXCEPT ![s][f] = <<>>]
  PROVE  FramedAt(c)'
<1> SUFFICES ASSUME at_work(c) PROVE FramedAt(c)'
  BY DEF FramedAt, at_work
<1>1. PICK s, f : s = session[c].server /\ f = session[c].fd
  OBVIOUS
<1>2. s \in Server /\ f \in Fd /\ session[c].request_id \in Nat
  BY <1>1, InSession
<1>3. outbox'[s][f] = outbox[s][f] \/ outbox'[s][f] = <<>>
  <2>1. <<>> \in Seq(Item) /\ outbox \in [Server -> [Fd -> Seq(Item)]]
    BY DEF Types, NetTypes
  <2>2. ASSUME NEW t \in Server, NEW g \in Fd, outbox' = [outbox EXCEPT ![t][g] = <<>>]
        PROVE  outbox'[s][f] = outbox[s][f] \/ outbox'[s][f] = <<>>
    BY <1>2, <2>1, <2>2, Nested
  <2> QED
    BY <2>2
<1>4. sending(s, f)' <=> sending(s, f)
  BY DEF sending, handles
<1> QED
  BY <1>1, <1>2, <1>3, <1>4, SameFramed

LEMMA FramedStep == AnswersInv /\ Links /\ Ordered /\ Framed /\ [Next]_vars => Framed'
<1> SUFFICES ASSUME AnswersInv, Links, Ordered, Framed, [Next]_vars, NEW c \in Client
             PROVE  FramedAt(c)'
  BY DEF Framed
<1>0. Types
  BY DEF AnswersInv
<1>1. CASE UNCHANGED vars \/ Locks \/ (\E l \in proposed : commit(l))
           \/ \E s \in Server, f \in Fd : hang_up(s, f)
  <2>1. UNCHANGED <<loop, session>>
    BY <1>1 DEF vars, Locks, lock, commit, hang_up, loop_vars
  <2>2. \/ UNCHANGED outbox
        \/ \E s \in Server, f \in Fd : outbox' = [outbox EXCEPT ![s][f] = <<>>]
    BY <1>1 DEF vars, Locks, lock, commit, hang_up, stream_vars
  <2> QED
    BY <1>0, <2>1, <2>2, OtherFramed
<1>2. CASE Answers
  BY <1>2, CallbackFramed DEF Answers
<1>3. CASE \E s \in Server : event_loop(s)
  BY <1>0, <1>3, AcceptFramed, ConnectionFramed, HandlerFramed DEF event_loop
<1>4. CASE \E d \in Client : call(d) \/ take_response(d) \/ fail(d)
  BY <1>0, <1>4, ClientFramed
<1> QED
  BY <1>1, <1>2, <1>3, <1>4, NextCases DEF Moves

StreamsInv == CallsInv /\ Ordered /\ Framed

\* Of every client, those that fail over too, the lines on its connection are later
\* than what it sent before, and nothing but earlier responses splits a NotLeader.
THEOREM StreamsInvariance == Spec => []StreamsInv
<1>1. Init => StreamsInv
  BY InitAnswers, InitCalls, InitOrdered, InitFramed DEF StreamsInv, CallsInv
<1>2. StreamsInv /\ [Next]_vars => StreamsInv'
  BY AnswersStep, LinksStep, FreshStep, OrderedStep, FramedStep DEF StreamsInv, CallsInv
<1> QED
  BY <1>1, <1>2, PTL DEF Spec

\* A response on a client's connection is to an earlier request of that client.
LEMMA OwnResponses ==
  ASSUME StreamsInv, NEW c \in Client, at_work(c),
         NEW r \in responses(session[c].server, session[c].fd)
  PROVE  r.client = c /\ r.seqnum < session[c].request_id
<1>1. PICK s, f : s = session[c].server /\ f = session[c].fd
  OBVIOUS
<1>2. PICK i \in DOMAIN outbox[s][f] : outbox[s][f][i].kind = "response" /\ r = outbox[s][f][i].of
  BY <1>1 DEF responses
<1>3. r.client = c
  BY <1>1, <1>2 DEF StreamsInv, Framed, FramedAt, Whole
<1>4. s \in Server /\ f \in Fd
  BY <1>1, InSession DEF StreamsInv, CallsInv, AnswersInv
<1>5. PICK p \in 1 .. Len(log) : log[p].client = r.client /\ log[p].seqnum = r.seqnum
  BY <1>1, <1>4 DEF StreamsInv, CallsInv, AnswersInv, Outboxes, Answer
<1>6. log[p] \in settled
  BY <1>5 DEF settled, StreamsInv, CallsInv, AnswersInv, Types, StoreTypes
<1> QED
  BY <1>3, <1>5, <1>6 DEF StreamsInv, Ordered, Below, Older

\* What the stream of a new client at work has is one response or one NotLeader.
LEMMA NewStreams ==
  ASSUME StreamsInv, NEW c \in New, at_work(c)
  PROVE  /\ \A r \in responses(session[c].server, session[c].fd) :
               session[c].state = "waiting" /\ r.seqnum + 1 = session[c].request_id
         /\ \A i \in DOMAIN replies(c) : replies(c)[i] = header => before_text(replies(c), i) = {}
<1>1. PICK o : o = replies(c) /\ o = outbox[session[c].server][session[c].fd]
  BY DEF replies
<1>2. \/ o = <<>> \/ o = <<header, NotLeader>> \/ o = <<header>>
      \/ /\ session[c].state = "waiting"
         /\ \E x \in Response : /\ o = <<frame(x)>> /\ x.client = c
                                /\ x.seqnum + 1 = session[c].request_id
  BY <1>1, Streams DEF StreamsInv
<1>3. ASSUME NEW r \in responses(session[c].server, session[c].fd)
      PROVE  session[c].state = "waiting" /\ r.seqnum + 1 = session[c].request_id
  <2>1. PICK i \in DOMAIN o : o[i].kind = "response" /\ r = o[i].of
    BY <1>1 DEF responses
  <2>2. CASE o = <<>> \/ o = <<header, NotLeader>> \/ o = <<header>>
    <3>1. o[i] \in {header, NotLeader}
      BY <2>1, <2>2
    <3> QED
      BY <2>1, <3>1, Kinds
  <2>3. ASSUME NEW x \in Response, o = <<frame(x)>> PROVE r = x
    <3>1. i = 1 /\ o[1] = frame(x)
      BY <2>1, <2>3
    <3> QED
      BY <2>1, <3>1, Kinds
  <2> QED
    BY <1>2, <2>2, <2>3
<1>4. ASSUME NEW i \in DOMAIN o, o[i] = header PROVE before_text(o, i) = {}
  <2>1. CASE o = <<header, NotLeader>>
    <3>1. DOMAIN o = {1, 2} /\ Len(o) = 2 /\ o[2] = NotLeader
      BY <2>1
    <3>2. i = 1
      BY <1>4, <3>1, Kinds
    <3> QED
      BY <3>1, <3>2 DEF before_text
  <2>2. ASSUME NEW x, o = <<x>> PROVE before_text(o, i) = {}
    <3>1. i = 1 /\ Len(o) = 1
      BY <2>2
    <3> QED
      BY <3>1 DEF before_text
  <2>3. CASE o = <<>>
    <3>1. DOMAIN o = {}
      BY <2>3
    <3> QED
      BY <3>1
  <2> QED
    BY <1>2, <2>1, <2>2, <2>3
<1> QED
  BY <1>1, <1>3, <1>4

\* What a client takes for the answer to its call (process_response of vard.py takes
\* whatever comes) is a response to a request of its own; if it had no session before,
\* to that very request.
THEOREM AnswersMatch == Spec => []AnswersAreForTheCall
<1>1. StreamsInv => AnswersAreForTheCall
  BY OwnResponses, NewStreams DEF AnswersAreForTheCall, New
<1> QED
  BY <1>1, StreamsInvariance, PTL

\* The event loop sends the length and the text of a NotLeader without the mutex.
\* Nothing comes between them on the connection of a client that had no session
\* before; on that of one that fails over, only responses to requests before the
\* rejected one.
THEOREM NoFrameIsSplit == Spec => []FramesAreWhole
<1>1. StreamsInv => FramesAreWhole
  <2> SUFFICES ASSUME StreamsInv, NEW c \in Client, at_work(c), NEW i \in DOMAIN replies(c),
                      replies(c)[i] = header
               PROVE  /\ \/ \E j \in i + 1 .. Len(replies(c)) : replies(c)[j] = NotLeader
                         \/ at(session[c].server, "reject body")
                            /\ loop[session[c].server].fd = session[c].fd
                      /\ \A j \in before_text(replies(c), i) :
                          /\ c \in Failover
                          /\ replies(c)[j].kind = "response" /\ replies(c)[j].of.client = c
                          /\ replies(c)[j].of.seqnum + 1 < session[c].request_id
    BY DEF FramesAreWhole
  <2>1. PICK s, f, o : s = session[c].server /\ f = session[c].fd /\ o = outbox[s][f]
                       /\ o = replies(c)
    BY DEF replies
  <2>2. Whole(c, o, sending(s, f), session[c].request_id)
    BY <2>1 DEF StreamsInv, Framed, FramedAt
  <2>3. /\ sending(s, f) \/ \E j \in i + 1 .. Len(o) : o[j] = NotLeader
        /\ \A j \in before_text(o, i) :
              o[j].kind = "response" /\ o[j].of.seqnum + 1 < session[c].request_id
    BY <2>1, <2>2 DEF Whole
  <2>4. up[s]
    <3>1. ~up[s] => o = <<>>
      BY <2>1, InSession DEF StreamsInv, CallsInv, AnswersInv
    <3> QED
      BY <2>1, <3>1
  <2>5. \A j \in before_text(o, i) : j \in DOMAIN o /\ o[j].of.client = c
    <3>1. o \in Seq(Item)
      BY <2>1, InSession DEF StreamsInv, CallsInv, AnswersInv
    <3>2. \A j \in before_text(o, i) : j \in DOMAIN o
      BY <2>1, <3>1 DEF before_text
    <3> QED
      BY <2>2, <2>3, <3>2 DEF Whole
  <2>6. c \notin Failover => before_text(o, i) = {}
    BY <2>1, NewStreams DEF New
  <2> QED
    BY <2>1, <2>3, <2>4, <2>5, <2>6 DEF sending, handles, at
<1> QED
  BY <1>1, StreamsInvariance, PTL
=============================================================================
