------------------------------ MODULE KvServers ------------------------------
(***************************************************************************)
(* The key-value servers of server.cpp and the clients of vard.py.         *)
(*                                                                         *)
(* A server has two threads at work here: the event loop, which reads one  *)
(* request at a time, and the thread of the consensus layer that calls     *)
(* committed_callback for each entry of the log.  They share the mutex mut *)
(* and, through replicate, the lock of the consensus layer.  What that     *)
(* layer promises is taken from CommittedLog: one log, read by each server *)
(* from its start.                                                         *)
(*                                                                         *)
(* A client whose call fails has lost its session.  One that fails over    *)
(* opens another with the same client id and the next request id; the      *)
(* others are done, their user starts a new client with an id of its own.  *)
(***************************************************************************)
EXTENDS Naturals, Sequences, FiniteSets, KeyValueStore

CONSTANTS
    Server,
    Fd,             \* descriptors a server gives to client connections
    nobody,         \* no client, no descriptor
    Failover,       \* the clients that fail over
    Commands,       \* what clients call: [tag, key, arg2, arg3]
    \* Bounds of the exploration: requests of a client, requests accepted.
    MaxCalls, MaxLines

ASSUME CallsAssumption == Commands \subseteq Call /\ Failover \subseteq Client
ASSUME NobodyAssumption == nobody \notin Client \cup Fd

VARIABLES
    log,            \* the lines committed so far, in order
    proposed,       \* lines a server accepted that are not in the log
    \* Per server.
    up,
    applied,        \* how many entries committed_callback has been called for
    m_kvstore, m_response_cache,
    m_connected_clients,    \* client id to descriptor
    m_all_fds,
    mut,            \* "free", or held across steps by the "loop"
    committer,      \* "idle", or "locked": it holds the consensus lock
    loop,           \* [pc, fd, line] of the event loop
    \* Per server and descriptor: the client at the other end, and both streams.
    peer, inbox, outbox,
    \* Per client: [state, server, fd, request_id, call, retry].
    session

log_vars    == <<log, proposed>>
store_vars  == <<applied, m_kvstore, m_response_cache, committer>>
fd_vars     == <<m_connected_clients, m_all_fds>>
loop_vars   == <<mut, loop>>
stream_vars == <<peer, inbox, outbox>>

vars == <<log_vars, up, store_vars, fd_vars, loop_vars, stream_vars, session>>

no_call == [tag |-> "GET", key |-> Null, arg2 |-> Dash, arg3 |-> Dash]
no_line == <<>>
selecting == [pc |-> "select", fd |-> nobody, line |-> no_line]

Init ==
    /\ log = <<>> /\ proposed = {}
    /\ up = [s \in Server |-> TRUE]
    /\ applied = [s \in Server |-> 0]
    /\ m_kvstore = [s \in Server |-> [k \in Key |-> Null]]
    /\ m_response_cache = [s \in Server |-> [c \in Client |-> Null]]
    /\ m_connected_clients = [s \in Server |-> [c \in Client |-> nobody]]
    /\ m_all_fds = [s \in Server |-> {}]
    /\ mut = [s \in Server |-> "free"]
    /\ committer = [s \in Server |-> "idle"]
    /\ loop = [s \in Server |-> selecting]
    /\ peer = [s \in Server |-> [f \in Fd |-> nobody]]
    /\ inbox = [s \in Server |-> [f \in Fd |-> <<>>]]
    /\ outbox = [s \in Server |-> [f \in Fd |-> <<>>]]
    /\ session = [c \in Client |-> [state |-> "away", server |-> nobody, fd |-> nobody,
                                    request_id |-> 0, call |-> no_call, retry |-> FALSE]]
-----------------------------------------------------------------------------
(***************************************************************************)
(* The consensus layer.                                                    *)
(***************************************************************************)
commit(l) ==
    /\ l \in proposed
    /\ log' = Append(log, l)
    /\ proposed' = proposed \ {l}
    /\ UNCHANGED <<up, store_vars, fd_vars, loop_vars, stream_vars, session>>

\* A handler of server s has the consensus lock and an entry to report.
lock(s) ==
    /\ up[s] /\ committer[s] = "idle"
    /\ applied[s] < Len(log)
    /\ committer' = [committer EXCEPT ![s] = "locked"]
    /\ UNCHANGED <<log_vars, up, applied, m_kvstore, m_response_cache, fd_vars, loop_vars,
                   stream_vars, session>>
-----------------------------------------------------------------------------
(***************************************************************************)
(* committed_callback.                                                     *)
(***************************************************************************)
\* A response is one send, its length included.
frame(resp) == [kind |-> "response", of |-> resp]
header == [kind |-> "header"]
NotLeader == [kind |-> "NotLeader"]

\* What is sent to a descriptor whose client has gone is lost.
to_stream(s, f, item) ==
    IF peer[s][f] = nobody THEN outbox
    ELSE [outbox EXCEPT ![s][f] = Append(@, item)]

send_response(s, resp) ==
    LET f == m_connected_clients[s][resp.client]
    IN  outbox' = IF f = nobody THEN outbox ELSE to_stream(s, f, frame(resp))

\* Fault: requests are executed although a later one of the client has been.
execute_old_requests(s, r) ==
    LET old == m_kvstore[s][r.key]
    IN  /\ m_kvstore' = [m_kvstore EXCEPT ![s][r.key] = value_after(r, old)]
        /\ m_response_cache' = [m_response_cache EXCEPT ![s][r.client] = response(r, old)]
        /\ send_response(s, response(r, old))

\* A new request is executed, the last one answered again from the cache, an
\* older one dropped.
execute_request(s, r) ==
    LET old == m_kvstore[s][r.key]
    IN  \/ /\ is_new(m_response_cache[s], r)
           /\ m_kvstore' = [m_kvstore EXCEPT ![s][r.key] = value_after(r, old)]
           /\ m_response_cache' = [m_response_cache EXCEPT ![s][r.client] = response(r, old)]
           /\ send_response(s, response(r, old))
        \/ /\ ~is_new(m_response_cache[s], r)
           /\ IF is_repeated(m_response_cache[s], r)
              THEN send_response(s, m_response_cache[s][r.client])
              ELSE UNCHANGED outbox
           /\ UNCHANGED <<m_kvstore, m_response_cache>>

committed_callback(s) ==
    /\ up[s] /\ committer[s] = "locked"
    /\ mut[s] = "free"
    /\ execute_request(s, parse_request(log[applied[s] + 1]))
    /\ applied' = [applied EXCEPT ![s] = @ + 1]
    /\ committer' = [committer EXCEPT ![s] = "idle"]
    /\ UNCHANGED <<log_vars, up, fd_vars, loop_vars, peer, inbox, session>>
-----------------------------------------------------------------------------
(***************************************************************************)
(* The event loop.                                                         *)
(***************************************************************************)
at(s, pc) == up[s] /\ loop[s].pc = pc

goto(s, pc) == loop' = [loop EXCEPT ![s].pc = pc]

\* A client's connect is accepted on a descriptor that is not in use.
accept(s, c) ==
    /\ at(s, "select") /\ mut[s] = "free"
    /\ session[c].state = "away"
    /\ \E f \in Fd \ m_all_fds[s] :
        /\ m_all_fds' = [m_all_fds EXCEPT ![s] = @ \cup {f}]
        /\ peer' = [peer EXCEPT ![s][f] = c]
        /\ inbox' = [inbox EXCEPT ![s][f] = <<>>]
        /\ outbox' = [outbox EXCEPT ![s][f] = <<>>]
        /\ session' = [session EXCEPT ![c].state = "idle", ![c].server = s, ![c].fd = f]
    /\ UNCHANGED <<log_vars, up, store_vars, m_connected_clients, loop_vars>>

\* Fault: the clients of the descriptor stay connected.
disconnect_fd_only(s, f) ==
    /\ at(s, "select") /\ mut[s] = "free"
    /\ f \in m_all_fds[s] /\ peer[s][f] = nobody /\ inbox[s][f] = <<>>
    /\ m_all_fds' = [m_all_fds EXCEPT ![s] = @ \ {f}]
    /\ UNCHANGED <<log_vars, up, store_vars, m_connected_clients, loop_vars, stream_vars, session>>

\* The client has closed: close the descriptor and forget who used it.
disconnect(s, f) ==
    /\ at(s, "select") /\ mut[s] = "free"
    /\ f \in m_all_fds[s] /\ peer[s][f] = nobody /\ inbox[s][f] = <<>>
    /\ m_all_fds' = [m_all_fds EXCEPT ![s] = @ \ {f}]
    /\ m_connected_clients' = [m_connected_clients EXCEPT
           ![s] = [c \in Client |-> IF @[c] = f THEN nobody ELSE @[c]]]
    /\ UNCHANGED <<log_vars, up, store_vars, loop_vars, stream_vars, session>>

receive(s, f) ==
    /\ at(s, "select")
    /\ f \in m_all_fds[s] /\ inbox[s][f] # <<>>
    /\ loop' = [loop EXCEPT ![s] = [pc |-> "register", fd |-> f, line |-> Head(inbox[s][f])]]
    /\ inbox' = [inbox EXCEPT ![s][f] = Tail(@)]
    /\ UNCHANGED <<log_vars, up, store_vars, fd_vars, mut, peer, outbox, session>>

\* The server process ends: its sessions end with it.
halt(s) ==
    /\ up' = [up EXCEPT ![s] = FALSE]
    /\ peer' = [peer EXCEPT ![s] = [f \in Fd |-> nobody]]
    /\ inbox' = [inbox EXCEPT ![s] = [f \in Fd |-> <<>>]]
    /\ outbox' = [outbox EXCEPT ![s] = [f \in Fd |-> <<>>]]
    /\ UNCHANGED <<log_vars, store_vars, fd_vars, loop_vars, session>>

\* The body of a request has not all come when its header is read: exit(1).
body_did_not_come_at_once(s, f) ==
    /\ at(s, "select")
    /\ f \in m_all_fds[s] /\ inbox[s][f] # <<>>
    /\ halt(s)

\* Fault: the mutex is still held in replicate.
register_keeping_mut(s) ==
    /\ at(s, "register") /\ mut[s] = "free"
    /\ mut' = [mut EXCEPT ![s] = "loop"]
    /\ m_connected_clients' = [m_connected_clients EXCEPT ![s][loop[s].line.client] = loop[s].fd]
    /\ goto(s, "replicate")
    /\ UNCHANGED <<log_vars, up, store_vars, m_all_fds, stream_vars, session>>

register(s) ==
    /\ at(s, "register") /\ mut[s] = "free"
    /\ m_connected_clients' = [m_connected_clients EXCEPT ![s][loop[s].line.client] = loop[s].fd]
    /\ goto(s, "replicate")
    /\ UNCHANGED <<log_vars, up, store_vars, m_all_fds, mut, stream_vars, session>>

\* Fault: a line is proposed whether the server is the leader or not.
propose_anyway(s) ==
    /\ at(s, "replicate") /\ committer[s] = "idle"
    /\ Len(log) + Cardinality(proposed) < MaxLines
    /\ proposed' = proposed \cup {loop[s].line}
    /\ goto(s, "reject")
    /\ UNCHANGED <<log, up, mut, store_vars, fd_vars, stream_vars, session>>

\* replicate takes the consensus lock.  A server that takes itself for the
\* leader accepts; an accepted line may enter the log at any time, or never.
replicate(s) ==
    /\ at(s, "replicate") /\ committer[s] = "idle"
    /\ mut' = [mut EXCEPT ![s] = IF @ = "loop" THEN "free" ELSE @]
    /\ \/ /\ Len(log) + Cardinality(proposed) < MaxLines
          /\ proposed' = proposed \cup {loop[s].line}
          /\ loop' = [loop EXCEPT ![s] = selecting]
       \/ /\ goto(s, "reject")
          /\ UNCHANGED proposed
    /\ UNCHANGED <<log, up, store_vars, fd_vars, stream_vars, session>>

\* NotLeader goes out in two sends, without the mutex.
reject_header(s) ==
    /\ at(s, "reject")
    /\ outbox' = to_stream(s, loop[s].fd, header)
    /\ goto(s, "reject body")
    /\ UNCHANGED <<log_vars, up, store_vars, fd_vars, mut, peer, inbox, session>>

reject_body(s) ==
    /\ at(s, "reject body")
    /\ outbox' = to_stream(s, loop[s].fd, NotLeader)
    /\ loop' = [loop EXCEPT ![s] = selecting]
    /\ UNCHANGED <<log_vars, up, store_vars, fd_vars, mut, peer, inbox, session>>

event_loop(s) ==
    \/ \E c \in Client : accept(s, c)
    \/ \E f \in Fd : disconnect(s, f) \/ receive(s, f) \/ body_did_not_come_at_once(s, f)
    \/ register(s) \/ replicate(s) \/ reject_header(s) \/ reject_body(s)
-----------------------------------------------------------------------------
(***************************************************************************)
(* Clients.                                                                *)
(***************************************************************************)
\* send_command; the client then waits in process_response.
send_command(c, cmd) ==
    LET x == session[c]
        l == [client |-> c, seqnum |-> x.request_id, tag |-> cmd.tag, key |-> cmd.key,
              arg2 |-> cmd.arg2, arg3 |-> cmd.arg3]
    IN  /\ x.request_id < MaxCalls
        /\ inbox' = [inbox EXCEPT ![x.server][x.fd] = Append(@, l)]
        /\ session' = [session EXCEPT ![c].state = "waiting", ![c].call = cmd,
                                      ![c].request_id = @ + 1]
        /\ UNCHANGED <<log_vars, up, store_vars, fd_vars, loop_vars, peer, outbox>>

at_work(c) == session[c].state \in {"idle", "waiting"}
connection(c) == <<session[c].server, session[c].fd>>
replies(c) == outbox[session[c].server][session[c].fd]

\* A call, or the interrupted one again.
call(c) ==
    /\ session[c].state = "idle"
    /\ peer[session[c].server][session[c].fd] = c
    /\ \E cmd \in IF session[c].retry THEN {session[c].call} ELSE Commands :
           send_command(c, cmd)

\* The client takes whatever response comes next for the answer to its call.
take_response(c) ==
    /\ session[c].state = "waiting"
    /\ replies(c) # <<>> /\ Head(replies(c)).kind = "response"
    /\ session' = [session EXCEPT ![c].state = "idle", ![c].retry = FALSE]
    /\ outbox' = [outbox EXCEPT ![session[c].server][session[c].fd] = Tail(@)]
    /\ UNCHANGED <<log_vars, up, store_vars, fd_vars, loop_vars, peer, inbox>>

\* NotLeader, a timeout, the end of the connection, or a reply that cannot be
\* parsed.  The old socket is closed some time later.
fail(c) ==
    /\ at_work(c)
    /\ session' = [session EXCEPT ![c].state = IF c \in Failover THEN "away" ELSE "done",
                                  ![c].server = nobody, ![c].fd = nobody,
                                  ![c].retry = @ \/ session[c].state = "waiting"]
    /\ UNCHANGED <<log_vars, up, store_vars, fd_vars, loop_vars, stream_vars>>

hang_up(s, f) ==
    /\ peer[s][f] # nobody /\ connection(peer[s][f]) # <<s, f>>
    /\ peer' = [peer EXCEPT ![s][f] = nobody]
    /\ outbox' = [outbox EXCEPT ![s][f] = <<>>]
    /\ UNCHANGED <<log_vars, up, store_vars, fd_vars, loop_vars, inbox, session>>
-----------------------------------------------------------------------------
Next ==
    \/ \E l \in proposed : commit(l)
    \/ \E s \in Server : lock(s) \/ committed_callback(s) \/ event_loop(s)
    \/ \E c \in Client : call(c) \/ take_response(c) \/ fail(c)
    \/ \E s \in Server, f \in Fd : hang_up(s, f)

Spec == Init /\ [][Next]_vars

\* Both threads of a server run: the event loop with a request it has read, a handler
\* with the entry it has.  That entries reach a server (lock) is not promised.
FairSpec ==
    /\ Spec
    /\ \A s \in Server :
        /\ WF_vars(committed_callback(s))
        /\ WF_vars(register(s)) /\ WF_vars(replicate(s))
        /\ WF_vars(reject_header(s)) /\ WF_vars(reject_body(s))
-----------------------------------------------------------------------------
responses(s, f) ==
    {outbox[s][f][i].of : i \in {j \in DOMAIN outbox[s][f] : outbox[s][f][j].kind = "response"}}

\* The entry at p is executed, not dropped for being older than one before it.
effective(p) ==
    \A q \in 1 .. p - 1 : log[q].client = log[p].client => log[q].seqnum < log[p].seqnum

\* Entry p calls one of the tags, for key k.
calls(p, k, tags) == effective(p) /\ log[p].key = k /\ log[p].tag \in tags

\* Compare-and-swap compares pointers: it does something where it expects no value
\* and finds none.
inserts(p, k) == calls(p, k, {"CAS"}) /\ log[p].arg3 = Dash

\* What the first p entries say of key k: the last PUT or DEL decides, and behind
\* a DEL the first that inserts.
writes(k, p) == {0} \cup {q \in 1 .. p : calls(q, k, {"PUT", "DEL"})}
last_write(k, p) == CHOOSE q \in writes(k, p) : \A r \in writes(k, p) : r <= q
behind(k, p) == {q \in last_write(k, p) + 1 .. p : inserts(q, k)}

first_behind(k, p) == CHOOSE q \in behind(k, p) : \A r \in behind(k, p) : q <= r

holds(k, p) ==
    LET w == last_write(k, p)
    IN  IF w # 0 /\ log[w].tag = "PUT" THEN log[w].arg2
        ELSE IF behind(k, p) = {} THEN Null
        ELSE log[first_behind(k, p)].arg2

\* Whatever servers and threads, failures and repeated requests: a store holds
\* what the log up to its last applied entry says, and a response tells what
\* the key held before and holds after its own entry of the log.
AnswersAreTrue ==
    /\ \A s \in Server, k \in Key : m_kvstore[s][k] = holds(k, applied[s])
    /\ \A s \in Server, f \in Fd : \A r \in responses(s, f) :
        \E p \in 1 .. Len(log) :
            /\ log[p].client = r.client /\ log[p].seqnum = r.seqnum /\ log[p].key = r.key
            /\ effective(p)
            /\ r.old_value = holds(r.key, p - 1) /\ r.value = holds(r.key, p)

\* Whoever had a descriptor before, what comes on a client's connection are responses
\* to its own requests only.  A client that had no session before gets the one to the
\* call it waits for.  One that fails over may first get those to earlier requests
\* of its own, and takes them for the answer (take_response).
AnswersAreForTheCall ==
    \A c \in Client : at_work(c) =>
        \A r \in responses(session[c].server, session[c].fd) :
            /\ r.client = c /\ r.seqnum < session[c].request_id
            /\ c \notin Failover =>
                   session[c].state = "waiting" /\ r.seqnum + 1 = session[c].request_id

\* The items behind item i of a stream that come before the text of a NotLeader.
before_text(o, i) == {j \in i + 1 .. Len(o) : \A m \in i + 1 .. j : o[m] # NotLeader}

\* The length and the text of a NotLeader are sent without the mutex.  The text
\* follows unless the event loop has yet to send it.  What gets between them is
\* nothing if the client had no session before; if it fails over, only responses to
\* requests it made before its last one: the rejected request is never answered.
FramesAreWhole ==
    \A c \in Client : at_work(c) =>
        LET o == replies(c) IN
        \A i \in DOMAIN o : o[i] = header =>
            /\ \/ \E j \in i + 1 .. Len(o) : o[j] = NotLeader
               \/ at(session[c].server, "reject body") /\ loop[session[c].server].fd = session[c].fd
            /\ \A j \in before_text(o, i) :
                /\ c \in Failover
                /\ o[j].kind = "response" /\ o[j].of.client = c
                /\ o[j].of.seqnum + 1 < session[c].request_id

\* A request that was read gets through replicate: the event loop and the
\* committer, which take the two locks in different orders, do not block each
\* other.
RequestsGetThrough ==
    \A s \in Server : loop[s].pc = "replicate" ~> loop[s].pc # "replicate" \/ ~up[s]
=============================================================================
