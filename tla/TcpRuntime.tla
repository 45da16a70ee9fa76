------------------------------ MODULE TcpRuntime ------------------------------
(***************************************************************************)
(* The TCP transport that ivy extracts with every server, seen from one    *)
(* server: the connections it opens to its peers (itself among them), the  *)
(* queue and the writer thread of each socket, and the incoming sockets.   *)
(*                                                                         *)
(* net_send runs under the lock of the server, and so does the callback    *)
(* that ends a connect.  The callback that reports a failed send does not: *)
(* its steps interleave with everything else.                              *)
(*                                                                         *)
(* Peers, descriptors and messages are numbers; the kernel hands out the   *)
(* least free descriptor.  A message is partly written, or not at all,     *)
(* when a send fails, and is then never read by the other side.            *)
(***************************************************************************)
EXTENDS Naturals, Sequences

CONSTANTS
    Peer,           \* the nodes
    Fd,             \* descriptors; a server that runs out of them exits
    no_peer,        \* the search of a callback found nobody
    MaxQueue,       \* MAX_TCP_SEND_QUEUE, 16 in the code
    \* Bounds of the exploration.
    MaxSends, MaxStreams, MaxAccepts

ASSUME PeersAssumption == Peer \subseteq Nat /\ no_peer \notin Peer
ASSUME FdsAssumption == Fd \subseteq Nat
ASSUME MaxQueueAssumption == MaxQueue \in Nat \ {0}

VARIABLES
    \* Under the server's lock: the state of the connection to each peer.
    isup, pend, sock,
    \* Descriptors: free, a connection this server opened, or an incoming one:
    \* being read, or at one of the steps that end it.
    fd,
    \* Per descriptor, once used for a connection: its queue and semaphore.
    queue, sem,
    \* Per descriptor, its writer thread: where it is, whom it connects to and
    \* the message it sends.
    pc, target, buf,
    \* Per descriptor, the peer that the failure callback of its writer, and of
    \* its reader, has found and not yet marked.
    found, found_by_reader,
    \* Every connection ever made: [to, data], data written and not yet read;
    \* via is the one a descriptor stands for.
    stream, via,
    received,           \* <<p, m>>: p read m
    sends, accepts,     \* counted for the bounds
    raced               \* a peer was connected again while a failure report was pending

proc_vars   == <<isup, pend, sock>>
queue_vars  == <<queue, sem>>
writer_vars == <<pc, target, buf, found, found_by_reader>>
wire_vars   == <<stream, via, received>>
env_vars    == <<sends, accepts, raced>>

vars == <<proc_vars, fd, queue_vars, writer_vars, wire_vars, env_vars>>
-----------------------------------------------------------------------------
(***************************************************************************)
(* tcp_queue.                                                              *)
(***************************************************************************)
no_msg == <<>>

\* A queue that was never made counts as closed.
no_queue == [made |-> FALSE, closed |-> TRUE, reported |-> TRUE, other |-> no_peer, bufs |-> <<>>]

\* Fault: the messages queued for the old connection stay.
set_closed_keeping(q, report) ==
    [q EXCEPT !.closed = TRUE, !.reported = @ \/ ~report]

set_closed(q, report) ==
    [q EXCEPT !.closed = TRUE, !.bufs = <<>>, !.reported = @ \/ ~report]

\* set_open, or the constructor when there was no queue yet.
set_open(q, other) ==
    [q EXCEPT !.made = TRUE, !.closed = FALSE, !.reported = FALSE, !.other = other]

\* A message that finds the queue full is dropped, and success is reported.
enqueue_swap(q, m) ==
    [q EXCEPT !.bufs = IF Len(@) < MaxQueue THEN Append(@, m) ELSE @]

up(k) == k + 1
-----------------------------------------------------------------------------
Init ==
    /\ isup = [p \in Peer |-> FALSE]
    /\ pend = [p \in Peer |-> FALSE]
    /\ sock = [p \in Peer |-> 0]
    /\ fd = [s \in Fd |-> "free"]
    /\ queue = [s \in Fd |-> no_queue]
    /\ sem = [s \in Fd |-> 0]
    /\ pc = [s \in Fd |-> "none"]
    /\ target = [s \in Fd |-> no_peer]
    /\ buf = [s \in Fd |-> no_msg]
    /\ found = [s \in Fd |-> no_peer]
    /\ found_by_reader = [s \in Fd |-> no_peer]
    /\ stream = <<>>
    /\ via = [s \in Fd |-> 0]
    /\ received = {}
    /\ sends = 0
    /\ accepts = 0
    /\ raced = FALSE
-----------------------------------------------------------------------------
(***************************************************************************)
(* The server: net.send, called for each peer by bcast and unicast.        *)
(***************************************************************************)
least_free(s) == fd[s] = "free" /\ \A t \in Fd : fd[t] = "free" => s <= t

\* A failure report is still to come that will hit the new connection s of p.
failing(p, s) ==
    \/ pc[s] \in {"finding", "clearing"}
    \/ p \in {found[t] : t \in Fd} \cup {found_by_reader[t] : t \in Fd}

\* Fault: opening a queue again does not wake its writer.
connect_silently(p, queues, sems) ==
    \E s \in Fd :
        /\ least_free(s)
        /\ fd' = [fd EXCEPT ![s] = "writer"]
        /\ queue' = [queues EXCEPT ![s] = set_open(@, p)]
        /\ sem' = sems
        /\ pc' = [pc EXCEPT ![s] = IF queue[s].made THEN @ ELSE "check"]
        /\ sock' = [sock EXCEPT ![p] = s]
        /\ pend' = [pend EXCEPT ![p] = TRUE]
        /\ raced' = (raced \/ failing(p, s))

\* tcp.connect: a new socket, its queue and, the first time, its writer thread.
\* queues and sems are the queues as the caller leaves them.
connect(p, queues, sems) ==
    \E s \in Fd :
        /\ least_free(s)
        /\ fd' = [fd EXCEPT ![s] = "writer"]
        /\ queue' = [queues EXCEPT ![s] = set_open(@, p)]
        /\ sem' = [sems EXCEPT ![s] = IF queue[s].made THEN up(@) ELSE @]
        /\ pc' = [pc EXCEPT ![s] = IF queue[s].made THEN @ ELSE "check"]
        /\ sock' = [sock EXCEPT ![p] = s]
        /\ pend' = [pend EXCEPT ![p] = TRUE]
        /\ raced' = (raced \/ failing(p, s))

\* No connection yet: open one; the message is dropped.
send_down(p) ==
    /\ ~isup[p] /\ ~pend[p]
    /\ connect(p, queue, sem)
    /\ UNCHANGED isup

\* A connection is under way: the message is dropped.
send_pending(p) ==
    /\ ~isup[p] /\ pend[p]
    /\ UNCHANGED <<proc_vars, fd, queue_vars, pc, raced>>

send_up(p, m) ==
    LET s == sock[p]
    IN  /\ isup[p]
        /\ ~queue[s].closed
        /\ queue' = [queue EXCEPT ![s] = enqueue_swap(@, m)]
        /\ sem' = [sem EXCEPT ![s] = up(@)]
        /\ UNCHANGED <<proc_vars, fd, pc, raced>>

\* The writer has closed the queue and its failure callback is still to come:
\* tcp.close, whose shutdown at most hurts an incoming connection that got the
\* descriptor, and a new connection.
send_failed(p) ==
    LET s == sock[p]
    IN  /\ isup[p]
        /\ queue[s].closed
        /\ connect(p, [queue EXCEPT ![s] = set_closed(@, TRUE)], [sem EXCEPT ![s] = up(@)])
        /\ isup' = [isup EXCEPT ![p] = FALSE]

net_send(p) ==
    /\ sends < MaxSends
    /\ sends' = sends + 1
    /\ send_down(p) \/ send_pending(p) \/ send_up(p, <<sends', p>>) \/ send_failed(p)
    /\ UNCHANGED <<target, buf, found, found_by_reader, wire_vars, accepts>>
-----------------------------------------------------------------------------
(***************************************************************************)
(* The callbacks.  Each looks for a peer that uses the socket; of several  *)
(* the loop finds the last.                                                *)
(***************************************************************************)
last(P) == IF P = {} THEN no_peer ELSE CHOOSE p \in P : \A q \in P : q <= p

user(s) == last({p \in Peer : (isup[p] \/ pend[p]) /\ sock[p] = s})
waiting(s) == last({p \in Peer : pend[p] /\ sock[p] = s})

set(f, p, v) == [q \in Peer |-> IF q = p THEN v ELSE f[q]]

net_tcp_connected(s) ==
    /\ pend' = set(pend, waiting(s), FALSE)
    /\ isup' = set(isup, waiting(s), TRUE)
    /\ UNCHANGED sock

net_tcp_failed(p) ==
    /\ isup' = set(isup, p, FALSE)
    /\ pend' = set(pend, p, FALSE)
    /\ UNCHANGED sock
-----------------------------------------------------------------------------
(***************************************************************************)
(* tcp_writer: its thread calls read in a loop.                            *)
(***************************************************************************)
goto(s, l) == pc' = [pc EXCEPT ![s] = l]

\* wait_open, and the address of the peer to connect to.
wait_open(s) ==
    /\ pc[s] = "check"
    /\ IF queue[s].closed
       THEN goto(s, "asleep") /\ UNCHANGED target
       ELSE goto(s, "dialing") /\ target' = [target EXCEPT ![s] = queue[s].other]
    /\ UNCHANGED <<proc_vars, fd, queue_vars, buf, found, found_by_reader, wire_vars, env_vars>>

\* sem.down, in wait_open and in dequeue_swap.
down(s) ==
    /\ \/ pc[s] = "asleep" /\ goto(s, "check")
       \/ pc[s] = "idle" /\ goto(s, "take")
    /\ sem[s] > 0
    /\ sem' = [sem EXCEPT ![s] = @ - 1]
    /\ UNCHANGED <<proc_vars, fd, queue, target, buf, found, found_by_reader, wire_vars, env_vars>>

connected(s) ==
    /\ pc[s] = "dialing"
    /\ Len(stream) < MaxStreams
    /\ stream' = Append(stream, [to |-> target[s], data |-> <<>>])
    /\ via' = [via EXCEPT ![s] = Len(stream')]
    /\ net_tcp_connected(s)
    /\ goto(s, "idle")
    /\ UNCHANGED <<fd, queue_vars, target, buf, found, found_by_reader, received, env_vars>>

\* fail_close under the lock of the server.
refused(s) ==
    /\ pc[s] = "dialing"
    /\ queue' = [queue EXCEPT ![s] = set_closed(@, FALSE)]
    /\ sem' = [sem EXCEPT ![s] = up(@)]
    /\ fd' = [fd EXCEPT ![s] = "free"]
    /\ net_tcp_failed(user(s))
    /\ goto(s, "check")
    /\ UNCHANGED <<target, buf, found, found_by_reader, wire_vars, env_vars>>

\* The rest of dequeue_swap, once it holds the queue's mutex.
dequeue_swap(s) ==
    /\ pc[s] = "take"
    /\ \/ /\ queue[s].bufs # <<>>
          /\ buf' = [buf EXCEPT ![s] = Head(queue[s].bufs)]
          /\ queue' = [queue EXCEPT ![s].bufs = Tail(@)]
          /\ goto(s, "send")
       \/ /\ queue[s].bufs = <<>>
          /\ queue' = [queue EXCEPT ![s].reported = @ \/ queue[s].closed]
          /\ goto(s, IF queue[s].closed /\ ~queue[s].reported THEN "shutting" ELSE "idle")
          /\ UNCHANGED buf
    /\ UNCHANGED <<proc_vars, fd, sem, target, found, found_by_reader, wire_vars, env_vars>>

send(s) ==
    /\ pc[s] = "send"
    /\ stream' = [stream EXCEPT ![via[s]].data = Append(@, buf[s])]
    /\ buf' = [buf EXCEPT ![s] = no_msg]
    /\ goto(s, "idle")
    /\ UNCHANGED <<proc_vars, fd, queue_vars, target, found, found_by_reader, via, received, env_vars>>

\* Fault: the queue stays open.
fail_open(s) ==
    /\ pc[s] = "send"
    /\ buf' = [buf EXCEPT ![s] = no_msg]
    /\ goto(s, "closing")
    /\ UNCHANGED <<proc_vars, fd, queue_vars, target, found, found_by_reader, wire_vars, env_vars>>

\* A send that fails, and the first step of fail_close without the lock.
fail_close(s) ==
    /\ pc[s] = "send"
    /\ buf' = [buf EXCEPT ![s] = no_msg]
    /\ queue' = [queue EXCEPT ![s] = set_closed(@, FALSE)]
    /\ sem' = [sem EXCEPT ![s] = up(@)]
    /\ goto(s, "closing")
    /\ UNCHANGED <<proc_vars, fd, target, found, found_by_reader, wire_vars, env_vars>>

\* close, of fail_close or after an asynchronous close of the queue.
close(s) ==
    /\ pc[s] \in {"closing", "shutting"}
    /\ fd' = [fd EXCEPT ![s] = "free"]
    /\ goto(s, IF pc[s] = "closing" THEN "finding" ELSE "check")
    /\ UNCHANGED <<proc_vars, queue_vars, target, buf, found, found_by_reader, wire_vars, env_vars>>

\* The failed callback of fail_close finds the peer and then marks it.
find_failed(s) ==
    /\ pc[s] = "finding"
    /\ found' = [found EXCEPT ![s] = user(s)]
    /\ goto(s, "clearing")
    /\ UNCHANGED <<proc_vars, fd, queue_vars, target, buf, found_by_reader, wire_vars, env_vars>>

mark_failed(s) ==
    /\ pc[s] = "clearing"
    /\ net_tcp_failed(found[s])
    /\ goto(s, "check")
    /\ found' = [found EXCEPT ![s] = no_peer]
    /\ UNCHANGED <<fd, queue_vars, target, buf, found_by_reader, wire_vars, env_vars>>

tcp_writer(s) ==
    \/ wait_open(s) \/ down(s) \/ connected(s) \/ refused(s) \/ dequeue_swap(s)
    \/ send(s) \/ fail_close(s) \/ close(s) \/ find_failed(s) \/ mark_failed(s)
-----------------------------------------------------------------------------
(***************************************************************************)
(* tcp_listener and tcp_reader.                                            *)
(***************************************************************************)

\* An incoming connection.  The accept callback does nothing.
accept(s) ==
    /\ accepts < MaxAccepts
    /\ accepts' = accepts + 1
    /\ least_free(s)
    /\ fd' = [fd EXCEPT ![s] = "reader"]
    /\ UNCHANGED <<proc_vars, queue_vars, writer_vars, wire_vars, sends, raced>>

\* The end of an incoming connection: the failed callback, without the lock,
\* finds the peer and marks it; then the socket is closed.
end_of_file(s) ==
    /\ \/ /\ fd[s] = "reader"
          /\ fd' = [fd EXCEPT ![s] = "marking"]
          /\ found_by_reader' = [found_by_reader EXCEPT ![s] = user(s)]
          /\ UNCHANGED proc_vars
       \/ /\ fd[s] = "marking"
          /\ fd' = [fd EXCEPT ![s] = "ending"]
          /\ found_by_reader' = [found_by_reader EXCEPT ![s] = no_peer]
          /\ net_tcp_failed(found_by_reader[s])
       \/ /\ fd[s] = "ending"
          /\ fd' = [fd EXCEPT ![s] = "free"]
          /\ UNCHANGED <<proc_vars, found_by_reader>>
    /\ UNCHANGED <<queue_vars, pc, target, buf, found, wire_vars, env_vars>>

\* The reader of the peer at the other end of a connection of this server.
read(k) ==
    /\ stream[k].data # <<>>
    /\ received' = received \cup {<<stream[k].to, Head(stream[k].data)>>}
    /\ stream' = [stream EXCEPT ![k].data = Tail(@)]
    /\ UNCHANGED <<proc_vars, fd, queue_vars, writer_vars, via, env_vars>>

Next ==
    \/ \E p \in Peer : net_send(p)
    \/ \E s \in Fd : tcp_writer(s) \/ accept(s) \/ end_of_file(s)
    \/ \E k \in DOMAIN stream : read(k)

Spec == Init /\ [][Next]_vars

\* Threads run: a writer that can take a step does, connects come to an end.
FairSpec == Spec /\ \A s \in Fd : WF_vars(tcp_writer(s))
-----------------------------------------------------------------------------
Place == {"none", "check", "asleep", "dialing", "idle", "take", "send",
          "closing", "shutting", "finding", "clearing"}
Message == Nat \X Peer
Queue == [made : BOOLEAN, closed : BOOLEAN, reported : BOOLEAN,
          other : Peer \cup {no_peer}, bufs : Seq(Message)]

\* Writer threads never sleep through work: when a queue is open and its
\* writer blocks on the semaphore, either to be opened or with messages
\* queued, the semaphore lets it through.  enqueue_swap, set_open and
\* wait_open all up and down the same counter.
NoLostWakeup ==
    \A s \in Fd :
        /\ ~queue[s].closed
        /\ pc[s] = "asleep" \/ (pc[s] = "idle" /\ queue[s].bufs # <<>>)
        => sem[s] > 0

\* "If a socket is open there is a reader thread or an open writer thread, but
\* not both" and "if socket is closed, queue is closed": the writer of s works
\* with its queue open and closes a descriptor that is still its own, although
\* descriptors are reused as soon as they are closed.
ThreadsOwnTheirSockets ==
    \A s \in Fd :
        /\ queue[s].closed \/ fd[s] = "writer"
        /\ pc[s] \in {"dialing", "idle", "take", "send"} => ~queue[s].closed
        /\ pc[s] \in {"closing", "shutting"} => fd[s] = "writer" /\ queue[s].closed
        /\ fd[s] = "writer" => pc[s] = "closing" \/ ~queue[s].closed

\* Unless a failure report came late, whoever reads a message is its addressee.
DeliveredUnlessRaced == ~raced => \A r \in received : r[1] = r[2][2]

\* What the network service states: a message is received by the node it was
\* sent to.  It fails: the late report of one peer's failed connection can hit
\* another peer that was given the same descriptor.
DeliveredToAddressee == \A r \in received : r[1] = r[2][2]

\* A connect comes to an end: no peer stays pending for ever, in spite of
\* reports of failures that hit the wrong connection.
PendingEnds == \A p \in Peer : pend[p] ~> ~pend[p]
=============================================================================
