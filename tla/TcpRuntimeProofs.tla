--------------------------- MODULE TcpRuntimeProofs ---------------------------
(***************************************************************************)
(* Proofs about TcpRuntime, for any peers, descriptors, queue length and   *)
(* bounds: the threads own the sockets they use and never sleep through    *)
(* work, and unless a failure report comes late every message is read by   *)
(* its addressee, in spite of descriptors that are reused and callbacks    *)
(* that run without the lock.                                              *)
(* Then about the bytes of a connection, for any messages, width of words  *)
(* and limits of read(): the reader delivers what was sent, all of it.     *)
(***************************************************************************)
EXTENDS TcpRuntime, Integers, TLAPS, SequenceTheorems, WellFoundedInduction

\* The types that the argument needs.
Types ==
    /\ queue \in [Fd -> Queue]
    /\ sem \in [Fd -> Nat]
    /\ pc \in [Fd -> Place]
    /\ fd \in [Fd -> {"free", "writer", "reader", "marking", "ending"}]
    /\ sends \in Nat

\* The place l of a writer, its queue q and its descriptor's state d agree.
OwnsAt(q, l, d) ==
    /\ q.closed \/ d = "writer"
    /\ l \in {"dialing", "idle", "take", "send"} => ~q.closed
    /\ l = "closing" => d = "writer" /\ q.closed
    /\ d = "writer" => l = "closing" \/ ~q.closed
    /\ l # "shutting"
    /\ q.made <=> l # "none"

\* The semaphore n counts at least the messages, one more for a writer that
\* waits to be opened, one less for a writer that took its turn.
CountsAt(q, n, l) ==
    /\ q.closed => q.bufs = <<>>
    /\ ~q.closed =>
        /\ l = "asleep" => n >= Len(q.bufs) + 1
        /\ l = "take" => n + 1 >= Len(q.bufs)
        /\ l # "take" => n >= Len(q.bufs)

Owns(s) == OwnsAt(queue[s], pc[s], fd[s])
Counts(s) == CountsAt(queue[s], sem[s], pc[s])

IInv == Types /\ \A s \in Fd : Owns(s) /\ Counts(s)

\* Initially every descriptor is free and no queue was made.
LEMMA InitIInv == Init => IInv
  BY SMT DEF Init, IInv, Types, Owns, OwnsAt, Counts, CountsAt, Queue, Place, Message, no_queue

\* What closing and opening do to a queue.
LEMMA SetClosed ==
  ASSUME NEW q \in Queue, NEW report
  PROVE  /\ set_closed(q, report) \in Queue
         /\ set_closed(q, report).closed
         /\ set_closed(q, report).bufs = <<>>
         /\ set_closed(q, report).made = q.made
<1>1. <<>> \in Seq(Message)
  OBVIOUS
<1> QED
  BY <1>1 DEF set_closed, Queue

LEMMA SetOpen ==
  ASSUME NEW q \in Queue, NEW other \in Peer
  PROVE  /\ set_open(q, other) \in Queue
         /\ ~set_open(q, other).closed
         /\ set_open(q, other).bufs = q.bufs
         /\ set_open(q, other).made
  BY DEF set_open, Queue

LEMMA EnqueueSwap ==
  ASSUME NEW q \in Queue, NEW m \in Message
  PROVE  /\ enqueue_swap(q, m) \in Queue
         /\ Len(enqueue_swap(q, m).bufs) <= Len(q.bufs) + 1
         /\ enqueue_swap(q, m).closed = q.closed
         /\ enqueue_swap(q, m).made = q.made
<1>1. PICK b : b = IF Len(q.bufs) < MaxQueue THEN Append(q.bufs, m) ELSE q.bufs
  OBVIOUS
<1>2. q.bufs \in Seq(Message)
  BY DEF Queue
<1>3. b \in Seq(Message) /\ Len(b) <= Len(q.bufs) + 1
  BY <1>1, <1>2, MaxQueueAssumption
<1>4. enqueue_swap(q, m) = [q EXCEPT !.bufs = b]
  BY <1>1 DEF enqueue_swap
<1>5. [q EXCEPT !.bufs = b].bufs = b
  BY DEF Queue
<1> QED
  BY <1>3, <1>4, <1>5 DEF Queue

\* connect opens the queue of a free descriptor; the queues it is given are
\* those of the state but for the closed one the caller closes again.
LEMMA ConnectIInv ==
  ASSUME IInv, NEW p \in Peer, NEW queues, NEW sems,
         queues \in [Fd -> Queue], sems \in [Fd -> Nat],
         \A s \in Fd : \/ queues[s] = queue[s]
                       \/ queue[s].closed /\ queues[s] = set_closed(queue[s], TRUE),
         \A s \in Fd : sems[s] >= sem[s],
         connect(p, queues, sems), sends' \in Nat
  PROVE  IInv'
<1> USE DEF IInv
<1>1. PICK s \in Fd :
        /\ fd[s] = "free"
        /\ fd' = [fd EXCEPT ![s] = "writer"]
        /\ queue' = [queues EXCEPT ![s] = set_open(@, p)]
        /\ sem' = [sems EXCEPT ![s] = IF queue[s].made THEN up(@) ELSE @]
        /\ pc' = [pc EXCEPT ![s] = IF queue[s].made THEN @ ELSE "check"]
  BY DEF connect, least_free
<1>2. Types'
  <2>1. queue' \in [Fd -> Queue]
    BY <1>1, SetOpen
  <2>2. sem' \in [Fd -> Nat]
    BY <1>1 DEF up
  <2>3. pc' \in [Fd -> Place]
    BY <1>1 DEF Types, Place
  <2>4. fd' \in [Fd -> {"free", "writer", "reader", "marking", "ending"}]
    BY <1>1 DEF Types
  <2> QED
    BY <2>1, <2>2, <2>3, <2>4 DEF Types
<1>3. ASSUME NEW t \in Fd PROVE Owns(t)' /\ Counts(t)'
  <2>1. CASE t = s
    <3>1. queue[s].closed /\ queues[s].bufs = <<>> /\ queues[s].made = queue[s].made
      <4>1. queue[s] \in Queue /\ queue[s].closed
        BY <1>1 DEF Types, Owns, OwnsAt
      <4>2. queue[s].bufs = <<>>
        BY <4>1 DEF Counts, CountsAt
      <4>3. queues[s] = queue[s] \/ queues[s] = set_closed(queue[s], TRUE)
        OBVIOUS
      <4>4. /\ set_closed(queue[s], TRUE).bufs = <<>>
            /\ set_closed(queue[s], TRUE).made = queue[s].made
        BY <4>1, SetClosed, Zenon
      <4> QED
        BY <4>1, <4>2, <4>3, <4>4
    <3>2. queue[s].made => sems[s] + 1 = sem'[s]
      BY <1>1 DEF Types, up
    <3>3. queue'[s].bufs = <<>> /\ ~queue'[s].closed /\ queue'[s].made
      BY <3>1, <1>1, SetOpen DEF Types
    <3>4. fd'[s] = "writer" /\ pc'[s] = IF queue[s].made THEN pc[s] ELSE "check"
      BY <1>1 DEF Types
    <3>5. Len(queue'[s].bufs) = 0 /\ sem'[s] \in Nat /\ sems[s] \in Nat
      BY <1>2, <3>3 DEF Types
    <3>6. Owns(s)'
      <4>1. Owns(s) /\ fd[s] = "free" /\ pc[s] # "shutting"
        BY <1>1 DEF Owns, OwnsAt
      <4> QED
        BY <4>1, <3>1, <3>3, <3>4 DEF Owns, OwnsAt
    <3>7. Counts(s)'
      BY <3>1, <3>2, <3>3, <3>4, <3>5 DEF Owns, OwnsAt, Counts, CountsAt
    <3> QED
      BY <2>1, <3>6, <3>7
  <2>2. CASE t # s
    <3>1. fd'[t] = fd[t] /\ pc'[t] = pc[t] /\ queue'[t] = queues[t] /\ sem'[t] = sems[t]
      BY <1>1, <2>2 DEF Types
    <3>2. CASE queues[t] = queue[t]
      <4>1. Len(queue[t].bufs) \in Nat /\ sem[t] \in Nat /\ sems[t] \in Nat
        BY DEF Types, Queue
      <4> QED
        BY <4>1, <3>1, <3>2 DEF Owns, OwnsAt, Counts, CountsAt
    <3>3. CASE queue[t].closed /\ queues[t] = set_closed(queue[t], TRUE)
      <4>1. /\ set_closed(queue[t], TRUE).closed
            /\ set_closed(queue[t], TRUE).bufs = <<>>
            /\ set_closed(queue[t], TRUE).made = queue[t].made
        BY SetClosed, Zenon DEF Types
      <4>2. /\ queue'[t].closed /\ queue'[t].bufs = <<>>
            /\ queue'[t].made = queue[t].made
        BY <3>1, <3>3, <4>1
      <4> QED
        BY <3>1, <3>3, <4>2 DEF Owns, OwnsAt, Counts, CountsAt
    <3> QED
      BY <3>2, <3>3
  <2> QED
    BY <2>1, <2>2
<1> QED
  BY <1>2, <1>3

LEMMA SendIInv ==
  ASSUME IInv, NEW p \in Peer, net_send(p)
  PROVE  IInv'
<1> sends' \in Nat
  BY DEF IInv, Types, net_send
<1>1. CASE send_down(p)
  <2>1. PICK queues, sems : queues = queue /\ sems = sem /\ connect(p, queues, sems)
    BY <1>1 DEF send_down
  <2>2. queues \in [Fd -> Queue] /\ sems \in [Fd -> Nat]
    BY <2>1 DEF IInv, Types
  <2>3. \A s \in Fd : sems[s] >= sem[s]
    BY <2>1, <2>2
  <2> QED
    BY <2>1, <2>2, <2>3, ConnectIInv
<1>2. CASE send_pending(p)
  BY <1>2 DEF send_pending, IInv, Types, Owns, OwnsAt, Counts, CountsAt, queue_vars
<1>3. CASE send_up(p, <<sends', p>>)
  <2>1. PICK s, m :
          /\ s = sock[p] /\ m = <<sends', p>>
          /\ ~queue[s].closed
          /\ queue' = [queue EXCEPT ![s] = enqueue_swap(@, m)]
          /\ sem' = [sem EXCEPT ![s] = up(@)]
          /\ pc' = pc /\ fd' = fd
    BY <1>3 DEF send_up
  <2>2. m \in Message
    BY <2>1 DEF Message
  <2>3. Types'
    <3>1. \A q \in Queue : enqueue_swap(q, m) \in Queue
      BY <2>2, EnqueueSwap
    <3>2. queue' \in [Fd -> Queue]
      BY <2>1, <3>1 DEF IInv, Types
    <3>3. \A k \in Nat : up(k) \in Nat
      BY DEF up
    <3>4. sem' \in [Fd -> Nat]
      BY <2>1, <3>3 DEF IInv, Types
    <3> QED
      BY <2>1, <3>2, <3>4 DEF IInv, Types
  <2>4. ASSUME NEW t \in Fd PROVE Owns(t)' /\ Counts(t)'
    <3>1. CASE t = s
      <4>1. queue'[t] = enqueue_swap(queue[t], m) /\ sem'[t] = sem[t] + 1
        BY <2>1, <3>1 DEF IInv, Types, up
      <4>2. /\ queue[t] \in Queue /\ sem[t] \in Nat
            /\ Len(queue[t].bufs) \in Nat /\ Len(queue'[t].bufs) \in Nat
        BY <2>3 DEF IInv, Types, Queue
      <4>3. /\ Len(queue'[t].bufs) <= Len(queue[t].bufs) + 1
            /\ queue'[t].closed = queue[t].closed
            /\ queue'[t].made = queue[t].made
        <5>1. PICK q : q = queue[t] /\ q \in Queue
          BY <4>2
        <5>2. /\ Len(enqueue_swap(q, m).bufs) <= Len(q.bufs) + 1
              /\ enqueue_swap(q, m).closed = q.closed
              /\ enqueue_swap(q, m).made = q.made
          BY <5>1, <2>2, EnqueueSwap, Zenon
        <5> QED
          BY <4>1, <5>1, <5>2, Zenon
      <4>4. Owns(t) /\ Counts(t) /\ ~queue[t].closed
        BY <2>1, <3>1 DEF IInv
      <4>5. Owns(t)'
        BY <4>3, <4>4, <2>1 DEF Owns, OwnsAt
      <4>6. sem'[t] >= Len(queue'[t].bufs) \/ pc[t] = "take"
        BY <4>1, <4>2, <4>3, <4>4 DEF Counts, CountsAt
      <4>7. pc[t] = "asleep" => sem'[t] >= Len(queue'[t].bufs) + 1
        BY <4>1, <4>2, <4>3, <4>4 DEF Counts, CountsAt
      <4>8. pc[t] = "take" => sem'[t] + 1 >= Len(queue'[t].bufs)
        BY <4>1, <4>2, <4>3, <4>4 DEF Counts, CountsAt
      <4>9. Counts(t)'
        BY <4>3, <4>4, <4>6, <4>7, <4>8, <2>1 DEF Counts, CountsAt
      <4> QED
        BY <4>5, <4>9
    <3>2. CASE t # s
      BY <3>2, <2>1 DEF IInv, Types, Owns, Counts
    <3> QED
      BY <3>1, <3>2
  <2> QED
    BY <2>3, <2>4 DEF IInv
<1>4. CASE send_failed(p)
  <2>1. PICK s, queues, sems :
          /\ s = sock[p]
          /\ queues = [queue EXCEPT ![s] = set_closed(@, TRUE)]
          /\ sems = [sem EXCEPT ![s] = up(@)]
          /\ queue[s].closed
          /\ connect(p, queues, sems)
    BY <1>4 DEF send_failed
  <2>2. queues \in [Fd -> Queue] /\ sems \in [Fd -> Nat]
    <3>1. \A q \in Queue : set_closed(q, TRUE) \in Queue
      BY SetClosed, Zenon
    <3>2. \A k \in Nat : up(k) \in Nat
      BY DEF up
    <3> QED
      BY <2>1, <3>1, <3>2 DEF IInv, Types
  <2>3. \A t \in Fd : \/ queues[t] = queue[t]
                      \/ queue[t].closed /\ queues[t] = set_closed(queue[t], TRUE)
    BY <2>1 DEF IInv, Types
  <2>4. \A t \in Fd : sems[t] >= sem[t]
    BY <2>1 DEF IInv, Types, up
  <2> QED
    BY <2>1, <2>2, <2>3, <2>4, ConnectIInv
<1> QED
  BY <1>1, <1>2, <1>3, <1>4 DEF net_send

\* A step of the writer of s, given by the new values for s.
LEMMA StepIInv ==
  ASSUME IInv, NEW s \in Fd, NEW q \in Queue, NEW n \in Nat, NEW l \in Place,
         NEW d \in {"free", "writer", "reader", "marking", "ending"},
         queue' = [queue EXCEPT ![s] = q], sem' = [sem EXCEPT ![s] = n],
         pc' = [pc EXCEPT ![s] = l], fd' = [fd EXCEPT ![s] = d], sends' = sends,
         OwnsAt(q, l, d), CountsAt(q, n, l)
  PROVE  IInv'
<1>1. Types'
  BY DEF IInv, Types
<1>2. ASSUME NEW t \in Fd PROVE Owns(t)' /\ Counts(t)'
  <2>1. CASE t = s
    BY <2>1 DEF IInv, Types, Owns, Counts
  <2>2. CASE t # s
    BY <2>2 DEF IInv, Types, Owns, Counts
  <2> QED
    BY <2>1, <2>2
<1> QED
  BY <1>1, <1>2 DEF IInv

\* The same, when neither the queue nor the semaphore changes.
LEMMA MoveIInv ==
  ASSUME IInv, NEW s \in Fd, NEW l \in Place,
         NEW d \in {"free", "writer", "reader", "marking", "ending"},
         queue' = queue, sem' = sem, sends' = sends,
         pc' = [pc EXCEPT ![s] = l], fd' = [fd EXCEPT ![s] = d],
         OwnsAt(queue[s], l, d), CountsAt(queue[s], sem[s], l)
  PROVE  IInv'
<1>1. PICK q, n : q = queue[s] /\ n = sem[s]
  OBVIOUS
<1>2. q \in Queue /\ n \in Nat
  BY <1>1 DEF IInv, Types
<1>3. queue' = [queue EXCEPT ![s] = q] /\ sem' = [sem EXCEPT ![s] = n]
  BY <1>1 DEF IInv, Types
<1> QED
  BY <1>1, <1>2, <1>3, StepIInv

\* Closing a queue and waking its writer, on the way to place l.
LEMMA CloseIInv ==
  ASSUME IInv, NEW s \in Fd, NEW l \in {"check", "closing"},
         NEW d \in {"free", "writer"}, l = "closing" <=> d = "writer",
         pc[s] # "none",
         queue' = [queue EXCEPT ![s] = set_closed(@, FALSE)],
         sem' = [sem EXCEPT ![s] = up(@)], sends' = sends,
         pc' = [pc EXCEPT ![s] = l], fd' = [fd EXCEPT ![s] = d]
  PROVE  IInv'
<1>1. PICK q, n : q = set_closed(queue[s], FALSE) /\ n = sem[s] + 1
  OBVIOUS
<1>2. queue[s] \in Queue /\ n \in Nat /\ l \in Place
  BY <1>1 DEF IInv, Types, Place
<1>3. /\ q \in Queue /\ q.closed /\ q.bufs = <<>> /\ q.made = queue[s].made
  BY <1>1, <1>2, SetClosed, Zenon
<1>4. queue[s].made
  BY DEF IInv, Owns, OwnsAt
<1>5. OwnsAt(q, l, d) /\ CountsAt(q, n, l)
  BY <1>3, <1>4 DEF OwnsAt, CountsAt
<1>6. queue' = [queue EXCEPT ![s] = q] /\ sem' = [sem EXCEPT ![s] = n]
  BY <1>1 DEF IInv, Types, up
<1> QED
  BY <1>2, <1>3, <1>5, <1>6, StepIInv

\* The steps of a writer thread.
LEMMA WriterIInv ==
  ASSUME IInv, NEW s \in Fd, tcp_writer(s)
  PROVE  IInv'
<1> queue[s] \in Queue /\ sem[s] \in Nat /\ Len(queue[s].bufs) \in Nat
  BY DEF IInv, Types, Queue
<1>0. Owns(s) /\ Counts(s) /\ fd = [fd EXCEPT ![s] = fd[s]]
      /\ fd[s] \in {"free", "writer", "reader", "marking", "ending"}
  BY DEF IInv, Types
<1>1. CASE wait_open(s)
  <2>1. PICK l \in Place :
          /\ l = IF queue[s].closed THEN "asleep" ELSE "dialing"
          /\ pc[s] = "check"
          /\ pc' = [pc EXCEPT ![s] = l]
          /\ fd' = fd /\ queue' = queue /\ sem' = sem /\ sends' = sends
    BY <1>1 DEF wait_open, goto, queue_vars, env_vars, Place
  <2>2. OwnsAt(queue[s], l, fd[s]) /\ CountsAt(queue[s], sem[s], l)
    BY <1>0, <2>1 DEF Owns, OwnsAt, Counts, CountsAt
  <2> QED
    BY <1>0, <2>1, <2>2, MoveIInv
<1>2. CASE down(s)
  <2>0. sem[s] - 1 \in Nat
    BY <1>2 DEF down
  <2>1. PICK l \in Place, n \in Nat :
          /\ n = sem[s] - 1 /\ sem[s] > 0
          /\ \/ pc[s] = "asleep" /\ l = "check"
             \/ pc[s] = "idle" /\ l = "take"
          /\ pc' = [pc EXCEPT ![s] = l]
          /\ sem' = [sem EXCEPT ![s] = n]
          /\ fd' = fd /\ queue' = queue /\ sends' = sends
    BY <1>2, <2>0 DEF down, goto, env_vars, Place
  <2>2. PICK q : q = queue[s]
    OBVIOUS
  <2>3. OwnsAt(q, l, fd[s]) /\ CountsAt(q, n, l)
    BY <1>0, <2>1, <2>2 DEF Owns, OwnsAt, Counts, CountsAt
  <2>4. queue' = [queue EXCEPT ![s] = q]
    BY <2>1, <2>2 DEF IInv, Types
  <2> QED
    BY <1>0, <2>1, <2>2, <2>3, <2>4, StepIInv
<1>3. CASE connected(s)
  <2>1. /\ pc[s] = "dialing" /\ pc' = [pc EXCEPT ![s] = "idle"]
        /\ fd' = fd /\ queue' = queue /\ sem' = sem /\ sends' = sends
    BY <1>3 DEF connected, goto, queue_vars, env_vars
  <2>2. OwnsAt(queue[s], "idle", fd[s]) /\ CountsAt(queue[s], sem[s], "idle")
    BY <1>0, <2>1 DEF Owns, OwnsAt, Counts, CountsAt
  <2>3. "idle" \in Place
    BY DEF Place
  <2> QED
    BY <1>0, <2>1, <2>2, <2>3, MoveIInv
<1>4. CASE refused(s)
  BY <1>4, CloseIInv DEF refused, goto, env_vars
<1>5. CASE dequeue_swap(s)
  <2>1. pc[s] = "take" /\ ~queue[s].closed /\ fd' = fd /\ sem' = sem /\ sends' = sends
    BY <1>0, <1>5 DEF dequeue_swap, env_vars, Owns, OwnsAt
  <2>2. CASE queue[s].bufs # <<>> /\ queue' = [queue EXCEPT ![s].bufs = Tail(@)]
             /\ pc' = [pc EXCEPT ![s] = "send"]
    <3>1. PICK q, b, n : /\ q = [queue[s] EXCEPT !.bufs = Tail(@)]
                         /\ b = Tail(queue[s].bufs) /\ n = sem[s]
      OBVIOUS
    <3>2. b \in Seq(Message) /\ Len(b) = Len(queue[s].bufs) - 1 /\ n \in Nat
      BY <2>2, <3>1 DEF Queue
    <3>3. q \in Queue /\ q.bufs = b /\ q.closed = queue[s].closed /\ q.made = queue[s].made
      BY <3>1, <3>2 DEF Queue
    <3>4. OwnsAt(q, "send", fd[s])
      BY <1>0, <2>1, <3>3 DEF Owns, OwnsAt
    <3>5. CountsAt(q, n, "send")
      BY <1>0, <2>1, <3>1, <3>2, <3>3 DEF Counts, CountsAt
    <3>6. queue' = [queue EXCEPT ![s] = q]
      BY <2>2, <3>1
    <3>7. sem' = [sem EXCEPT ![s] = n] /\ "send" \in Place /\ fd' = [fd EXCEPT ![s] = fd[s]]
      BY <1>0, <2>1, <3>1 DEF IInv, Types, Place
    <3>8. pc' = [pc EXCEPT ![s] = "send"] /\ sends' = sends
      BY <2>1, <2>2
    <3> QED
      BY <1>0, <3>2, <3>3, <3>4, <3>5, <3>6, <3>7, <3>8, StepIInv
  <2>3. CASE queue' = [queue EXCEPT ![s].reported = @ \/ queue[s].closed]
             /\ queue[s].bufs = <<>> /\ pc' = [pc EXCEPT ![s] = "idle"]
    <3>1. PICK q, n : q = [queue[s] EXCEPT !.reported = @ \/ queue[s].closed] /\ n = sem[s]
      OBVIOUS
    <3>2. /\ q \in Queue /\ q.bufs = <<>> /\ n \in Nat
          /\ q.closed = queue[s].closed /\ q.made = queue[s].made
      BY <2>3, <3>1 DEF Queue
    <3>3. OwnsAt(q, "idle", fd[s]) /\ CountsAt(q, n, "idle")
      BY <1>0, <2>1, <3>2 DEF Owns, OwnsAt, Counts, CountsAt
    <3>4. queue' = [queue EXCEPT ![s] = q]
      BY <2>3, <3>1
    <3>5. sem' = [sem EXCEPT ![s] = n] /\ "idle" \in Place /\ fd' = [fd EXCEPT ![s] = fd[s]]
      BY <1>0, <2>1, <3>1 DEF IInv, Types, Place
    <3>6. pc' = [pc EXCEPT ![s] = "idle"] /\ sends' = sends
      BY <2>1, <2>3
    <3> QED
      BY <1>0, <3>2, <3>3, <3>4, <3>5, <3>6, StepIInv
  <2> QED
    BY <1>5, <2>1, <2>2, <2>3 DEF dequeue_swap, goto
<1>6. CASE send(s)
  <2>1. /\ pc[s] = "send" /\ pc' = [pc EXCEPT ![s] = "idle"]
        /\ fd' = fd /\ queue' = queue /\ sem' = sem /\ sends' = sends
    BY <1>6 DEF send, goto, queue_vars, env_vars
  <2>2. OwnsAt(queue[s], "idle", fd[s]) /\ CountsAt(queue[s], sem[s], "idle")
    BY <1>0, <2>1 DEF Owns, OwnsAt, Counts, CountsAt
  <2>3. "idle" \in Place
    BY DEF Place
  <2> QED
    BY <1>0, <2>1, <2>2, <2>3, MoveIInv
<1>7. CASE fail_close(s)
  <2>1. pc[s] = "send" /\ fd[s] = "writer" /\ fd' = [fd EXCEPT ![s] = "writer"]
    BY <1>0, <1>7 DEF fail_close, Owns, OwnsAt
  <2> QED
    BY <1>7, <2>1, CloseIInv DEF fail_close, goto, env_vars
<1>8. CASE close(s)
  <2>1. /\ pc[s] = "closing" /\ pc' = [pc EXCEPT ![s] = "finding"]
        /\ fd' = [fd EXCEPT ![s] = "free"]
        /\ queue' = queue /\ sem' = sem /\ sends' = sends
    BY <1>0, <1>8 DEF close, goto, queue_vars, env_vars, Owns, OwnsAt
  <2>2. OwnsAt(queue[s], "finding", "free") /\ CountsAt(queue[s], sem[s], "finding")
    BY <1>0, <2>1 DEF Owns, OwnsAt, Counts, CountsAt
  <2>3. "finding" \in Place
    BY DEF Place
  <2> QED
    BY <2>1, <2>2, <2>3, MoveIInv
<1>9. CASE find_failed(s)
  <2>1. /\ pc[s] = "finding" /\ pc' = [pc EXCEPT ![s] = "clearing"]
        /\ fd' = fd /\ queue' = queue /\ sem' = sem /\ sends' = sends
    BY <1>9 DEF find_failed, goto, queue_vars, env_vars
  <2>2. OwnsAt(queue[s], "clearing", fd[s]) /\ CountsAt(queue[s], sem[s], "clearing")
    BY <1>0, <2>1 DEF Owns, OwnsAt, Counts, CountsAt
  <2>3. "clearing" \in Place
    BY DEF Place
  <2> QED
    BY <1>0, <2>1, <2>2, <2>3, MoveIInv
<1>10. CASE mark_failed(s)
  <2>1. /\ pc[s] = "clearing" /\ pc' = [pc EXCEPT ![s] = "check"]
        /\ fd' = fd /\ queue' = queue /\ sem' = sem /\ sends' = sends
    BY <1>10 DEF mark_failed, goto, queue_vars, env_vars
  <2>2. OwnsAt(queue[s], "check", fd[s]) /\ CountsAt(queue[s], sem[s], "check")
    BY <1>0, <2>1 DEF Owns, OwnsAt, Counts, CountsAt
  <2>3. "check" \in Place
    BY DEF Place
  <2> QED
    BY <1>0, <2>1, <2>2, <2>3, MoveIInv
<1> QED
  BY <1>1, <1>2, <1>3, <1>4, <1>5, <1>6, <1>7, <1>8, <1>9, <1>10 DEF tcp_writer

\* Incoming connections take and leave descriptors that no writer owns.
LEMMA IncomingIInv ==
  ASSUME IInv, NEW s \in Fd, accept(s) \/ end_of_file(s)
  PROVE  IInv'
<1>1. PICK d \in {"free", "reader", "marking", "ending"} :
        /\ fd[s] # "writer" /\ fd' = [fd EXCEPT ![s] = d]
        /\ pc' = pc /\ queue' = queue /\ sem' = sem /\ sends' = sends
  BY DEF accept, end_of_file, least_free, queue_vars, writer_vars, env_vars
<1>2. OwnsAt(queue[s], pc[s], d) /\ CountsAt(queue[s], sem[s], pc[s])
  BY <1>1 DEF IInv, Owns, OwnsAt, Counts
<1>3. PICK l \in Place : l = pc[s]
  BY DEF IInv, Types
<1>4. pc' = [pc EXCEPT ![s] = l]
  BY <1>1, <1>3 DEF IInv, Types
<1> QED
  BY <1>1, <1>2, <1>3, <1>4, MoveIInv

LEMMA NextIInv == IInv /\ [Next]_vars => IInv'
<1> SUFFICES ASSUME IInv, [Next]_vars PROVE IInv'
  OBVIOUS
<1>1. CASE \E p \in Peer : net_send(p)
  BY <1>1, SendIInv
<1>2. CASE \E s \in Fd : tcp_writer(s) \/ accept(s) \/ end_of_file(s)
  BY <1>2, WriterIInv, IncomingIInv
<1>3. CASE \E k \in DOMAIN stream : read(k)
  BY <1>3 DEF read, IInv, Types, Owns, Counts, queue_vars, writer_vars, env_vars
<1>4. CASE UNCHANGED vars
  BY <1>4 DEF vars, IInv, Types, Owns, Counts, queue_vars, writer_vars, env_vars
<1> QED
  BY <1>1, <1>2, <1>3, <1>4 DEF Next

\* Owns and Counts hold in every state, with the types they need.
THEOREM Invariance == Spec => []IInv
  BY InitIInv, NextIInv, PTL DEF Spec

\* "If a socket is open there is a reader thread or an open writer thread, but
\* not both", and the socket of a closed queue is closed by its own writer.
THEOREM SocketsAreOwned == Spec => []ThreadsOwnTheirSockets
<1>1. IInv => ThreadsOwnTheirSockets
  BY DEF IInv, Owns, OwnsAt, ThreadsOwnTheirSockets
<1> QED
  BY <1>1, Invariance, PTL

\* No writer thread sleeps while its queue has work for it.
THEOREM WritersWakeUp == Spec => []NoLostWakeup
<1>1. IInv => NoLostWakeup
  <2> SUFFICES ASSUME IInv, NEW s \in Fd, ~queue[s].closed,
                      pc[s] = "asleep" \/ (pc[s] = "idle" /\ queue[s].bufs # <<>>)
               PROVE  sem[s] > 0
    BY DEF NoLostWakeup
  <2>1. queue[s].bufs \in Seq(Message) /\ sem[s] \in Nat /\ Counts(s)
    BY DEF IInv, Types, Queue
  <2>2. queue[s].bufs # <<>> => Len(queue[s].bufs) > 0
    BY <2>1
  <2>3. Len(queue[s].bufs) \in Nat
    BY <2>1
  <2> QED
    BY <2>1, <2>2, <2>3 DEF Counts, CountsAt
<1> QED
  BY <1>1, Invariance, PTL
-----------------------------------------------------------------------------
(***************************************************************************)
(* Delivery.  Until a failure report hits a new connection (raced), every  *)
(* peer that uses a descriptor is the one its queue was opened for, and    *)
(* what is queued, sent and read is for it.                                *)
(***************************************************************************)

\* Peer p holds s for its connection.
uses(p, s) == (isup[p] \/ pend[p]) /\ sock[p] = s

Stream == [to : Peer \cup {no_peer}, data : Seq(Message)]

\* The types of what the argument looks at.
WireTypes ==
    /\ isup \in [Peer -> BOOLEAN] /\ pend \in [Peer -> BOOLEAN]
    /\ sock \in [Peer -> Nat]
    /\ target \in [Fd -> Peer \cup {no_peer}]
    /\ buf \in [Fd -> Message \cup {no_msg}]
    /\ found \in [Fd -> Peer \cup {no_peer}]
    /\ via \in [Fd -> Nat]
    /\ stream \in Seq(Stream)

\* Whoever uses a descriptor is the peer its queue was opened for, in the time
\* from its connect to the report of its failure; while the report has found a
\* peer to mark, it is that one.
UsersAt(s) ==
    /\ \A p \in Peer : uses(p, s) => p = queue[s].other
    /\ fd[s] # "writer" /\ pc[s] \notin {"finding", "clearing"} =>
          \A p \in Peer : ~uses(p, s)
    /\ pc[s] = "clearing" => \A p \in Peer : uses(p, s) => p = found[s]

\* The queue of s, its writer and its connection are for one peer.
LinesAt(s) ==
    /\ \A k \in 1 .. Len(queue[s].bufs) : queue[s].bufs[k][2] = queue[s].other
    /\ pc[s] \in {"dialing", "idle", "take", "send"} => target[s] = queue[s].other
    /\ pc[s] \in {"idle", "take", "send"} =>
          via[s] \in 1 .. Len(stream) /\ stream[via[s]].to = target[s]
    /\ pc[s] = "send" => buf[s] \in Message /\ buf[s][2] = target[s]

\* What is on a connection, and what was read, is for the node at its end.
WiresAt(k) == \A j \in 1 .. Len(stream[k].data) : stream[k].data[j][2] = stream[k].to

Delivery ==
    /\ \A p \in Peer : isup[p] \/ pend[p] => sock[p] \in Fd
    /\ \A s \in Fd : UsersAt(s) /\ LinesAt(s)
    /\ \A k \in 1 .. Len(stream) : WiresAt(k)
    /\ \A r \in received : r[1] = r[2][2]

DInv == IInv /\ raced \in BOOLEAN /\ (~raced => WireTypes /\ Delivery)

LEMMA InitDInv == Init => DInv
<1> SUFFICES ASSUME Init PROVE DInv
  OBVIOUS
<1>1. IInv
  BY InitIInv
<1>2. WireTypes
  <2>1. <<>> \in Seq(Stream) /\ 0 \in Nat
    OBVIOUS
  <2> QED
    BY <2>1 DEF Init, WireTypes
<1>3. Delivery
  <2>1. Len(<<>>) = 0
    OBVIOUS
  <2> QED
    BY <2>1 DEF Init, Delivery, UsersAt, LinesAt, WiresAt, uses, no_queue
<1> QED
  BY <1>1, <1>2, <1>3 DEF DInv, Init

\* A callback that marks a peer takes its descriptor from it, and from nobody else.
LEMMA Marked ==
  ASSUME WireTypes, NEW p, net_tcp_failed(p)
  PROVE  /\ isup' \in [Peer -> BOOLEAN] /\ pend' \in [Peer -> BOOLEAN] /\ sock' = sock
         /\ \A s : \A q \in Peer : uses(q, s)' => uses(q, s) /\ q # p
<1>1. /\ isup' = [q \in Peer |-> IF q = p THEN FALSE ELSE isup[q]]
      /\ pend' = [q \in Peer |-> IF q = p THEN FALSE ELSE pend[q]]
      /\ sock' = sock
  BY DEF net_tcp_failed, set
<1> QED
  BY <1>1 DEF WireTypes, uses

\* The callbacks find the one peer that uses a descriptor.
LEMMA UserFound ==
  ASSUME WireTypes, NEW s \in Fd, UsersAt(s)
  PROVE  \A p \in Peer : uses(p, s) => user(s) = p
<1> SUFFICES ASSUME NEW p \in Peer, uses(p, s)
             PROVE  user(s) = p
  OBVIOUS
<1>1. {q \in Peer : (isup[q] \/ pend[q]) /\ sock[q] = s} = {p}
  BY DEF UsersAt, uses
<1>2. p \in Nat /\ p <= p
  BY PeersAssumption
<1>3. last({p}) = p
  BY <1>2 DEF last
<1> QED
  BY <1>1, <1>3 DEF user

\* Whoever a callback finds, it is a peer or nobody.
LEMMA UserType == ASSUME NEW s PROVE UsersAt(s) => user(s) \in Peer \cup {no_peer}
<1> SUFFICES ASSUME UsersAt(s) PROVE user(s) \in Peer \cup {no_peer}
  OBVIOUS
<1>1. PICK P : P = {q \in Peer : (isup[q] \/ pend[q]) /\ sock[q] = s}
  OBVIOUS
<1>2. CASE P = {}
  BY <1>1, <1>2 DEF user, last
<1>3. CASE P # {}
  <2>1. PICK p \in Peer : P = {p}
    BY <1>1, <1>3 DEF UsersAt, uses
  <2>2. p <= p
    BY PeersAssumption
  <2>3. last({p}) = p
    BY <2>2 DEF last
  <2> QED
    BY <1>1, <2>1, <2>3 DEF user
<1> QED
  BY <1>2, <1>3

\* The end of a connect: the peer that waits for it is up, and uses what it used.
LEMMA ConnectedUsers ==
  ASSUME WireTypes, NEW s \in Fd, UsersAt(s), net_tcp_connected(s)
  PROVE  /\ isup' \in [Peer -> BOOLEAN] /\ pend' \in [Peer -> BOOLEAN] /\ sock' = sock
         /\ \A t : \A q \in Peer : uses(q, t)' => uses(q, t)
<1>1. PICK w, W : w = waiting(s) /\ W = {p \in Peer : pend[p] /\ sock[p] = s}
  OBVIOUS
<1>2. /\ isup' = [q \in Peer |-> IF q = w THEN TRUE ELSE isup[q]]
      /\ pend' = [q \in Peer |-> IF q = w THEN FALSE ELSE pend[q]]
      /\ sock' = sock
  BY <1>1 DEF net_tcp_connected, set
<1>3. w \in Peer => w \in W
  <2>1. CASE W = {}
    BY <1>1, <2>1, PeersAssumption DEF waiting, last
  <2>2. CASE W # {}
    <3>1. PICK p \in Peer : W = {p}
      BY <1>1, <2>2 DEF UsersAt, uses
    <3>2. p <= p
      BY PeersAssumption
    <3>3. last({p}) = p
      BY <3>2 DEF last
    <3> QED
      BY <1>1, <3>1, <3>3 DEF waiting
  <2> QED
    BY <2>1, <2>2
<1> QED
  BY <1>1, <1>2, <1>3 DEF WireTypes, uses

\* What the steps of others leave as it is.
LEMMA UsersKept ==
  ASSUME NEW t \in Fd, UsersAt(t), queue'[t].other = queue[t].other,
         fd'[t] = "writer" <=> fd[t] = "writer",
         pc'[t] \in {"finding", "clearing"} <=> pc[t] \in {"finding", "clearing"},
         pc'[t] = "clearing" => pc[t] = "clearing" /\ found'[t] = found[t],
         \A p \in Peer : uses(p, t)' => uses(p, t)
  PROVE  UsersAt(t)'
  BY DEF UsersAt

LEMMA LinesKept ==
  ASSUME NEW t \in Fd, LinesAt(t), queue'[t].other = queue[t].other,
         queue'[t].bufs = queue[t].bufs,
         pc'[t] = pc[t], target'[t] = target[t], via'[t] = via[t], buf'[t] = buf[t],
         \A k \in 1 .. Len(stream) : k \in 1 .. Len(stream') /\ stream'[k].to = stream[k].to
  PROVE  LinesAt(t)'
  BY DEF LinesAt

\* net.send: a connect uses a descriptor that nobody uses and no report is out for.
LEMMA ConnectDelivery ==
  ASSUME IInv, WireTypes, Delivery, NEW p \in Peer, NEW queues, NEW sems,
         queues \in [Fd -> Queue],
         \A s \in Fd : /\ queues[s].other = queue[s].other
                       /\ queues[s].bufs = queue[s].bufs \/ queues[s].bufs = <<>>,
         connect(p, queues, sems), ~raced',
         isup' \in [Peer -> BOOLEAN], \A q \in Peer : isup'[q] => isup[q],
         UNCHANGED <<target, buf, found, wire_vars>>
  PROVE  WireTypes' /\ Delivery'
<1>1. PICK s \in Fd :
        /\ fd[s] = "free"
        /\ fd' = [fd EXCEPT ![s] = "writer"]
        /\ queue' = [queues EXCEPT ![s] = set_open(@, p)]
        /\ pc' = [pc EXCEPT ![s] = IF queue[s].made THEN @ ELSE "check"]
        /\ sock' = [sock EXCEPT ![p] = s]
        /\ pend' = [pend EXCEPT ![p] = TRUE]
        /\ ~failing(p, s)
  BY DEF connect, least_free
<1>2. /\ UNCHANGED <<target, buf, found, via, stream, received>>
      /\ s \in Nat
  BY FdsAssumption DEF wire_vars
<1>3. pc[s] \notin {"finding", "clearing"} /\ queue[s].closed
  BY <1>1 DEF failing, IInv, Owns, OwnsAt
<1>4. WireTypes'
  BY <1>1, <1>2 DEF WireTypes
<1>5. \A q \in Peer, t \in Fd : uses(q, t)' => (q = p /\ t = s) \/ (q # p /\ uses(q, t))
  BY <1>1 DEF WireTypes, uses
<1>6. \A q \in Peer : ~uses(q, s)
  BY <1>1, <1>3 DEF Delivery, UsersAt
<1>7. queue'[s].other = p /\ queue'[s].bufs = <<>>
  <2>1. queues[s] \in Queue /\ queues[s].bufs = <<>>
    BY <1>3 DEF IInv, Counts, CountsAt
  <2>2. set_open(queues[s], p).other = p /\ set_open(queues[s], p).bufs = <<>>
    BY <2>1 DEF set_open, Queue
  <2> QED
    BY <1>1, <2>2
<1>8. ASSUME NEW t \in Fd PROVE UsersAt(t)' /\ LinesAt(t)'
  <2>1. CASE t = s
    <3>1. pc'[s] \notin {"clearing", "dialing", "idle", "take", "send"}
      <4>1. pc'[s] = IF queue[s].made THEN pc[s] ELSE "check"
        BY <1>1 DEF IInv, Types
      <4>2. pc[s] \notin {"clearing", "dialing", "idle", "take", "send"}
        BY <1>3 DEF IInv, Owns, OwnsAt
      <4> QED
        BY <4>1, <4>2
    <3>2. fd'[s] = "writer"
      BY <1>1 DEF IInv, Types
    <3>3. UsersAt(s)'
      BY <1>5, <1>6, <1>7, <3>1, <3>2 DEF UsersAt
    <3>4. LinesAt(s)'
      BY <1>7, <3>1 DEF LinesAt
    <3> QED
      BY <2>1, <3>3, <3>4
  <2>2. CASE t # s
    <3>1. fd'[t] = fd[t] /\ pc'[t] = pc[t] /\ queue'[t] = queues[t]
      BY <1>1, <2>2 DEF IInv, Types
    <3>2. UsersAt(t)'
      BY <1>2, <1>5, <2>2, <3>1, UsersKept DEF Delivery
    <3>3. queue'[t].bufs = queue[t].bufs \/ queue'[t].bufs = <<>>
      BY <3>1
    <3>4. LinesAt(t)'
      BY <1>2, <3>1, <3>3 DEF Delivery, LinesAt
    <3> QED
      BY <3>2, <3>4
  <2> QED
    BY <2>1, <2>2
<1>9. \A q \in Peer : (isup[q] \/ pend[q])' => sock'[q] \in Fd
  BY <1>1 DEF WireTypes, Delivery
<1> QED
  BY <1>2, <1>4, <1>8, <1>9 DEF Delivery, WiresAt

\* net.send: a message is queued on the descriptor its addressee uses.
LEMMA SendDelivery ==
  ASSUME IInv, WireTypes, Delivery, NEW p \in Peer, net_send(p), ~raced'
  PROVE  WireTypes' /\ Delivery'
<1>0. UNCHANGED <<target, buf, found, wire_vars>>
  BY DEF net_send
<1>1. CASE send_down(p)
  <2>1. PICK queues, sems : queues = queue /\ sems = sem /\ connect(p, queues, sems)
    BY <1>1 DEF send_down
  <2>2. queues \in [Fd -> Queue] /\ isup' = isup /\ isup' \in [Peer -> BOOLEAN]
    BY <1>1, <2>1 DEF IInv, Types, WireTypes, send_down
  <2> QED
    BY <1>0, <2>1, <2>2, ConnectDelivery
<1>2. CASE send_pending(p)
  <2>1. UNCHANGED <<isup, pend, sock, fd, queue, pc, target, buf, found, via, stream, received>>
    BY <1>0, <1>2 DEF send_pending, proc_vars, queue_vars, wire_vars
  <2> QED
    BY <2>1 DEF WireTypes, Delivery, UsersAt, LinesAt, WiresAt, uses
<1>3. CASE send_up(p, <<sends', p>>)
  <2>1. PICK s, m :
          /\ s = sock[p] /\ m = <<sends', p>>
          /\ isup[p] /\ ~queue[s].closed
          /\ queue' = [queue EXCEPT ![s] = enqueue_swap(@, m)]
          /\ UNCHANGED <<isup, pend, sock, pc, fd>>
    BY <1>3 DEF send_up, proc_vars
  <2>2. UNCHANGED <<target, buf, found, via, stream, received>>
    BY <1>0 DEF wire_vars
  <2>3. s \in Fd /\ queue[s].other = p
    BY <2>1 DEF Delivery, UsersAt, uses
  <2>4. PICK q : q = queue[s] /\ q \in Queue
    BY <2>3 DEF IInv, Types
  <2>5. PICK b : b = IF Len(q.bufs) < MaxQueue THEN Append(q.bufs, m) ELSE q.bufs
    OBVIOUS
  <2>6. queue'[s].bufs = b /\ queue'[s].other = q.other
    <3>1. queue'[s] = [q EXCEPT !.bufs = b]
      BY <2>1, <2>3, <2>4, <2>5 DEF IInv, Types, enqueue_swap
    <3>2. [q EXCEPT !.bufs = b].bufs = b /\ [q EXCEPT !.bufs = b].other = q.other
      BY <2>4 DEF Queue
    <3> QED
      BY <3>1, <3>2
  <2>7. \A k \in 1 .. Len(b) : b[k][2] = p
    <3>1. q.bufs \in Seq(Message) /\ \A k \in 1 .. Len(q.bufs) : q.bufs[k][2] = p
      BY <2>3, <2>4 DEF Delivery, LinesAt, Queue
    <3>2. m[2] = p
      BY <2>1
    <3>3. CASE b = q.bufs
      BY <3>1, <3>3
    <3>4. CASE b = Append(q.bufs, m)
      <4>1. Len(b) = Len(q.bufs) + 1 /\ b[Len(b)] = m
            /\ \A k \in 1 .. Len(q.bufs) : b[k] = q.bufs[k]
        BY <3>1, <3>4
      <4>2. Len(q.bufs) \in Nat
        BY <3>1
      <4>3. \A k \in 1 .. Len(b) : k \in 1 .. Len(q.bufs) \/ k = Len(b)
        BY <4>1, <4>2
      <4> QED
        BY <3>1, <3>2, <4>1, <4>3
    <3> QED
      BY <2>5, <3>3, <3>4
  <2>8. ASSUME NEW t \in Fd PROVE UsersAt(t)' /\ LinesAt(t)'
    <3>1. \A q2 \in Peer : uses(q2, t)' => uses(q2, t)
      BY <2>1 DEF uses
    <3>2. CASE t = s
      <4>1. UsersAt(t)'
        BY <2>1, <2>2, <2>4, <2>6, <3>1, <3>2, UsersKept DEF Delivery
      <4>2. LinesAt(t)'
        BY <2>1, <2>2, <2>3, <2>4, <2>6, <2>7, <3>2 DEF Delivery, LinesAt
      <4> QED
        BY <4>1, <4>2
    <3>3. CASE t # s
      <4>1. queue'[t] = queue[t]
        BY <2>1, <3>3 DEF IInv, Types
      <4> QED
        BY <2>1, <2>2, <3>1, <4>1 DEF Delivery, UsersAt, LinesAt
    <3> QED
      BY <3>2, <3>3
  <2> QED
    BY <2>1, <2>2, <2>8 DEF WireTypes, Delivery, WiresAt
<1>4. CASE send_failed(p)
  <2>1. PICK s, queues, sems :
          /\ queues = [queue EXCEPT ![s] = set_closed(@, TRUE)]
          /\ connect(p, queues, sems)
          /\ isup' = [isup EXCEPT ![p] = FALSE]
    BY <1>4 DEF send_failed
  <2>2. \A q \in Queue : /\ set_closed(q, TRUE) \in Queue
                         /\ set_closed(q, TRUE).other = q.other
                         /\ set_closed(q, TRUE).bufs = <<>>
    <3>1. <<>> \in Seq(Message)
      OBVIOUS
    <3> QED
      BY <3>1 DEF set_closed, Queue
  <2>3. queues \in [Fd -> Queue]
    BY <2>1, <2>2 DEF IInv, Types
  <2>4. \A t \in Fd : /\ queues[t].other = queue[t].other
                      /\ queues[t].bufs = queue[t].bufs \/ queues[t].bufs = <<>>
    <3> SUFFICES ASSUME NEW t \in Fd
                 PROVE  /\ queues[t].other = queue[t].other
                        /\ queues[t].bufs = queue[t].bufs \/ queues[t].bufs = <<>>
      OBVIOUS
    <3>1. queue[t] \in Queue
      BY DEF IInv, Types
    <3>2. queues[t] = queue[t] \/ queues[t] = set_closed(queue[t], TRUE)
      BY <2>1 DEF IInv, Types
    <3> QED
      BY <2>2, <3>1, <3>2
  <2>5. isup' \in [Peer -> BOOLEAN] /\ \A q \in Peer : isup'[q] => isup[q]
    BY <2>1 DEF WireTypes
  <2> QED
    BY <1>0, <2>1, <2>3, <2>4, <2>5, ConnectDelivery
<1> QED
  BY <1>1, <1>2, <1>3, <1>4 DEF net_send

\* A step leaves the descriptors other than s as they are.
OthersSame(s) ==
    \A t \in Fd \ {s} :
        /\ queue'[t] = queue[t] /\ pc'[t] = pc[t] /\ fd'[t] = fd[t] /\ found'[t] = found[t]
        /\ target'[t] = target[t] /\ via'[t] = via[t] /\ buf'[t] = buf[t]

LEMMA OthersDelivery ==
  ASSUME Delivery, NEW s \in Fd,
         OthersSame(s),
         sock' = sock, \A t : \A q \in Peer : uses(q, t)' => uses(q, t),
         \A k \in 1 .. Len(stream) : k \in 1 .. Len(stream') /\ stream'[k].to = stream[k].to,
         \A k \in 1 .. Len(stream') : WiresAt(k)', received' = received,
         UsersAt(s)', LinesAt(s)'
  PROVE  Delivery'
<1>1. ASSUME NEW t \in Fd PROVE UsersAt(t)' /\ LinesAt(t)'
  <2>1. CASE t # s
    BY <2>1, UsersKept, LinesKept DEF Delivery, OthersSame
  <2> QED
    BY <2>1
<1>2. \A q \in Peer : (isup[q] \/ pend[q])' => sock'[q] \in Fd
  BY DEF Delivery, uses
<1> QED
  BY <1>1, <1>2 DEF Delivery

\* A step of the writer of s that touches neither connections nor reports.
LEMMA MoveDelivery ==
  ASSUME Delivery, NEW s \in Fd, OthersSame(s),
         queue'[s].other = queue[s].other,
         \A k \in 1 .. Len(queue'[s].bufs) : queue'[s].bufs[k][2] = queue[s].other,
         pc[s] \notin {"finding", "clearing"}, pc'[s] # "clearing",
         fd'[s] # "writer" /\ pc'[s] # "finding" =>
            fd[s] # "writer" \/ \A p \in Peer : ~uses(p, s)',
         pc'[s] \in {"dialing", "idle", "take", "send"} => target'[s] = queue[s].other,
         pc'[s] \in {"idle", "take", "send"} =>
            pc[s] \in {"idle", "take", "send"} /\ target'[s] = target[s],
         pc'[s] = "send" => buf'[s] \in Message /\ buf'[s][2] = target'[s],
         sock' = sock, \A t : \A p \in Peer : uses(p, t)' => uses(p, t),
         UNCHANGED <<via, stream, received>>
  PROVE  Delivery'
<1>1. UsersAt(s) /\ LinesAt(s)
  BY DEF Delivery
<1>2. UsersAt(s)'
  BY <1>1 DEF UsersAt
<1>3. LinesAt(s)'
  BY <1>1 DEF LinesAt
<1>4. \A k \in 1 .. Len(stream') : WiresAt(k)'
  BY DEF Delivery, WiresAt
<1> QED
  BY <1>2, <1>3, <1>4, OthersDelivery

\* The steps of a writer that neither touch its connection nor a failure report.
LEMMA WriterMoves ==
  ASSUME IInv, WireTypes, Delivery, NEW s \in Fd,
         \/ wait_open(s) \/ down(s) \/ refused(s) \/ dequeue_swap(s)
         \/ fail_close(s) \/ close(s)
  PROVE  WireTypes' /\ Delivery'
<1>0. /\ queue[s] \in Queue /\ queue[s].bufs \in Seq(Message)
      /\ \A k \in 1 .. Len(queue[s].bufs) : queue[s].bufs[k][2] = queue[s].other
      /\ queue[s].other \in Peer \cup {no_peer}
      /\ Owns(s) /\ LinesAt(s) /\ UsersAt(s)
  BY DEF IInv, Types, Queue, Delivery, LinesAt
<1>1. CASE wait_open(s)
  <2>1. /\ pc[s] = "check"
        /\ \/ pc' = [pc EXCEPT ![s] = "asleep"] /\ target' = target
           \/ pc' = [pc EXCEPT ![s] = "dialing"]
              /\ target' = [target EXCEPT ![s] = queue[s].other]
        /\ UNCHANGED <<isup, pend, sock, fd, queue, buf, found, via, stream, received>>
    BY <1>1 DEF wait_open, goto, proc_vars, queue_vars, wire_vars
  <2>2. /\ pc'[s] \in {"asleep", "dialing"}
        /\ pc'[s] = "dialing" => target'[s] = queue[s].other
    BY <2>1 DEF IInv, Types, WireTypes
  <2>3. OthersSame(s)
    BY <2>1 DEF IInv, Types, WireTypes, OthersSame
  <2>4. WireTypes'
    BY <1>0, <2>1 DEF WireTypes
  <2>5. \A t : \A p \in Peer : uses(p, t)' => uses(p, t)
    BY <2>1 DEF uses
  <2>6. Delivery'
    BY <1>0, <2>1, <2>2, <2>3, <2>5, MoveDelivery
  <2> QED
    BY <2>4, <2>6
<1>2. CASE down(s)
  <2>1. /\ \/ pc[s] = "asleep" /\ pc' = [pc EXCEPT ![s] = "check"]
           \/ pc[s] = "idle" /\ pc' = [pc EXCEPT ![s] = "take"]
        /\ UNCHANGED <<isup, pend, sock, fd, queue, target, buf, found, via, stream, received>>
    BY <1>2 DEF down, goto, proc_vars, wire_vars
  <2>2. pc[s] \in {"asleep", "idle"} /\ pc'[s] = IF pc[s] = "asleep" THEN "check" ELSE "take"
    BY <2>1 DEF IInv, Types
  <2>3. OthersSame(s)
    BY <2>1 DEF IInv, Types, OthersSame
  <2>4. WireTypes'
    BY <2>1 DEF WireTypes
  <2>5. \A t : \A p \in Peer : uses(p, t)' => uses(p, t)
    BY <2>1 DEF uses
  <2>6. pc'[s] = "take" => target[s] = queue[s].other
    BY <1>0, <2>2 DEF LinesAt
  <2>7. Delivery'
    BY <1>0, <2>1, <2>2, <2>3, <2>5, <2>6, MoveDelivery
  <2> QED
    BY <2>4, <2>7
<1>3. CASE refused(s) \/ fail_close(s)
  <2>1. PICK q : q = set_closed(queue[s], FALSE)
    OBVIOUS
  <2>2. q.other = queue[s].other /\ q.bufs = <<>> /\ Len(<<>>) = 0
    BY <1>0, <2>1 DEF set_closed, Queue
  <2>3. queue' = [queue EXCEPT ![s] = q] /\ UNCHANGED <<target, found, via, stream, received>>
    BY <1>3, <2>1 DEF refused, fail_close, wire_vars
  <2>4. queue'[s].other = queue[s].other /\ queue'[s].bufs = <<>>
    BY <2>2, <2>3 DEF IInv, Types
  <2>5. CASE refused(s)
    <3>1. net_tcp_failed(user(s)) /\ UNCHANGED buf
          /\ pc[s] = "dialing" /\ pc' = [pc EXCEPT ![s] = "check"] /\ fd' = [fd EXCEPT ![s] = "free"]
      BY <2>5 DEF refused, goto
    <3>2. /\ isup' \in [Peer -> BOOLEAN] /\ pend' \in [Peer -> BOOLEAN] /\ sock' = sock
          /\ \A t : \A p \in Peer : uses(p, t)' => uses(p, t) /\ p # user(s)
      BY <3>1, Marked
    <3>3. \A p \in Peer : ~uses(p, s)'
      BY <1>0, <3>2, UserFound
    <3>4. pc'[s] = "check" /\ OthersSame(s)
      BY <2>3, <3>1 DEF IInv, Types, OthersSame
    <3>5. WireTypes'
      BY <2>3, <3>1, <3>2 DEF WireTypes
    <3>6. Delivery'
      BY <2>2, <2>3, <2>4, <3>1, <3>2, <3>3, <3>4, MoveDelivery
    <3> QED
      BY <3>5, <3>6
  <2>6. CASE fail_close(s)
    <3>1. /\ pc[s] = "send" /\ pc' = [pc EXCEPT ![s] = "closing"]
          /\ buf' = [buf EXCEPT ![s] = no_msg]
          /\ UNCHANGED <<isup, pend, sock, fd>>
      BY <2>6 DEF fail_close, goto, proc_vars
    <3>2. \A t : \A p \in Peer : uses(p, t)' => uses(p, t)
      BY <3>1 DEF uses
    <3>3. pc'[s] = "closing" /\ OthersSame(s)
      BY <2>3, <3>1 DEF IInv, Types, WireTypes, OthersSame
    <3>4. WireTypes'
      BY <2>3, <3>1 DEF WireTypes
    <3>5. Delivery'
      BY <2>2, <2>3, <2>4, <3>1, <3>2, <3>3, MoveDelivery
    <3> QED
      BY <3>4, <3>5
  <2> QED
    BY <1>3, <2>5, <2>6
<1>4. CASE dequeue_swap(s)
  <2>1. /\ pc[s] = "take" /\ ~queue[s].closed
        /\ UNCHANGED <<isup, pend, sock, fd, target, found, via, stream, received>>
    BY <1>0, <1>4 DEF dequeue_swap, proc_vars, wire_vars, Owns, OwnsAt
  <2>2. \A t : \A p \in Peer : uses(p, t)' => uses(p, t)
    BY <2>1 DEF uses
  <2>3. target'[s] = queue[s].other
    BY <1>0, <2>1 DEF LinesAt
  <2>4. CASE /\ queue[s].bufs # <<>> /\ buf' = [buf EXCEPT ![s] = Head(queue[s].bufs)]
             /\ queue' = [queue EXCEPT ![s].bufs = Tail(@)] /\ goto(s, "send")
    <3>1. PICK b, c : b = Head(queue[s].bufs) /\ c = Tail(queue[s].bufs)
      OBVIOUS
    <3>2. /\ b \in Message /\ b = queue[s].bufs[1] /\ 1 \in 1 .. Len(queue[s].bufs)
          /\ \A k \in 1 .. Len(c) : c[k] = queue[s].bufs[k + 1] /\ k + 1 \in 1 .. Len(queue[s].bufs)
      BY <1>0, <2>4, <3>1
    <3>3. PICK q : q = [queue[s] EXCEPT !.bufs = c]
      OBVIOUS
    <3>4. q.bufs = c /\ q.other = queue[s].other
      BY <1>0, <3>3 DEF Queue
    <3>5. queue' = [queue EXCEPT ![s] = q] /\ buf' = [buf EXCEPT ![s] = b]
          /\ pc' = [pc EXCEPT ![s] = "send"]
      BY <2>4, <3>1, <3>3 DEF goto
    <3>6. queue'[s] = q /\ buf'[s] = b /\ pc'[s] = "send" /\ OthersSame(s)
      BY <2>1, <3>5 DEF IInv, Types, WireTypes, OthersSame
    <3>7. b[2] = queue[s].other /\ \A k \in 1 .. Len(q.bufs) : q.bufs[k][2] = queue[s].other
      BY <1>0, <3>2, <3>4
    <3>8. WireTypes'
      BY <2>1, <3>2, <3>5 DEF WireTypes
    <3>9. Delivery'
      BY <2>1, <2>2, <2>3, <3>2, <3>4, <3>6, <3>7, MoveDelivery
    <3> QED
      BY <3>8, <3>9
  <2>5. CASE /\ queue[s].bufs = <<>> /\ UNCHANGED buf
             /\ queue' = [queue EXCEPT ![s].reported = @ \/ queue[s].closed]
             /\ goto(s, IF queue[s].closed /\ ~queue[s].reported THEN "shutting" ELSE "idle")
    <3>1. PICK q : q = [queue[s] EXCEPT !.reported = @ \/ queue[s].closed]
      OBVIOUS
    <3>2. q.bufs = queue[s].bufs /\ q.other = queue[s].other
      BY <1>0, <3>1 DEF Queue
    <3>3. queue' = [queue EXCEPT ![s] = q] /\ pc' = [pc EXCEPT ![s] = "idle"]
      BY <2>1, <2>5, <3>1 DEF goto
    <3>4. queue'[s] = q /\ pc'[s] = "idle" /\ OthersSame(s)
      BY <2>1, <2>5, <3>3 DEF IInv, Types, OthersSame
    <3>5. WireTypes'
      BY <2>1, <2>5 DEF WireTypes
    <3>6. \A k \in 1 .. Len(q.bufs) : q.bufs[k][2] = queue[s].other
      BY <1>0, <3>2
    <3>7. Delivery'
      BY <2>1, <2>2, <2>3, <3>2, <3>4, <3>6, MoveDelivery
    <3> QED
      BY <3>5, <3>7
  <2> QED
    BY <1>4, <2>4, <2>5 DEF dequeue_swap
<1>5. CASE close(s)
  <2>1. /\ pc[s] = "closing" /\ pc' = [pc EXCEPT ![s] = "finding"]
        /\ fd' = [fd EXCEPT ![s] = "free"]
        /\ UNCHANGED <<isup, pend, sock, queue, target, buf, found, via, stream, received>>
    BY <1>0, <1>5 DEF close, goto, proc_vars, queue_vars, wire_vars, Owns, OwnsAt
  <2>2. \A t : \A p \in Peer : uses(p, t)' => uses(p, t)
    BY <2>1 DEF uses
  <2>3. pc'[s] = "finding" /\ OthersSame(s)
    BY <2>1 DEF IInv, Types, OthersSame
  <2>4. WireTypes'
    BY <2>1 DEF WireTypes
  <2>5. Delivery'
    BY <1>0, <2>1, <2>2, <2>3, MoveDelivery
  <2> QED
    BY <2>4, <2>5
<1> QED
  BY <1>1, <1>2, <1>3, <1>4, <1>5

\* A connect that comes to an end makes a new, empty connection to the target.
LEMMA ConnectedDelivery ==
  ASSUME IInv, WireTypes, Delivery, NEW s \in Fd, connected(s)
  PROVE  WireTypes' /\ Delivery'
<1>0. LinesAt(s) /\ UsersAt(s)
  BY DEF Delivery
<1>1. PICK c : c = [to |-> target[s], data |-> <<>>]
  OBVIOUS
<1>2. c \in Stream /\ c.to = target[s] /\ c.data = <<>>
  <2>1. <<>> \in Seq(Message)
    OBVIOUS
  <2> QED
    BY <1>1, <2>1 DEF WireTypes, Stream
<1>3. /\ pc[s] = "dialing" /\ pc' = [pc EXCEPT ![s] = "idle"]
      /\ stream' = Append(stream, c) /\ via' = [via EXCEPT ![s] = Len(stream')]
      /\ net_tcp_connected(s)
      /\ UNCHANGED <<fd, queue, target, buf, found, received>>
  BY <1>1 DEF connected, goto, queue_vars
<1>4. /\ stream' \in Seq(Stream) /\ Len(stream') = Len(stream) + 1 /\ Len(stream) \in Nat
      /\ stream'[Len(stream')] = c
      /\ \A k \in 1 .. Len(stream) : stream'[k] = stream[k]
  BY <1>2, <1>3 DEF WireTypes
<1>5. /\ Len(stream') \in 1 .. Len(stream')
      /\ (\A k \in 1 .. Len(stream') : k \in 1 .. Len(stream) \/ k = Len(stream'))
      /\ \A k \in 1 .. Len(stream) : k \in 1 .. Len(stream')
  BY <1>4
<1>6. /\ isup' \in [Peer -> BOOLEAN] /\ pend' \in [Peer -> BOOLEAN] /\ sock' = sock
      /\ \A t : \A q \in Peer : uses(q, t)' => uses(q, t)
  BY <1>0, <1>3, ConnectedUsers
<1>7. pc'[s] = "idle" /\ via'[s] = Len(stream') /\ OthersSame(s)
  BY <1>3 DEF IInv, Types, WireTypes, OthersSame
<1>8. WireTypes'
  BY <1>3, <1>4, <1>6 DEF WireTypes
<1>9. UsersAt(s)'
  BY <1>0, <1>3, <1>6, <1>7, UsersKept
<1>10. LinesAt(s)'
  BY <1>0, <1>2, <1>3, <1>4, <1>5, <1>7 DEF LinesAt
<1>11. \A k \in 1 .. Len(stream') : WiresAt(k)'
  <2>1. Len(<<>>) = 0
    OBVIOUS
  <2> QED
    BY <1>2, <1>4, <1>5, <2>1 DEF Delivery, WiresAt
<1>12. \A k \in 1 .. Len(stream) : k \in 1 .. Len(stream') /\ stream'[k].to = stream[k].to
  BY <1>4, <1>5
<1> QED
  BY <1>3, <1>6, <1>7, <1>8, <1>9, <1>10, <1>11, <1>12, OthersDelivery

\* A change of the data of one connection, which stays data for its end.
LEMMA DataChange ==
  ASSUME WireTypes, NEW k \in 1 .. Len(stream), NEW d \in Seq(Message),
         stream' = [stream EXCEPT ![k].data = d],
         \A i \in 1 .. Len(stream) : WiresAt(i),
         \A j \in 1 .. Len(d) : d[j][2] = stream[k].to
  PROVE  /\ stream' \in Seq(Stream) /\ Len(stream') = Len(stream)
         /\ \A i \in 1 .. Len(stream) : stream'[i].to = stream[i].to
         /\ \A i \in 1 .. Len(stream') : WiresAt(i)'
<1>1. PICK c : c = [stream[k] EXCEPT !.data = d]
  OBVIOUS
<1>2. stream[k] \in Stream
  BY DEF WireTypes
<1>3. c \in Stream /\ c.to = stream[k].to /\ c.data = d
  BY <1>1, <1>2 DEF Stream
<1>4. stream' = [stream EXCEPT ![k] = c]
  BY <1>1
<1>5. /\ stream' \in Seq(Stream) /\ Len(stream') = Len(stream)
      /\ \A i \in 1 .. Len(stream) : stream'[i] = IF i = k THEN c ELSE stream[i]
  <2>1. stream \in Seq(Stream)
    BY DEF WireTypes
  <2>2. PICK q : q = stream
    OBVIOUS
  <2>3. q \in Seq(Stream) /\ k \in 1 .. Len(q) /\ c \in Stream
    BY <1>3, <2>1, <2>2
  <2>4. /\ [q EXCEPT ![k] = c] \in Seq(Stream) /\ Len([q EXCEPT ![k] = c]) = Len(q)
        /\ \A i \in 1 .. Len(q) : [q EXCEPT ![k] = c][i] = IF i = k THEN c ELSE q[i]
    BY <2>3, ExceptSeq
  <2> QED
    BY <1>4, <2>2, <2>4
<1>6. \A i \in 1 .. Len(stream') : WiresAt(i)'
  BY <1>3, <1>5 DEF WiresAt
<1> QED
  BY <1>3, <1>5, <1>6

LEMMA WriteDelivery ==
  ASSUME IInv, WireTypes, Delivery, NEW s \in Fd, send(s)
  PROVE  WireTypes' /\ Delivery'
<1>0. /\ LinesAt(s) /\ UsersAt(s) /\ pc[s] = "send"
      /\ pc' = [pc EXCEPT ![s] = "idle"] /\ buf' = [buf EXCEPT ![s] = no_msg]
      /\ UNCHANGED <<isup, pend, sock, fd, queue, target, found, via, received>>
  BY DEF Delivery, send, goto, proc_vars, queue_vars
<1>1. PICK k, m : k = via[s] /\ m = buf[s]
  OBVIOUS
<1>2. k \in 1 .. Len(stream) /\ m \in Message /\ m[2] = stream[k].to
  BY <1>0, <1>1 DEF LinesAt
<1>3. PICK b, d : b = stream[k].data /\ d = Append(b, m)
  OBVIOUS
<1>4. stream[k] \in Stream /\ b \in Seq(Message) /\ d \in Seq(Message)
      /\ WiresAt(k) /\ \A i \in 1 .. Len(stream) : WiresAt(i)
  <2>1. stream[k] \in Stream
    BY <1>2 DEF WireTypes
  <2>2. b \in Seq(Message)
    BY <1>3, <2>1 DEF Stream
  <2> QED
    BY <1>2, <1>3, <2>1, <2>2 DEF Delivery
<1>5. \A j \in 1 .. Len(d) : d[j][2] = stream[k].to
  <2>1. Len(d) = Len(b) + 1 /\ Len(b) \in Nat /\ d[Len(d)] = m
        /\ \A j \in 1 .. Len(b) : d[j] = b[j]
    BY <1>2, <1>3, <1>4
  <2>2. \A j \in 1 .. Len(d) : j \in 1 .. Len(b) \/ j = Len(d)
    BY <2>1
  <2> QED
    BY <1>2, <1>3, <1>4, <2>1, <2>2 DEF WiresAt
<1>6. stream' = [stream EXCEPT ![k].data = d]
  BY <1>1, <1>3 DEF send
<1>7. /\ stream' \in Seq(Stream) /\ Len(stream') = Len(stream)
      /\ \A i \in 1 .. Len(stream) : stream'[i].to = stream[i].to
      /\ \A i \in 1 .. Len(stream') : WiresAt(i)'
  BY <1>2, <1>4, <1>5, <1>6, DataChange
<1>8. pc'[s] = "idle" /\ OthersSame(s)
  BY <1>0 DEF IInv, Types, WireTypes, OthersSame
<1>9. \A t : \A q \in Peer : uses(q, t)' => uses(q, t)
  BY <1>0 DEF uses
<1>10. WireTypes'
  BY <1>0, <1>7 DEF WireTypes
<1>11. UsersAt(s)'
  BY <1>0, <1>8, <1>9, UsersKept
<1>12. LinesAt(s)'
  BY <1>0, <1>7, <1>8 DEF LinesAt
<1>13. \A i \in 1 .. Len(stream) : i \in 1 .. Len(stream') /\ stream'[i].to = stream[i].to
  BY <1>7
<1> QED
  BY <1>0, <1>7, <1>8, <1>9, <1>10, <1>11, <1>12, <1>13, OthersDelivery

\* A failed connection: while its report is under way only the peer it found
\* uses the descriptor, and it marks that one.
LEMMA ReportDelivery ==
  ASSUME IInv, WireTypes, Delivery, NEW s \in Fd, find_failed(s) \/ mark_failed(s)
  PROVE  WireTypes' /\ Delivery'
<1>0. LinesAt(s) /\ UsersAt(s)
  BY DEF Delivery
<1>1. UNCHANGED <<fd, queue, target, buf, via, stream, received>>
  BY DEF find_failed, mark_failed, queue_vars, wire_vars
<1>2. \A k \in 1 .. Len(stream') : WiresAt(k)'
  BY <1>1 DEF Delivery, WiresAt
<1>3. \A k \in 1 .. Len(stream) : k \in 1 .. Len(stream') /\ stream'[k].to = stream[k].to
  BY <1>1
<1>4. CASE find_failed(s)
  <2>1. PICK p : p = user(s)
    OBVIOUS
  <2>2. p \in Peer \cup {no_peer} /\ \A q \in Peer : uses(q, s) => q = p
    BY <1>0, <2>1, UserFound, UserType
  <2>3. /\ pc[s] = "finding" /\ pc' = [pc EXCEPT ![s] = "clearing"]
        /\ found' = [found EXCEPT ![s] = p] /\ UNCHANGED <<isup, pend, sock>>
    BY <1>4, <2>1 DEF find_failed, goto, proc_vars
  <2>4. pc'[s] = "clearing" /\ found'[s] = p /\ OthersSame(s)
    BY <1>1, <2>3 DEF IInv, Types, WireTypes, OthersSame
  <2>5. \A t : \A q \in Peer : uses(q, t)' => uses(q, t)
    BY <2>3 DEF uses
  <2>6. WireTypes'
    BY <1>1, <2>2, <2>3 DEF WireTypes
  <2>7. UsersAt(s)'
    BY <1>0, <1>1, <2>2, <2>4, <2>5 DEF UsersAt
  <2>8. LinesAt(s)'
    BY <1>0, <1>1, <2>4 DEF LinesAt
  <2> QED
    BY <1>1, <1>2, <1>3, <2>3, <2>4, <2>5, <2>6, <2>7, <2>8, OthersDelivery
<1>5. CASE mark_failed(s)
  <2>1. /\ pc[s] = "clearing" /\ pc' = [pc EXCEPT ![s] = "check"]
        /\ found' = [found EXCEPT ![s] = no_peer] /\ net_tcp_failed(found[s])
    BY <1>5 DEF mark_failed, goto
  <2>2. /\ isup' \in [Peer -> BOOLEAN] /\ pend' \in [Peer -> BOOLEAN] /\ sock' = sock
        /\ \A t : \A q \in Peer : uses(q, t)' => uses(q, t) /\ q # found[s]
    BY <2>1, Marked
  <2>3. pc'[s] = "check" /\ OthersSame(s)
    BY <1>1, <2>1 DEF IInv, Types, WireTypes, OthersSame
  <2>4. WireTypes'
    BY <1>1, <2>1, <2>2 DEF WireTypes
  <2>5. \A q \in Peer : ~uses(q, s)'
    BY <1>0, <2>1, <2>2 DEF UsersAt
  <2>6. UsersAt(s)' /\ LinesAt(s)'
    BY <1>0, <1>1, <2>3, <2>5 DEF UsersAt, LinesAt
  <2> QED
    BY <1>1, <1>2, <1>3, <2>2, <2>3, <2>4, <2>6, OthersDelivery
<1> QED
  BY <1>4, <1>5

LEMMA WriterDelivery ==
  ASSUME IInv, WireTypes, Delivery, NEW s \in Fd, tcp_writer(s)
  PROVE  WireTypes' /\ Delivery'
  BY WriterMoves, ConnectedDelivery, WriteDelivery, ReportDelivery DEF tcp_writer

\* Incoming connections take descriptors from nobody, and their reports only
\* end connections.
LEMMA IncomingDelivery ==
  ASSUME IInv, WireTypes, Delivery, NEW s \in Fd, accept(s) \/ end_of_file(s)
  PROVE  WireTypes' /\ Delivery'
<1>1. UNCHANGED <<queue, pc, target, buf, found, via, stream, received>>
  BY DEF accept, end_of_file, queue_vars, writer_vars, wire_vars
<1>2. \A t \in Fd : (fd'[t] = "writer") <=> (fd[t] = "writer")
  BY DEF accept, end_of_file, least_free, IInv, Types
<1>3. /\ isup' \in [Peer -> BOOLEAN] /\ pend' \in [Peer -> BOOLEAN] /\ sock' = sock
      /\ \A t : \A q \in Peer : uses(q, t)' => uses(q, t)
  <2>1. CASE UNCHANGED proc_vars
    BY <2>1 DEF proc_vars, WireTypes, uses
  <2>2. CASE net_tcp_failed(found_by_reader[s])
    BY <2>2, Marked
  <2> QED
    BY <2>1, <2>2 DEF accept, end_of_file
<1>4. WireTypes'
  BY <1>1, <1>3 DEF WireTypes
<1>5. ASSUME NEW t \in Fd PROVE UsersAt(t)' /\ LinesAt(t)'
  <2>1. UsersAt(t) /\ LinesAt(t)
    BY DEF Delivery
  <2>2. UsersAt(t)'
    BY <1>1, <1>2, <1>3, <2>1, UsersKept
  <2>3. LinesAt(t)'
    BY <1>1, <2>1, LinesKept
  <2> QED
    BY <2>2, <2>3
<1>6. \A q \in Peer : (isup[q] \/ pend[q])' => sock'[q] \in Fd
  BY <1>3 DEF Delivery, uses
<1> QED
  BY <1>1, <1>4, <1>5, <1>6 DEF Delivery, WiresAt

\* The other end reads a message that is for it.
LEMMA ReadDelivery ==
  ASSUME IInv, WireTypes, Delivery, NEW k \in DOMAIN stream, read(k)
  PROVE  WireTypes' /\ Delivery'
<1>0. /\ k \in 1 .. Len(stream) /\ stream[k] \in Stream /\ WiresAt(k)
      /\ \A i \in 1 .. Len(stream) : WiresAt(i)
  <2>1. stream \in Seq(Stream)
    BY DEF WireTypes
  <2>2. k \in 1 .. Len(stream)
    BY <2>1
  <2> QED
    BY <2>1, <2>2 DEF Delivery
<1>1. UNCHANGED <<isup, pend, sock, fd, queue, pc, target, buf, found, via>>
  BY DEF read, proc_vars, queue_vars, writer_vars
<1>2. PICK b, d, m : b = stream[k].data /\ d = Tail(b) /\ m = Head(b)
  OBVIOUS
<1>3. b # <<>> /\ b \in Seq(Message) /\ received' = received \cup {<<stream[k].to, m>>}
      /\ stream' = [stream EXCEPT ![k].data = d]
  BY <1>0, <1>2 DEF read, Stream
<1>4. /\ d \in Seq(Message) /\ m = b[1] /\ 1 \in 1 .. Len(b)
      /\ \A j \in 1 .. Len(d) : d[j] = b[j + 1] /\ j + 1 \in 1 .. Len(b)
  BY <1>2, <1>3
<1>5. m[2] = stream[k].to /\ \A j \in 1 .. Len(d) : d[j][2] = stream[k].to
  BY <1>0, <1>2, <1>4 DEF WiresAt
<1>6. /\ stream' \in Seq(Stream) /\ Len(stream') = Len(stream)
      /\ \A i \in 1 .. Len(stream) : stream'[i].to = stream[i].to
      /\ \A i \in 1 .. Len(stream') : WiresAt(i)'
  BY <1>0, <1>3, <1>4, <1>5, DataChange
<1>7. WireTypes'
  BY <1>1, <1>6 DEF WireTypes
<1>8. ASSUME NEW t \in Fd PROVE UsersAt(t)' /\ LinesAt(t)'
  <2>1. UsersAt(t) /\ LinesAt(t)
    BY DEF Delivery
  <2>2. \A q \in Peer : uses(q, t)' => uses(q, t)
    BY <1>1 DEF uses
  <2>3. UsersAt(t)'
    BY <1>1, <2>1, <2>2, UsersKept
  <2>4. LinesAt(t)'
    BY <1>1, <1>6, <2>1, LinesKept
  <2> QED
    BY <2>3, <2>4
<1>9. ASSUME NEW r \in received' PROVE r[1] = r[2][2]
  <2>1. CASE r \in received
    BY <2>1 DEF Delivery
  <2>2. CASE r = <<stream[k].to, m>>
    BY <1>5, <2>2
  <2> QED
    BY <1>3, <1>9, <2>1, <2>2
<1>10. \A q \in Peer : (isup[q] \/ pend[q])' => sock'[q] \in Fd
  BY <1>1 DEF Delivery
<1> QED
  BY <1>6, <1>7, <1>8, <1>9, <1>10 DEF Delivery

\* raced is a record of the past: it is never reset.
LEMMA RacedStays ==
  ASSUME IInv, raced \in BOOLEAN, [Next]_vars
  PROVE  raced' \in BOOLEAN /\ (raced => raced')
<1>1. \A p, s : failing(p, s) \in BOOLEAN
  BY DEF failing
<1>2. ASSUME NEW p \in Peer, net_send(p) PROVE raced' \in BOOLEAN /\ (raced => raced')
  <2>1. raced' = raced \/ (\E s \in Fd : raced' = (raced \/ failing(p, s)))
    BY <1>2 DEF net_send, send_down, send_pending, send_up, send_failed, connect
  <2> QED
    BY <1>1, <2>1
<1>3. ASSUME NEW s \in Fd, tcp_writer(s) PROVE raced' = raced
  BY <1>3 DEF tcp_writer, wait_open, down, connected, refused, dequeue_swap, send,
       fail_close, close, find_failed, mark_failed, env_vars
<1>4. ASSUME NEW s \in Fd, accept(s) \/ end_of_file(s) PROVE raced' = raced
  BY <1>4 DEF accept, end_of_file, env_vars
<1>5. ASSUME NEW k, read(k) PROVE raced' = raced
  BY <1>5 DEF read, env_vars
<1>6. CASE UNCHANGED vars
  BY <1>6 DEF vars, env_vars
<1> QED
  BY <1>2, <1>3, <1>4, <1>5, <1>6 DEF Next

LEMMA NextDInv == DInv /\ [Next]_vars => DInv'
<1> SUFFICES ASSUME DInv, [Next]_vars PROVE DInv'
  OBVIOUS
<1>1. IInv /\ IInv' /\ raced' \in BOOLEAN /\ (raced => raced')
  BY NextIInv, RacedStays DEF DInv
<1>2. ASSUME ~raced' PROVE WireTypes' /\ Delivery'
  <2>1. WireTypes /\ Delivery
    BY <1>1, <1>2 DEF DInv
  <2>2. ASSUME NEW p \in Peer, net_send(p) PROVE WireTypes' /\ Delivery'
    BY <1>1, <1>2, <2>1, <2>2, SendDelivery
  <2>3. ASSUME NEW s \in Fd, tcp_writer(s) \/ accept(s) \/ end_of_file(s)
        PROVE  WireTypes' /\ Delivery'
    BY <1>1, <2>1, <2>3, WriterDelivery, IncomingDelivery
  <2>4. ASSUME NEW k \in DOMAIN stream, read(k) PROVE WireTypes' /\ Delivery'
    BY <1>1, <2>1, <2>4, ReadDelivery
  <2>5. CASE UNCHANGED vars
    <3>1. UNCHANGED <<isup, pend, sock, fd, queue, pc, target, buf, found, via, stream, received>>
      BY <2>5 DEF vars, proc_vars, queue_vars, writer_vars, wire_vars
    <3> QED
      BY <2>1, <3>1 DEF WireTypes, Delivery, UsersAt, LinesAt, WiresAt, uses
  <2> QED
    BY <2>2, <2>3, <2>4, <2>5 DEF Next
<1> QED
  BY <1>1, <1>2 DEF DInv

\* Unless a failure report came late and hit a new connection, every message
\* that net.send queued, the writer threads wrote and a peer read was read by
\* the node it was sent to, although descriptors, queues and writer threads are
\* reused for other peers.
THEOREM Delivered == Spec => []DeliveredUnlessRaced
<1>1. DInv => DeliveredUnlessRaced
  BY DEF DInv, Delivery, DeliveredUnlessRaced
<1> QED
  BY <1>1, InitDInv, NextDInv, PTL DEF Spec

-----------------------------------------------------------------------------
(***************************************************************************)
(* The bytes of a message (MultiPaxosWire): numbers, strings and lists are *)
(* read as they were written.                                              *)
(***************************************************************************)
CONSTANTS Base, Word, Chunk, Messages, MaxSent

VARIABLES sent, wire, closed, inp, pos, todo, got, delivered, failed, exited

W == INSTANCE MultiPaxosWire WITH stream <- wire

\* What Serializer and MultiPaxosWire assume of their constants.
WireAssumption ==
    /\ Base \in Nat \ {0, 1} /\ Word \in Nat \ {0} /\ Chunk \in Nat \ {0}
    /\ Messages \subseteq W!Message

\* A function on 1 .. k is a sequence of length k.
LEMMA Lengths ==
  ASSUME NEW k \in Nat, NEW f, f = [l \in 1 .. k |-> f[l]]
  PROVE  Len(f) = k /\ f \in Seq({f[l] : l \in 1 .. k})
<1>1. PICK T : T = {f[l] : l \in 1 .. k}
  OBVIOUS
<1>2. f \in [1 .. k -> T]
  BY <1>1
<1> QED
  BY <1>1, <1>2

\* Append adds one to the domain of such a function.
LEMMA Appended ==
  ASSUME NEW k \in Nat, NEW f, f = [l \in 1 .. k |-> f[l]], NEW e
  PROVE  Append(f, e) = [l \in 1 .. k + 1 |-> IF l <= k THEN f[l] ELSE e]
<1>1. PICK T : T = {f[l] : l \in 1 .. k} \cup {e}
  OBVIOUS
<1>2. f \in [1 .. k -> T] /\ e \in T
  BY <1>1
<1>3. f \in Seq(T) /\ Len(f) = k
  BY <1>2
<1>4. Append(f, e) \in Seq(T) /\ Len(Append(f, e)) = k + 1
  BY <1>2, <1>3
<1>5. Append(f, e) = [l \in 1 .. k + 1 |-> Append(f, e)[l]]
  <2>1. \A o \in Seq(T) : o = [l \in 1 .. Len(o) |-> o[l]]
    OBVIOUS
  <2> QED
    BY <1>4, <2>1
<1>6. \A l \in 1 .. k + 1 : Append(f, e)[l] = IF l <= k THEN f[l] ELSE e
  BY <1>2, <1>3
<1> QED
  BY <1>5, <1>6

\* The order of the numbers.
Less == {ss \in Nat \X Nat : ss[1] < ss[2]}

\* Any set of numbers that is not empty has a least one.
LEMMA LeastNumber == \A T \in SUBSET Nat : T # {} => \E x \in T : \A y \in T : x <= y
<1> SUFFICES ASSUME NEW T \in SUBSET Nat, T # {}
             PROVE  \E x \in T : \A y \in T : x <= y
  OBVIOUS
<1>1. IsWellFoundedOn(Less, Nat)
  BY NatLessThanWellFounded DEF OpToRel, Less
<1>2. PICK x \in T : \A y \in T : ~(<<y, x>> \in Less)
  BY <1>1, WFMin
<1>3. \A y \in T : x <= y
  <2> SUFFICES ASSUME NEW y \in T, y < x
               PROVE  FALSE
    OBVIOUS
  <2>1. <<y, x>> \in Less
    BY DEF Less
  <2> QED
    BY <1>2, <2>1
<1> QED
  BY <1>3

\* What holds of 0, and of each number if of the one before, holds up to n.
LEMMA UpTo ==
  ASSUME NEW n \in Nat, NEW Q \in SUBSET (0 .. n), 0 \in Q,
         \A k \in 1 .. n : k - 1 \in Q => k \in Q
  PROVE  Q = 0 .. n
<1>1. PICK Bad : Bad = (0 .. n) \ Q
  OBVIOUS
<1>2. Bad = {}
  <2> SUFFICES ASSUME Bad # {} PROVE FALSE
    OBVIOUS
  <2>1. Bad \in SUBSET Nat
    BY <1>1
  <2>2. PICK k \in Bad : \A y \in Bad : k <= y
    BY <2>1, LeastNumber
  <2>3. k \in 1 .. n /\ k - 1 \in 0 .. n
    BY <1>1, <2>2
  <2>4. k - 1 \notin Bad
    BY <2>2, <2>3
  <2> QED
    BY <1>1, <2>2, <2>3, <2>4
<1> QED
  BY <1>1, <1>2

\* A function defined by what comes before: f goes from a by the steps h.
iterates(f, n, a, h) == f[0] = a /\ \A k \in 1 .. n : f[k] = h[<<k, f[k - 1]>>]

\* Such a function exists: otherwise there is a least place up to which there is none.
LEMMA Iterates ==
  ASSUME NEW n \in Nat, NEW S, NEW a \in S, NEW h \in [(1 .. n) \X S -> S]
  PROVE  \E f \in [0 .. n -> S] : iterates(f, n, a, h)
<1>1. PICK Q : Q = {k \in 0 .. n : \E f \in [0 .. k -> S] : iterates(f, k, a, h)}
  OBVIOUS
<1>2. 0 \in Q
  <2>1. PICK f : f = [j \in 0 .. 0 |-> a]
    OBVIOUS
  <2>2. f \in [0 .. 0 -> S] /\ iterates(f, 0, a, h)
    BY <2>1 DEF iterates
  <2> QED
    BY <1>1, <2>2
<1>3. ASSUME NEW k \in 1 .. n, k - 1 \in Q PROVE k \in Q
  <2>1. PICK f \in [0 .. k - 1 -> S] : iterates(f, k - 1, a, h)
    BY <1>1, <1>3
  <2>2. PICK g : g = [j \in 0 .. k |-> IF j = k THEN h[<<k, f[k - 1]>>] ELSE f[j]]
    OBVIOUS
  <2>3. /\ k - 1 \in 0 .. k - 1 /\ k \in Nat /\ k # 0 /\ f[k - 1] \in S
        /\ h[<<k, f[k - 1]>>] \in S
    BY <2>1
  <2>4. \A j \in 0 .. k : j # k => j \in 0 .. k - 1
    OBVIOUS
  <2>5. g \in [0 .. k -> S]
    BY <2>2, <2>3, <2>4
  <2>6. ASSUME NEW j \in 1 .. k PROVE g[j] = h[<<j, g[j - 1]>>]
    <3>1. j - 1 \in 0 .. k - 1 /\ j - 1 # k /\ g[j - 1] = f[j - 1] /\ j \in 0 .. k
      BY <2>2, <2>3
    <3>2. CASE j = k
      BY <2>2, <3>1, <3>2
    <3>3. CASE j # k
      <4>1. j \in 1 .. k - 1 /\ g[j] = f[j]
        BY <2>2, <3>1, <3>3
      <4> QED
        BY <2>1, <3>1, <4>1 DEF iterates
    <3> QED
      BY <3>2, <3>3
  <2>7. g[0] = a
    <3>1. 0 \in 0 .. k
      BY <2>3
    <3> QED
      BY <2>1, <2>2, <2>3, <3>1 DEF iterates
  <2>8. iterates(g, k, a, h)
    BY <2>6, <2>7 DEF iterates
  <2>9. k \in 0 .. n
    OBVIOUS
  <2> QED
    BY <1>1, <2>5, <2>8, <2>9
<1>4. Q = 0 .. n
  <2>1. Q \in SUBSET (0 .. n)
    BY <1>1
  <2> QED
    BY <1>2, <1>3, <2>1, UpTo
<1>5. n \in Q
  BY <1>4
<1> QED
  BY <1>1, <1>5

-----------------------------------------------------------------------------
(***************************************************************************)
(* Numbers.                                                                *)
(***************************************************************************)
\* A remainder does not change the quotient.
LEMMA Quotient ==
  ASSUME NEW c \in Nat \ {0}, NEW y \in Nat, NEW r \in 0 .. c - 1
  PROVE  (y * c + r) \div c = y
<1>1. PICK x \in Nat, d \in Nat, t \in 0 .. c - 1 :
        x = y * c + r /\ d = x \div c /\ t = x % c /\ x = d * c + t
  <2>1. y * c + r \in Nat
    OBVIOUS
  <2>2. ASSUME NEW x \in Nat
        PROVE  x \div c \in Nat /\ x % c \in 0 .. c - 1 /\ x = (x \div c) * c + (x % c)
    OBVIOUS
  <2> QED
    BY <2>1, <2>2
<1>2. ASSUME NEW m \in Nat, NEW n \in Nat, NEW u \in 0 .. c - 1, NEW v \in 0 .. c - 1,
             m * c + u = n * c + v
      PROVE  ~(m < n)
  <2> SUFFICES ASSUME m < n PROVE FALSE
    OBVIOUS
  <2>1. PICK k \in Nat : k = n - m - 1
    OBVIOUS
  <2>2. n = m + 1 + k
    BY <2>1
  <2>3. n * c = m * c + c + k * c
    BY <2>2
  <2>4. PICK mc \in Nat, nc \in Nat, kc \in Nat : mc = m * c /\ nc = n * c /\ kc = k * c
    OBVIOUS
  <2> QED
    BY <1>2, <2>3, <2>4
<1>3. ~(y < d) /\ ~(d < y)
  BY <1>1, <1>2
<1> QED
  BY <1>1, <1>3

\* Dividing twice is dividing by the product.
LEMMA DivDiv ==
  ASSUME NEW x \in Nat, NEW a \in Nat \ {0}, NEW b \in Nat \ {0}
  PROVE  /\ a * b \in Nat \ {0}
         /\ (x \div a) \div b = x \div (a * b)
<1>1. PICK q, r, s, t : q = x \div a /\ r = x % a /\ s = q \div b /\ t = q % b
  OBVIOUS
<1>2. q \in Nat /\ x = a * q + r /\ r \in 0 .. a - 1
  BY <1>1
<1>3. s \in Nat /\ q = b * s + t /\ t \in 0 .. b - 1
  BY <1>1, <1>2
<1>4. PICK c \in Nat, e \in Nat, f \in Nat : c = a * b /\ e = a * t /\ f = a * (b - 1 - t)
  <2>1. t \in Nat /\ b - 1 - t \in Nat
    BY <1>3
  <2> QED
    BY <2>1
<1>5. x = s * c + (e + r)
  <2>1. PICK aq \in Nat, bs \in Nat, sc \in Nat : aq = a * q /\ bs = b * s /\ sc = s * c
    BY <1>2, <1>3, <1>4
  <2>2. aq = a * bs + e
    BY <1>3, <1>4, <2>1
  <2>3. a * bs = sc
    BY <1>3, <1>4, <2>1
  <2> QED
    BY <1>2, <1>4, <2>1, <2>2, <2>3
<1>6. e + r \in 0 .. c - 1
  <2>1. e + f = a * (b - 1)
    BY <1>3, <1>4
  <2>2. a * (b - 1) = c - a
    BY <1>4
  <2> QED
    BY <1>2, <1>4, <2>1, <2>2
<1>7. c \in Nat \ {0}
  BY <1>6, <1>4, <1>2, <1>3
<1>8. (s * c + (e + r)) \div c = s
  BY <1>3, <1>6, <1>7, Quotient
<1> QED
  BY <1>1, <1>4, <1>5, <1>7, <1>8

\* The equation of power.
LEMMA Powers ==
  ASSUME WireAssumption
  PROVE  /\ \A k \in 0 .. Word : W!power[k] \in Nat \ {0}
  /\ W!power[0] = 1
  /\ \A k \in 1 .. Word : W!power[k] = W!power[k - 1] * Base
<1>1. Word \in Nat /\ Base \in Nat \ {0}
  BY DEF WireAssumption
<1>2. PICK S : S = Nat \ {0}
  OBVIOUS
<1>3. PICK h : h = [c \in (1 .. Word) \X S |-> c[2] * Base]
  OBVIOUS
<1>4. h \in [(1 .. Word) \X S -> S] /\ 1 \in S
  BY <1>1, <1>2, <1>3
<1>5. PICK f \in [0 .. Word -> S] : iterates(f, Word, 1, h)
  BY <1>1, <1>4, Iterates
<1>6. f[0] = 1 /\ \A k \in 1 .. Word : f[k] = f[k - 1] * Base
  <2>1. ASSUME NEW k \in 1 .. Word PROVE f[k] = f[k - 1] * Base
    <3>1. k - 1 \in 0 .. Word
      BY <1>1
    <3>2. f[k - 1] \in S
      BY <1>5, <3>1
    <3>3. <<k, f[k - 1]>> \in (1 .. Word) \X S
      BY <3>2
    <3> QED
      BY <1>3, <1>5, <3>3 DEF iterates
  <2> QED
    BY <1>5, <2>1 DEF iterates
<1>7. f = [k \in 0 .. Word |-> IF k = 0 THEN 1 ELSE f[k - 1] * Base]
  <2>1. \A k \in 0 .. Word : f[k] = IF k = 0 THEN 1 ELSE f[k - 1] * Base
    BY <1>6
  <2> QED
    BY <2>1, <1>5
<1>8. PICK p : p = W!power
  OBVIOUS
<1>9. p = [k \in 0 .. Word |-> IF k = 0 THEN 1 ELSE p[k - 1] * Base]
  BY <1>7, <1>8 DEF W!power
<1>10. p = f
  <2>1. PICK Q : Q = {k \in 0 .. Word : p[k] = f[k]}
    OBVIOUS
  <2>2. 0 \in Q
    BY <1>1, <1>6, <1>9, <2>1
  <2>3. ASSUME NEW k \in 1 .. Word, k - 1 \in Q PROVE k \in Q
    <3>1. k \in 0 .. Word /\ k # 0
      BY <1>1
    <3>2. p[k] = p[k - 1] * Base
      BY <1>9, <3>1
    <3> QED
      BY <1>6, <2>1, <2>3, <3>1, <3>2
  <2>4. Q \in SUBSET (0 .. Word)
    BY <2>1
  <2>5. Q = 0 .. Word
    BY <1>1, <2>2, <2>3, <2>4, UpTo
  <2>6. \A k \in 0 .. Word : p[k] = f[k]
    BY <2>1, <2>5
  <2>7. p = [k \in 0 .. Word |-> p[k]]
    BY <1>9
  <2> QED
    BY <1>5, <2>6, <2>7
<1> QED
  BY <1>2, <1>5, <1>6, <1>8, <1>10

\* A number's bytes give it back: their first k are its quotient by the power of the rest.
LEMMA NumberRead ==
  ASSUME WireAssumption, NEW x \in W!Number
  PROVE  /\ W!ser_int(x) \in [1 .. Word -> W!Byte]
         /\ W!ser_int(x) \in Seq(W!Byte) /\ Len(W!ser_int(x)) = Word
         /\ W!getn(W!ser_int(x)) = x
<1>1. Word \in Nat \ {0} /\ Base \in Nat \ {0, 1}
  BY DEF WireAssumption
<1>2. PICK b : b = W!ser_int(x)
  OBVIOUS
<1>3. PICK p : p = W!power
  OBVIOUS
<1>4. /\ \A k \in 0 .. Word : p[k] \in Nat \ {0}
      /\ p[0] = 1
      /\ \A k \in 1 .. Word : p[k] = p[k - 1] * Base
  BY <1>3, Powers
<1>5. x \in Nat /\ 2 * x < p[Word]
  BY <1>3 DEF W!Number
<1>6. b = [i \in 1 .. Word |-> (x \div p[Word - i]) % Base]
  BY <1>2, <1>3 DEF W!ser_int, W!setn
<1>7. b \in [1 .. Word -> W!Byte]
  <2>1. ASSUME NEW i \in 1 .. Word PROVE (x \div p[Word - i]) % Base \in W!Byte
    <3>1. Word - i \in 0 .. Word
      BY <1>1
    <3>2. PICK d \in Nat \ {0} : d = p[Word - i]
      BY <1>4, <3>1
    <3>3. x \div d \in Nat
      BY <1>5
    <3>4. (x \div d) % Base \in 0 .. Base - 1
      BY <1>1, <3>3
    <3> QED
      BY <3>2, <3>4 DEF W!Byte
  <2> QED
    BY <1>6, <2>1
<1>8. b \in Seq(W!Byte) /\ Len(b) = Word
  BY <1>1, <1>7
<1>9. PICK f : f = [k \in 0 .. Word |-> x \div p[Word - k]]
  OBVIOUS
<1>10. f[0] = 0
  <2>1. PICK d \in Nat \ {0} : d = p[Word]
    BY <1>1, <1>4
  <2>2. (0 * d + x) \div d = 0
    <3>1. x \in 0 .. d - 1
      BY <1>5, <2>1
    <3> QED
      BY <3>1, Quotient
  <2>3. x \div d = 0
    BY <1>5, <2>2
  <2> QED
    BY <1>1, <1>9, <2>1, <2>3
<1>11. f[Word] = x
  <2>1. (x * 1 + 0) \div 1 = x
    BY <1>5, Quotient
  <2>2. x \div 1 = x
    BY <1>5, <2>1
  <2> QED
    BY <1>1, <1>4, <1>9, <2>2
<1>12. ASSUME NEW k \in 1 .. Word PROVE f[k] = f[k - 1] * Base + b[k]
  <2>1. PICK d \in Nat \ {0} : d = p[Word - k]
    BY <1>1, <1>4
  <2>2. p[Word - (k - 1)] = d * Base
    <3>1. /\ Word - k + 1 \in 1 .. Word /\ (Word - k + 1) - 1 = Word - k
          /\ Word - (k - 1) = Word - k + 1
      BY <1>1
    <3> QED
      BY <1>4, <2>1, <3>1
  <2>3. PICK q \in Nat : q = x \div d
    BY <1>5
  <2>4. q \div Base = x \div (d * Base)
    BY <1>1, <1>5, <2>3, DivDiv
  <2>5. f[k] = q
    BY <1>9, <2>1, <2>3
  <2>6. f[k - 1] = q \div Base
    <3>1. k - 1 \in 0 .. Word
      BY <1>1
    <3> QED
      BY <1>9, <2>2, <2>4, <3>1
  <2>7. b[k] = q % Base
    BY <1>6, <2>1, <2>3
  <2>8. q = (q \div Base) * Base + (q % Base)
    BY <1>1
  <2> QED
    BY <2>5, <2>6, <2>7, <2>8
<1>13. PICK y : y = CHOOSE g :
                   g = [k \in 0 .. Len(b) |-> IF k = 0 THEN 0 ELSE g[k - 1] * Base + b[k]]
  OBVIOUS
<1>14. W!getn(b) = IF 2 * y[Len(b)] >= p[Len(b)] THEN y[Len(b)] - p[Len(b)] ELSE y[Len(b)]
  BY <1>3, <1>13 DEF W!getn
<1>15. y = [k \in 0 .. Word |-> IF k = 0 THEN 0 ELSE y[k - 1] * Base + b[k]]
  <2>1. f = [k \in 0 .. Word |-> f[k]]
    BY <1>9
  <2>2. \A k \in 0 .. Word : f[k] = IF k = 0 THEN 0 ELSE f[k - 1] * Base + b[k]
    BY <1>10, <1>12
  <2>3. f = [k \in 0 .. Word |-> IF k = 0 THEN 0 ELSE f[k - 1] * Base + b[k]]
    BY <2>1, <2>2
  <2> QED
    BY <1>8, <1>13, <2>3
<1>16. y[Word] = x
  <2>1. PICK Q : Q = {k \in 0 .. Word : y[k] = f[k]}
    OBVIOUS
  <2>2. 0 \in Q
    BY <1>1, <1>10, <1>15, <2>1
  <2>3. ASSUME NEW k \in 1 .. Word, k - 1 \in Q PROVE k \in Q
    <3>1. k \in 0 .. Word /\ k # 0
      BY <1>1
    <3>2. y[k] = y[k - 1] * Base + b[k]
      BY <1>15, <3>1
    <3> QED
      BY <1>12, <2>1, <2>3, <3>1, <3>2
  <2>4. Q \in SUBSET (0 .. Word)
    BY <2>1
  <2>5. Q = 0 .. Word
    BY <1>1, <2>2, <2>3, <2>4, UpTo
  <2>6. Word \in Q
    BY <1>1, <2>5
  <2> QED
    BY <1>11, <2>1, <2>6
<1>17. W!getn(b) = x
  <2>1. PICK t \in Nat : t = p[Word]
    BY <1>1, <1>4
  <2> QED
    BY <1>5, <1>8, <1>14, <1>16, <2>1
<1> QED
  BY <1>2, <1>7, <1>8, <1>17

-----------------------------------------------------------------------------
(***************************************************************************)
(* Sequences of fields.                                                    *)
(***************************************************************************)

\* A flattened sequence is made by appending its elements one by one.
flattens(f, s) == f[0] = <<>> /\ \A k \in 1 .. Len(s) : f[k] = f[k - 1] \o s[k]

\* FlattenSeq joins the sequences one after another.
LEMMA Flattened ==
  ASSUME NEW T, NEW s \in Seq(Seq(T))
  PROVE  \E f \in [0 .. Len(s) -> Seq(T)] : flattens(f, s) /\ W!FlattenSeq(s) = f[Len(s)]
<1>1. PICK n \in Nat : n = Len(s)
  OBVIOUS
<1>2. PICK S : S = Seq(T)
  OBVIOUS
<1>3. PICK h : h = [c \in (1 .. n) \X S |-> c[2] \o s[c[1]]]
  OBVIOUS
<1>4. h \in [(1 .. n) \X S -> S]
  <2>1. ASSUME NEW k \in 1 .. n, NEW u \in Seq(T) PROVE u \o s[k] \in Seq(T)
    BY <1>1
  <2> QED
    BY <1>2, <1>3, <2>1
<1>5. <<>> \in S
  BY <1>2
<1>6. PICK f \in [0 .. n -> S] : iterates(f, n, <<>>, h)
  BY <1>4, <1>5, Iterates
<1>7. \A k \in 1 .. n : k - 1 \in 0 .. n /\ f[k - 1] \in S /\ f[k] = f[k - 1] \o s[k]
  <2>1. ASSUME NEW k \in 1 .. n
        PROVE  k - 1 \in 0 .. n /\ f[k - 1] \in S /\ f[k] = f[k - 1] \o s[k]
    <3>1. k - 1 \in 0 .. n
      OBVIOUS
    <3>2. f[k - 1] \in S
      BY <1>6, <3>1
    <3>3. <<k, f[k - 1]>> \in (1 .. n) \X S
      BY <3>2
    <3> QED
      BY <1>3, <1>6, <3>1, <3>2, <3>3 DEF iterates
  <2> QED
    BY <2>1
<1>8. flattens(f, s)
  BY <1>1, <1>6, <1>7 DEF flattens, iterates
<1>9. CASE n = 0
  <2>1. s = <<>>
    <3>1. \A o \in Seq(S) : Len(o) = 0 => o = <<>>
      OBVIOUS
    <3> QED
      BY <1>1, <1>2, <1>9, <3>1
  <2>2. W!FlattenSeq(s) = s
    BY <1>1, <1>9 DEF W!FlattenSeq
  <2> QED
    BY <1>1, <1>2, <1>6, <1>8, <1>9, <2>1, <2>2 DEF iterates
<1>10. CASE n # 0
  <2>1. PICK g : g = CHOOSE e : e = [k \in 1 .. Len(s) |-> IF k = 1 THEN s[k] ELSE e[k - 1] \o s[k]]
    OBVIOUS
  <2>2. W!FlattenSeq(s) = g[n]
    BY <1>1, <1>10, <2>1 DEF W!FlattenSeq
  <2>3. PICK r : r = [k \in 1 .. n |-> f[k]]
    OBVIOUS
  <2>4. ASSUME NEW k \in 1 .. n PROVE r[k] = IF k = 1 THEN s[k] ELSE r[k - 1] \o s[k]
    <3>1. CASE k = 1
      <4>1. f[0] = <<>>
        BY <1>8 DEF flattens
      <4>2. s[k] \in Seq(T)
        BY <1>1
      <4>3. <<>> \o s[k] = s[k]
        BY <4>2
      <4>4. f[k] = f[k - 1] \o s[k]
        BY <1>7
      <4>5. f[k - 1] = <<>>
        BY <3>1, <4>1
      <4>6. r[k] = s[k]
        BY <2>3, <4>3, <4>4, <4>5
      <4> QED
        BY <3>1, <4>6
    <3>2. CASE k # 1
      <4>1. k - 1 \in 1 .. n
        BY <3>2
      <4>2. f[k] = f[k - 1] \o s[k]
        BY <1>7
      <4> QED
        BY <2>3, <3>2, <4>1, <4>2
    <3> QED
      BY <3>1, <3>2
  <2>5. r = [k \in 1 .. n |-> IF k = 1 THEN s[k] ELSE r[k - 1] \o s[k]]
    <3>1. r = [k \in 1 .. n |-> r[k]]
      BY <2>3
    <3> QED
      BY <2>4, <3>1
  <2>6. g = [k \in 1 .. n |-> IF k = 1 THEN s[k] ELSE g[k - 1] \o s[k]]
    <3>1. r = [k \in 1 .. Len(s) |-> IF k = 1 THEN s[k] ELSE r[k - 1] \o s[k]]
      BY <1>1, <2>5
    <3>2. g = [k \in 1 .. Len(s) |-> IF k = 1 THEN s[k] ELSE g[k - 1] \o s[k]]
      BY <2>1, <3>1
    <3> QED
      BY <1>1, <3>2
  <2>7. PICK Q : Q = {k \in 0 .. n : k = 0 \/ g[k] = f[k]}
    OBVIOUS
  <2>8. 0 \in Q /\ Q \in SUBSET (0 .. n)
    BY <2>7
  <2>9. ASSUME NEW k \in 1 .. n, k - 1 \in Q PROVE k \in Q
    <3>1. CASE k = 1
      <4>1. g[k] = s[k]
        BY <2>6, <3>1
      <4>2. r[k] = s[k]
        BY <2>4, <3>1
      <4> QED
        BY <2>3, <2>7, <4>1, <4>2
    <3>2. CASE k # 1
      <4>1. g[k] = g[k - 1] \o s[k]
        BY <2>6, <3>2
      <4>2. g[k - 1] = f[k - 1]
        BY <2>7, <2>9, <3>2
      <4>3. f[k] = f[k - 1] \o s[k]
        BY <1>7
      <4>4. g[k] = f[k]
        BY <4>1, <4>2, <4>3
      <4> QED
        BY <2>7, <4>4
    <3> QED
      BY <3>1, <3>2
  <2>10. Q = 0 .. n
    BY <2>8, <2>9, UpTo
  <2>11. n \in Q
    BY <2>10
  <2> QED
    BY <1>1, <1>2, <1>6, <1>8, <1>10, <2>2, <2>7, <2>11
<1> QED
  BY <1>9, <1>10

FieldType == {"int", "str", "list"}
Read == W!Number \cup W!String      \* what a field's bytes are read as

\* A field of this type, read as x, takes the bytes of b from p to q.
field(b, p, q, type, x) ==
    /\ q <= Len(b)
    /\ \/ /\ type \in {"int", "list"} /\ x \in W!Number
          /\ q = p + Word
          /\ \A i \in 1 .. Word : b[p + i] = W!ser_int(x)[i]
       \/ /\ type = "str" /\ x \in W!String
          /\ q = p + Len(x) + 1
          /\ \A i \in 1 .. Len(x) : b[p + i] = x[i]
          /\ b[q] = 0

\* The bytes b are fields of these types, read as v; at is where each ends.
fields(b, types, v, at) ==
    /\ b \in Seq(W!Byte) /\ types \in Seq(FieldType) /\ v \in Seq(Read)
    /\ Len(v) = Len(types)
    /\ at[0] = 0 /\ at[Len(types)] = Len(b)
    /\ \A k \in 1 .. Len(types) : field(b, at[k - 1], at[k], types[k], v[k])

Fields(b, types, v) == \E at \in [0 .. Len(types) -> Nat] : fields(b, types, v, at)

\* A field of b is the same field of any bytes that have b at that place.
LEMMA FieldInside ==
  ASSUME WireAssumption, NEW b \in Seq(W!Byte), NEW c \in Seq(W!Byte), NEW p \in Nat, NEW q \in Nat,
         NEW type, NEW x
  PROVE  /\ field(b, p, q, type, x) => field(b \o c, p, q, type, x)
         /\ field(c, p, q, type, x) => field(b \o c, Len(b) + p, Len(b) + q, type, x)
<1>1. Word \in Nat
  BY DEF WireAssumption
<1>2. PICK T : T = W!Byte
  OBVIOUS
<1> PICK e : e = b \o c
  OBVIOUS
<1>3. PICK m \in Nat, n \in Nat :
        /\ e = b \o c /\ m = Len(b) /\ n = Len(c) /\ Len(e) = m + n
        /\ \A i \in 1 .. m : e[i] = b[i]
        /\ \A i \in 1 .. n : e[m + i] = c[i]
  <2>1. b \in Seq(T) /\ c \in Seq(T)
    BY <1>2
  <2>2. \A u \in Seq(T), v \in Seq(T) :
            /\ Len(u) \in Nat /\ Len(v) \in Nat /\ Len(u \o v) = Len(u) + Len(v)
            /\ \A i \in 1 .. Len(u) : (u \o v)[i] = u[i]
            /\ \A i \in 1 .. Len(v) : (u \o v)[Len(u) + i] = v[i]
    OBVIOUS
  <2> QED
    BY <2>1, <2>2
<1>4. ASSUME field(b, p, q, type, x) PROVE field(e, p, q, type, x)
  <2>1. q <= m
    BY <1>3, <1>4 DEF field
  <2>2. CASE type \in {"int", "list"} /\ x \in W!Number
               /\ q = p + Word /\ \A i \in 1 .. Word : b[p + i] = W!ser_int(x)[i]
    <3>1. \A i \in 1 .. Word : p + i \in 1 .. m
      BY <1>1, <2>1, <2>2
    <3> QED
      BY <1>3, <2>1, <2>2, <3>1 DEF field
  <2>3. CASE type = "str" /\ x \in W!String /\ q = p + Len(x) + 1
               /\ (\A i \in 1 .. Len(x) : b[p + i] = x[i]) /\ b[q] = 0
    <3>1. PICK l \in Nat : l = Len(x)
      BY <2>3 DEF W!String
    <3>2. q \in 1 .. m /\ \A i \in 1 .. l : p + i \in 1 .. m
      BY <2>1, <2>3, <3>1
    <3> QED
      BY <1>3, <2>1, <2>3, <3>1, <3>2 DEF field
  <2> QED
    BY <1>4, <2>2, <2>3 DEF field
<1>5. ASSUME field(c, p, q, type, x) PROVE field(e, m + p, m + q, type, x)
  <2>1. q <= n
    BY <1>3, <1>5 DEF field
  <2>2. CASE type \in {"int", "list"} /\ x \in W!Number
               /\ q = p + Word /\ \A i \in 1 .. Word : c[p + i] = W!ser_int(x)[i]
    <3>1. \A i \in 1 .. Word : p + i \in 1 .. n /\ (m + p) + i = m + (p + i)
      BY <1>1, <2>1, <2>2
    <3>2. \A i \in 1 .. Word : e[(m + p) + i] = W!ser_int(x)[i]
      BY <1>3, <2>2, <3>1
    <3>3. m + q <= Len(e) /\ m + q = (m + p) + Word
      BY <1>1, <1>3, <2>1, <2>2
    <3> QED
      BY <2>2, <3>2, <3>3 DEF field
  <2>3. CASE type = "str" /\ x \in W!String /\ q = p + Len(x) + 1
               /\ (\A i \in 1 .. Len(x) : c[p + i] = x[i]) /\ c[q] = 0
    <3>1. PICK l \in Nat : l = Len(x)
      BY <2>3 DEF W!String
    <3>2. q \in 1 .. n /\ \A i \in 1 .. l : p + i \in 1 .. n /\ (m + p) + i = m + (p + i)
      BY <2>1, <2>3, <3>1
    <3>3. \A i \in 1 .. l : e[(m + p) + i] = x[i]
      BY <1>3, <2>3, <3>1, <3>2
    <3>4. e[m + q] = 0
      BY <1>3, <2>3, <3>2
    <3>5. m + q <= Len(e) /\ m + q = (m + p) + l + 1
      BY <1>3, <2>1, <2>3, <3>1
    <3> QED
      BY <2>3, <3>1, <3>3, <3>4, <3>5 DEF field
  <2> QED
    BY <1>5, <2>2, <2>3 DEF field
<1> QED
  BY <1>3, <1>4, <1>5

\* The fields of two sequences of bytes are those of the two joined.
LEMMA FieldsBoth ==
  ASSUME WireAssumption, NEW b, NEW s, NEW v, Fields(b, s, v), NEW c, NEW t, NEW w, Fields(c, t, w)
  PROVE  Fields(b \o c, s \o t, v \o w)
<1>1. PICK at \in [0 .. Len(s) -> Nat] : fields(b, s, v, at)
  BY DEF Fields
<1>2. PICK bt \in [0 .. Len(t) -> Nat] : fields(c, t, w, bt)
  BY DEF Fields
<1>3. /\ b \in Seq(W!Byte) /\ s \in Seq(FieldType) /\ v \in Seq(Read) /\ Len(v) = Len(s)
      /\ c \in Seq(W!Byte) /\ t \in Seq(FieldType) /\ w \in Seq(Read) /\ Len(w) = Len(t)
  BY <1>1, <1>2 DEF fields
<1>4. PICK m \in Nat, n \in Nat, l \in Nat, k \in Nat :
        m = Len(s) /\ n = Len(t) /\ l = Len(b) /\ k = Len(c)
  BY <1>3
<1>5. PICK st : st = s \o t
  OBVIOUS
<1>6. PICK vw : vw = v \o w
  OBVIOUS
<1>7. PICK bc : bc = b \o c
  OBVIOUS
<1>8. ASSUME NEW T, NEW u \in Seq(T), NEW z \in Seq(T)
      PROVE  /\ u \o z \in Seq(T) /\ Len(u \o z) = Len(u) + Len(z)
             /\ \A i \in 1 .. Len(u) : (u \o z)[i] = u[i]
             /\ \A i \in 1 .. Len(z) : (u \o z)[Len(u) + i] = z[i]
  OBVIOUS
<1>9. bc \in Seq(W!Byte) /\ Len(bc) = l + k
  BY <1>3, <1>4, <1>7, <1>8
<1>10. /\ st \in Seq(FieldType) /\ Len(st) = m + n
       /\ \A i \in 1 .. m : st[i] = s[i]
       /\ \A i \in 1 .. n : st[m + i] = t[i]
  BY <1>3, <1>4, <1>5, <1>8
<1>11. /\ vw \in Seq(Read) /\ Len(vw) = m + n
       /\ \A i \in 1 .. m : vw[i] = v[i]
       /\ \A i \in 1 .. n : vw[m + i] = w[i]
  <2>1. Len(v) = m /\ Len(w) = n
    BY <1>3, <1>4
  <2>2. /\ v \o w \in Seq(Read) /\ Len(v \o w) = Len(v) + Len(w)
        /\ \A i \in 1 .. Len(v) : (v \o w)[i] = v[i]
        /\ \A i \in 1 .. Len(w) : (v \o w)[Len(v) + i] = w[i]
    <3>1. PICK R : R = Read
      OBVIOUS
    <3>2. v \in Seq(R) /\ w \in Seq(R)
      BY <1>3, <3>1
    <3> QED
      BY <3>1, <3>2, <1>8
  <2> QED
    BY <1>6, <2>1, <2>2
<1>12. PICK ab : ab = [i \in 0 .. m + n |-> IF i <= m THEN at[i] ELSE l + bt[i - m]]
  OBVIOUS
<1>13. at \in [0 .. m -> Nat] /\ bt \in [0 .. n -> Nat]
  BY <1>4
<1>14. /\ at[0] = 0 /\ at[m] = l /\ bt[0] = 0 /\ bt[n] = k
       /\ \A i \in 1 .. m : field(b, at[i - 1], at[i], s[i], v[i])
       /\ \A i \in 1 .. n : field(c, bt[i - 1], bt[i], t[i], w[i])
  BY <1>1, <1>2, <1>4 DEF fields
<1>15. ab \in [0 .. m + n -> Nat]
  <2>1. ASSUME NEW i \in 0 .. m + n, ~(i <= m) PROVE l + bt[i - m] \in Nat
    <3>1. i - m \in 0 .. n
      BY <2>1
    <3> QED
      BY <1>13, <3>1
  <2>2. ASSUME NEW i \in 0 .. m + n, i <= m PROVE at[i] \in Nat
    BY <1>13, <2>2
  <2> QED
    BY <1>12, <2>1, <2>2
<1>16. /\ \A i \in 0 .. m : ab[i] = at[i]
       /\ \A i \in 0 .. n : ab[m + i] = l + bt[i]
  <2>1. ASSUME NEW i \in 0 .. m PROVE ab[i] = at[i]
    BY <1>12
  <2>2. ASSUME NEW i \in 0 .. n PROVE ab[m + i] = l + bt[i]
    <3>1. CASE i = 0
      BY <1>4, <1>12, <1>14, <3>1
    <3>2. CASE i # 0
      <4>1. m + i \in 0 .. m + n /\ ~(m + i <= m) /\ m + i - m = i
        BY <3>2
      <4> QED
        BY <1>12, <4>1
    <3> QED
      BY <3>1, <3>2
  <2> QED
    BY <2>1, <2>2
<1>17. ASSUME NEW i \in 1 .. m + n PROVE field(bc, ab[i - 1], ab[i], st[i], vw[i])
  <2>1. CASE i <= m
    <3>1. i \in 1 .. m /\ i - 1 \in 0 .. m
      BY <2>1
    <3>2. at[i - 1] \in Nat /\ at[i] \in Nat
      BY <1>13, <3>1
    <3>3. field(bc, at[i - 1], at[i], s[i], v[i])
      BY <1>3, <1>7, <1>14, <3>1, <3>2, FieldInside
    <3> QED
      BY <1>10, <1>11, <1>16, <3>1, <3>3
  <2>2. CASE ~(i <= m)
    <3>1. PICK j \in 1 .. n : j = i - m
      BY <2>2
    <3>2. j - 1 \in 0 .. n /\ i = m + j /\ i - 1 = m + (j - 1)
      BY <3>1
    <3>3. bt[j - 1] \in Nat /\ bt[j] \in Nat
      BY <1>13, <3>2
    <3>4. field(bc, l + bt[j - 1], l + bt[j], t[j], w[j])
      BY <1>3, <1>4, <1>7, <1>14, <3>3, FieldInside
    <3>5. ab[i - 1] = l + bt[j - 1] /\ ab[i] = l + bt[j]
      BY <1>16, <3>2
    <3>6. st[i] = t[j] /\ vw[i] = w[j]
      BY <1>10, <1>11, <3>2
    <3> QED
      BY <3>4, <3>5, <3>6
  <2> QED
    BY <2>1, <2>2
<1>18. ab[0] = 0 /\ ab[m + n] = l + k
  BY <1>14, <1>16
<1>19. fields(bc, st, vw, ab)
  BY <1>9, <1>10, <1>11, <1>17, <1>18 DEF fields
<1> QED
  BY <1>5, <1>6, <1>7, <1>10, <1>15, <1>19 DEF Fields

\* No bytes are no fields.
LEMMA NoFields == Fields(<<>>, <<>>, <<>>)
<1>1. PICK at : at = [k \in 0 .. 0 |-> 0]
  OBVIOUS
<1>2. at \in [0 .. Len(<<>>) -> Nat]
  BY <1>1
<1>3. fields(<<>>, <<>>, <<>>, at)
  BY <1>1 DEF fields
<1> QED
  BY <1>2, <1>3 DEF Fields

\* ser_int writes one field that is a number, or the length of a list.
LEMMA IntField ==
  ASSUME WireAssumption, NEW x \in W!Number, NEW type \in {"int", "list"}
  PROVE  Fields(W!ser_int(x), <<type>>, <<x>>)
<1>0. Word \in Nat
  BY DEF WireAssumption
<1>1. PICK b : b = W!ser_int(x)
  OBVIOUS
<1>2. b \in Seq(W!Byte) /\ Len(b) = Word
  BY <1>1, NumberRead
<1>3. PICK at : at = [k \in 0 .. 1 |-> IF k = 0 THEN 0 ELSE Word]
  OBVIOUS
<1>4. at \in [0 .. Len(<<type>>) -> Nat] /\ at[0] = 0 /\ at[1] = Word
  BY <1>0, <1>3
<1>5. field(b, 0, Word, type, x)
  BY <1>0, <1>1, <1>2 DEF field
<1>6. fields(b, <<type>>, <<x>>, at)
  <2>1. <<type>> \in Seq(FieldType) /\ Len(<<type>>) = 1 /\ <<type>>[1] = type
    BY DEF FieldType
  <2>2. x \in Read
    BY DEF Read
  <2>3. <<x>> \in Seq(Read) /\ Len(<<x>>) = 1 /\ <<x>>[1] = x
    BY <2>2
  <2>4. \A k \in 1 .. 1 : k = 1 /\ k - 1 = 0
    OBVIOUS
  <2> QED
    BY <1>2, <1>4, <1>5, <2>1, <2>3, <2>4 DEF fields
<1> QED
  BY <1>1, <1>4, <1>6 DEF Fields

\* ser_string writes one field that is a string.
LEMMA StringField ==
  ASSUME WireAssumption, NEW x \in W!String
  PROVE  Fields(W!ser_string(x), <<"str">>, <<x>>)
<1>0. Base \in Nat \ {0, 1}
  BY DEF WireAssumption
<1>1. PICK b : b = W!ser_string(x)
  OBVIOUS
<1>2. PICK T : T = W!Byte
  OBVIOUS
<1>3. 0 \in T /\ x \in Seq(T)
  <2>1. 0 \in T
    BY <1>0, <1>2 DEF W!Byte
  <2>2. x \in Seq(T \ {0})
    BY <1>2 DEF W!String
  <2> QED
    BY <2>1, <2>2
<1>4. PICK n \in Nat : n = Len(x)
  BY <1>3
<1>5. b = Append(x, 0)
  BY <1>1 DEF W!ser_string
<1>6. b \in Seq(T) /\ Len(b) = n + 1 /\ b[n + 1] = 0 /\ \A i \in 1 .. n : b[i] = x[i]
  BY <1>3, <1>4, <1>5
<1>7. PICK at : at = [k \in 0 .. 1 |-> IF k = 0 THEN 0 ELSE n + 1]
  OBVIOUS
<1>8. at \in [0 .. Len(<<"str">>) -> Nat] /\ at[0] = 0 /\ at[1] = n + 1
  BY <1>7
<1>9. field(b, 0, n + 1, "str", x)
  BY <1>4, <1>6 DEF field
<1>10. fields(b, <<"str">>, <<x>>, at)
  <2>1. <<"str">> \in Seq(FieldType) /\ Len(<<"str">>) = 1 /\ <<"str">>[1] = "str"
    BY DEF FieldType
  <2>2. x \in Read
    BY DEF Read
  <2>3. <<x>> \in Seq(Read) /\ Len(<<x>>) = 1 /\ <<x>>[1] = x
    BY <2>2
  <2>4. \A k \in 1 .. 1 : k = 1 /\ k - 1 = 0
    OBVIOUS
  <2> QED
    BY <1>2, <1>6, <1>8, <1>9, <2>1, <2>3, <2>4 DEF fields
<1> QED
  BY <1>1, <1>8, <1>10 DEF Fields

\* The sequence o is u followed by z, of these lengths.
joined(o, m, u, n, z) ==
    /\ Len(o) = m + n
    /\ \A i \in 1 .. m : o[i] = u[i]
    /\ \A i \in 1 .. n : o[m + i] = z[i]

\* What \o gives.
LEMMA Joined ==
  ASSUME NEW T, NEW u \in Seq(T), NEW z \in Seq(T)
  PROVE  u \o z \in Seq(T) /\ joined(u \o z, Len(u), u, Len(z), z)
<1>1. /\ u \o z \in Seq(T) /\ Len(u \o z) = Len(u) + Len(z)
      /\ \A i \in 1 .. Len(u) : (u \o z)[i] = u[i]
      /\ \A i \in 1 .. Len(z) : (u \o z)[Len(u) + i] = z[i]
  OBVIOUS
<1> QED
  BY <1>1 DEF joined

\* The same for a sequence that is known to be joined.
LEMMA JoinedAt ==
  ASSUME NEW T, NEW u \in Seq(T), NEW z \in Seq(T), NEW o, o = u \o z,
         NEW m, Len(u) = m, NEW n, Len(z) = n
  PROVE  o \in Seq(T) /\ joined(o, m, u, n, z)
<1>1. u \o z \in Seq(T) /\ joined(u \o z, Len(u), u, Len(z), z)
  BY Joined
<1> QED
  BY <1>1

\* Sequences that agree everywhere are equal.
LEMMA Same ==
  ASSUME NEW T, NEW n \in Nat, NEW u \in Seq(T), NEW w \in Seq(T), Len(u) = n, Len(w) = n,
         \A i \in 1 .. n : u[i] = w[i]
  PROVE  u = w
<1>1. u = [i \in 1 .. n |-> u[i]] /\ w = [i \in 1 .. n |-> w[i]]
  OBVIOUS
<1> QED
  BY <1>1

\* Two values joined.
LEMMA Pair ==
  ASSUME NEW x, NEW y
  PROVE  <<x>> \o <<y>> = <<x, y>>
<1>1. PICK T : T = {x, y}
  OBVIOUS
<1>2. <<x>> \in Seq(T) /\ <<y>> \in Seq(T) /\ <<x, y>> \in Seq(T)
  BY <1>1
<1>3. PICK z : z = <<x>> \o <<y>>
  OBVIOUS
<1>4. z \in Seq(T) /\ Len(z) = 2 /\ z[1] = x /\ z[2] = y
  BY <1>2, <1>3
<1>5. \A u \in Seq(T), w \in Seq(T) :
        Len(u) = Len(w) /\ (\A i \in 1 .. Len(u) : u[i] = w[i]) => u = w
  OBVIOUS
<1>6. Len(<<x, y>>) = 2 /\ <<x, y>>[1] = x /\ <<x, y>>[2] = y
  OBVIOUS
<1>7. \A i \in 1 .. 2 : i = 1 \/ i = 2
  OBVIOUS
<1> QED
  BY <1>2, <1>3, <1>4, <1>5, <1>6, <1>7

\* The types of a list's elements, as the reader expects them after its length.
elem_types(n) == W!FlattenSeq([i \in 1 .. n |-> W!deser_vote_struct])

\* What is read of a list of votes.
pairs(e, v) ==
    /\ v \in Seq(Read) /\ Len(v) = 2 * Len(e)
    /\ \A i \in 1 .. Len(e) : v[2 * i - 1] = e[i].maxr /\ v[2 * i] = e[i].maxv

Vote == [maxr : W!Number, maxv : W!String]

\* ser_votemap writes the fields that the reader expects after the length it read.
LEMMA VotesFields ==
  ASSUME WireAssumption, NEW e \in Seq(Vote), Len(e) \in W!Number
  PROVE  /\ elem_types(Len(e)) \in Seq({"int", "str"})
         /\ Len(elem_types(Len(e))) = 2 * Len(e)
         /\ \E v : /\ pairs(e, v)
                   /\ Fields(W!ser_votemap(e), <<"list">> \o elem_types(Len(e)), <<Len(e)>> \o v)
<1>1. PICK n \in Nat : n = Len(e)
  OBVIOUS
<1>2. \A i \in 1 .. n : e[i].maxr \in W!Number /\ e[i].maxv \in W!String
  <2>1. ASSUME NEW i \in 1 .. n PROVE e[i] \in Vote
    BY <1>1
  <2> QED
    BY <2>1 DEF Vote
<1>3. PICK B : B = [i \in 1 .. n |-> W!ser_vote_struct(e[i])]
  OBVIOUS
<1>4. PICK Y : Y = [i \in 1 .. n |-> W!deser_vote_struct]
  OBVIOUS
<1>5. PICK V : V = [i \in 1 .. n |-> <<e[i].maxr>> \o <<e[i].maxv>>]
  OBVIOUS
<1>6. PICK Two : Two = {"int", "str"}
  OBVIOUS
<1>7. ASSUME NEW i \in 1 .. n
      PROVE  /\ Fields(B[i], Y[i], V[i])
             /\ B[i] \in Seq(W!Byte)
             /\ Y[i] \in Seq(Two) /\ Len(Y[i]) = 2
             /\ V[i] \in Seq(Read) /\ Len(V[i]) = 2
             /\ V[i][1] = e[i].maxr /\ V[i][2] = e[i].maxv
  <2>1. PICK x \in W!Number, z \in W!String : x = e[i].maxr /\ z = e[i].maxv
    BY <1>2
  <2>2. Fields(W!ser_int(x), <<"int">>, <<x>>) /\ Fields(W!ser_string(z), <<"str">>, <<z>>)
    BY IntField, StringField
  <2>3. Fields(W!ser_int(x) \o W!ser_string(z), <<"int">> \o <<"str">>, <<x>> \o <<z>>)
    BY <2>2, FieldsBoth
  <2>4. B[i] = W!ser_int(x) \o W!ser_string(z)
    BY <1>3, <2>1 DEF W!ser_vote_struct
  <2>5. Y[i] = <<"int", "str">> /\ <<"int">> \o <<"str">> = <<"int", "str">>
    BY <1>4, Pair DEF W!deser_vote_struct
  <2>6. V[i] = <<x>> \o <<z>>
    BY <1>5, <2>1
  <2>7. Y[i] \in Seq(Two) /\ Len(Y[i]) = 2
    BY <1>6, <2>5
  <2>8. B[i] \in Seq(W!Byte)
    BY <2>3, <2>4 DEF Fields, fields
  <2>9. V[i] \in Seq(Read) /\ Len(V[i]) = 2 /\ V[i][1] = x /\ V[i][2] = z
    <3>1. PICK R : R = Read
      OBVIOUS
    <3>2. x \in R /\ z \in R
      BY <3>1 DEF Read
    <3> QED
      BY <2>6, <3>1, <3>2
  <2> QED
    BY <2>1, <2>3, <2>4, <2>5, <2>6, <2>7, <2>8, <2>9
<1>8. B \in Seq(Seq(W!Byte)) /\ Y \in Seq(Seq(Two)) /\ V \in Seq(Seq(Read))
      /\ Len(B) = n /\ Len(Y) = n /\ Len(V) = n
  <2>1. B \in [1 .. n -> Seq(W!Byte)]
    BY <1>3, <1>7
  <2>2. Y \in [1 .. n -> Seq(Two)]
    BY <1>4, <1>7
  <2>3. V \in [1 .. n -> Seq(Read)]
    BY <1>5, <1>7
  <2>4. ASSUME NEW S, NEW s \in [1 .. n -> S] PROVE s \in Seq(S) /\ Len(s) = n
    OBVIOUS
  <2> QED
    BY <2>1, <2>2, <2>3, <2>4
<1>9. PICK fb \in [0 .. n -> Seq(W!Byte)] : flattens(fb, B) /\ W!FlattenSeq(B) = fb[n]
  BY <1>8, Flattened
<1>10. PICK ft \in [0 .. n -> Seq(Two)] : flattens(ft, Y) /\ W!FlattenSeq(Y) = ft[n]
  BY <1>8, Flattened
<1>11. PICK fv \in [0 .. n -> Seq(Read)] : flattens(fv, V)
  BY <1>8, Flattened
<1>12. PICK Q : Q = {k \in 0 .. n :
           /\ Fields(fb[k], ft[k], fv[k])
           /\ Len(ft[k]) = 2 * k /\ Len(fv[k]) = 2 * k
           /\ \A i \in 1 .. k : fv[k][2 * i - 1] = e[i].maxr /\ fv[k][2 * i] = e[i].maxv}
  OBVIOUS
<1>13. 0 \in Q
  <2>1. fb[0] = <<>> /\ ft[0] = <<>> /\ fv[0] = <<>>
    BY <1>9, <1>10, <1>11 DEF flattens
  <2> QED
    BY <1>12, <2>1, NoFields
<1>14. ASSUME NEW k \in 1 .. n, k - 1 \in Q PROVE k \in Q
  <2>1. /\ fb[k] = fb[k - 1] \o B[k]
        /\ ft[k] = ft[k - 1] \o Y[k]
        /\ fv[k] = fv[k - 1] \o V[k]
    BY <1>8, <1>9, <1>10, <1>11 DEF flattens
  <2>2. /\ Fields(fb[k - 1], ft[k - 1], fv[k - 1])
        /\ Len(ft[k - 1]) = 2 * (k - 1) /\ Len(fv[k - 1]) = 2 * (k - 1)
        /\ \A i \in 1 .. k - 1 :
              fv[k - 1][2 * i - 1] = e[i].maxr /\ fv[k - 1][2 * i] = e[i].maxv
    BY <1>12, <1>14
  <2>3. Fields(fb[k], ft[k], fv[k])
    BY <1>7, <2>1, <2>2, FieldsBoth
  <2>4. ft[k - 1] \in Seq(Two) /\ fv[k - 1] \in Seq(Read)
    <3>1. k - 1 \in 0 .. n
      OBVIOUS
    <3> QED
      BY <1>10, <1>11, <3>1
  <2>5. Len(ft[k]) = 2 * k
    <3>1. Len(ft[k]) = Len(ft[k - 1]) + Len(Y[k])
      BY <1>7, <2>1, <2>4, Joined DEF joined
    <3>2. Len(Y[k]) = 2 /\ Len(ft[k - 1]) = 2 * (k - 1)
      BY <1>7, <2>2
    <3> QED
      BY <3>1, <3>2
  <2>6. /\ Len(fv[k]) = Len(fv[k - 1]) + Len(V[k])
        /\ \A i \in 1 .. Len(fv[k - 1]) : fv[k][i] = fv[k - 1][i]
        /\ \A i \in 1 .. Len(V[k]) : fv[k][Len(fv[k - 1]) + i] = V[k][i]
    <3>1. PICK R : R = Read
      OBVIOUS
    <3>2. V[k] \in Seq(R) /\ fv[k - 1] \in Seq(R)
      BY <1>7, <2>4, <3>1
    <3>3. PICK u \in Seq(R), z \in Seq(R) : u = fv[k - 1] /\ z = V[k]
      BY <3>2
    <3>4. fv[k] = u \o z
      BY <2>1, <3>3
    <3>5. /\ Len(u \o z) = Len(u) + Len(z)
          /\ \A i \in 1 .. Len(u) : (u \o z)[i] = u[i]
          /\ \A i \in 1 .. Len(z) : (u \o z)[Len(u) + i] = z[i]
      <4>1. u \o z \in Seq(R) /\ joined(u \o z, Len(u), u, Len(z), z)
        BY Joined
      <4> QED
        BY <4>1 DEF joined
    <3> QED
      BY <3>3, <3>4, <3>5
  <2>7. /\ Len(fv[k]) = 2 * k
        /\ \A i \in 1 .. 2 * (k - 1) : fv[k][i] = fv[k - 1][i]
        /\ fv[k][2 * k - 1] = e[k].maxr /\ fv[k][2 * k] = e[k].maxv
    <3>1. 2 * (k - 1) + 1 = 2 * k - 1 /\ 2 * (k - 1) + 2 = 2 * k
      OBVIOUS
    <3>2. V[k][1] = e[k].maxr /\ V[k][2] = e[k].maxv /\ Len(V[k]) = 2
      BY <1>7
    <3>3. fv[k][2 * (k - 1) + 1] = V[k][1] /\ fv[k][2 * (k - 1) + 2] = V[k][2]
      BY <2>2, <2>6, <3>2
    <3> QED
      BY <2>2, <2>6, <3>1, <3>2, <3>3
  <2>8. ASSUME NEW i \in 1 .. k
        PROVE  fv[k][2 * i - 1] = e[i].maxr /\ fv[k][2 * i] = e[i].maxv
    <3>1. CASE i = k
      BY <2>7, <3>1
    <3>2. CASE i # k
      <4>1. i \in 1 .. k - 1 /\ 2 * i - 1 \in 1 .. 2 * (k - 1) /\ 2 * i \in 1 .. 2 * (k - 1)
        BY <3>2
      <4> QED
        BY <2>2, <2>7, <4>1
    <3> QED
      BY <3>1, <3>2
  <2>9. k \in 0 .. n
    OBVIOUS
  <2> QED
    BY <1>12, <2>3, <2>5, <2>7, <2>8, <2>9
<1>15. n \in Q
  <2>1. Q \in SUBSET (0 .. n)
    BY <1>12
  <2>2. Q = 0 .. n
    BY <1>13, <1>14, <2>1, UpTo
  <2> QED
    BY <2>2
<1>16. elem_types(n) = ft[n]
  BY <1>4, <1>10 DEF elem_types
<1>17. pairs(e, fv[n])
  <2>1. fv[n] \in Seq(Read)
    BY <1>11
  <2> QED
    BY <1>1, <1>12, <1>15, <2>1 DEF pairs
<1>18. W!ser_votemap(e) = W!ser_int(n) \o fb[n]
  <2>1. DOMAIN e = 1 .. n
    BY <1>1
  <2>2. W!ser_votemap(e) = W!ser_list(B)
    BY <1>3, <2>1 DEF W!ser_votemap
  <2> QED
    BY <1>8, <1>9, <2>2 DEF W!ser_list
<1>19. Fields(W!ser_votemap(e), <<"list">> \o ft[n], <<n>> \o fv[n])
  <2>1. Fields(W!ser_int(n), <<"list">>, <<n>>)
    BY <1>1, IntField
  <2> QED
    BY <1>12, <1>15, <1>18, <2>1, FieldsBoth
<1>20. ft[n] \in Seq(Two) /\ Len(ft[n]) = 2 * n
  BY <1>10, <1>12, <1>15
<1> QED
  BY <1>1, <1>6, <1>16, <1>17, <1>19, <1>20

\* The fields of a message: their types, what is read of them, where they end.
parsed(m, types, v, at) ==
    /\ m \in W!Message /\ Len(m.m_votemap.elems) \in W!Number
    /\ at \in [0 .. Len(types) -> Nat] /\ fields(W!ser_msg(m), types, v, at)
    /\ Len(types) = 7 + 2 * Len(m.m_votemap.elems)
    /\ \A i \in 1 .. 7 : types[i] = W!deser_msg[i]
    /\ \A i \in 1 .. 2 * Len(m.m_votemap.elems) :
        types[7 + i] = elem_types(Len(m.m_votemap.elems))[i]
    /\ v[7] = Len(m.m_votemap.elems)
    /\ W!msg_of(v) = m

\* deser_msg names seven fields.
LEMMA FirstTypes ==
  /\ W!deser_msg \in Seq(FieldType) /\ Len(W!deser_msg) = 7
  /\ W!deser_msg = <<"int", "int", "int", "int", "str">> \o (<<"int">> \o <<"list">>)
  /\ W!deser_msg[6] = "int" /\ W!deser_msg[7] = "list"
  /\ \A i \in 1 .. 5 : W!deser_msg[i] = <<"int", "int", "int", "int", "str">>[i]
  /\ \A i \in 1 .. 6 : W!deser_msg[i] \in {"int", "str"}
<1>1. PICK a : a = <<"int", "int", "int", "int", "str">>
  OBVIOUS
<1>2. PICK z : z = <<"int", "list">>
  OBVIOUS
<1>3. W!deser_msg = a \o z
  BY <1>1, <1>2, Pair DEF W!deser_msg, W!deser_votemap_seg, W!deser_votemap
<1>4. a \in Seq(FieldType) /\ z \in Seq(FieldType) /\ Len(a) = 5 /\ Len(z) = 2
  BY <1>1, <1>2 DEF FieldType
<1>5. PICK o : o = a \o z
  OBVIOUS
<1>6. o \in Seq(FieldType) /\ joined(o, 5, a, 2, z)
  BY <1>4, <1>5, JoinedAt
<1>7. \A i \in 1 .. 5 : a[i] \in {"int", "str"}
  BY <1>1
<1>8. \A i \in 1 .. 6 : i \in 1 .. 5 \/ i = 6
  OBVIOUS
<1>9. \A i \in 1 .. 5 : W!deser_msg[i] = a[i]
  BY <1>3, <1>5, <1>6 DEF joined
<1>10. W!deser_msg[6] = "int" /\ W!deser_msg[7] = "list"
  <2>1. z[1] = "int" /\ z[2] = "list"
    BY <1>2
  <2>2. o[5 + 1] = z[1] /\ o[5 + 2] = z[2]
    BY <1>6 DEF joined
  <2>3. o = W!deser_msg
    BY <1>3, <1>5
  <2> QED
    BY <2>1, <2>2, <2>3
<1>11. Len(W!deser_msg) = 7 /\ W!deser_msg \in Seq(FieldType)
  BY <1>3, <1>5, <1>6 DEF joined
<1>12. W!deser_msg = <<"int", "int", "int", "int", "str">> \o (<<"int">> \o <<"list">>)
  BY DEF W!deser_msg, W!deser_votemap_seg, W!deser_votemap
<1>13. \A i \in 1 .. 6 : W!deser_msg[i] \in {"int", "str"}
  BY <1>7, <1>8, <1>9, <1>10
<1> QED
  BY <1>1, <1>9, <1>10, <1>11, <1>12, <1>13

\* A sequence that agrees with both parts is the two joined.
LEMMA Glued ==
  ASSUME NEW T, NEW m \in Nat, NEW n \in Nat, NEW u \in Seq(T), Len(u) = m,
         NEW z \in Seq(T), Len(z) = n, NEW w \in Seq(T), joined(w, m, u, n, z)
  PROVE  u \o z = w
<1>1. PICK o : o = u \o z
  OBVIOUS
<1>2. o \in Seq(T) /\ joined(o, m, u, n, z)
  BY <1>1, JoinedAt
<1>3. ASSUME NEW i \in 1 .. m + n PROVE o[i] = w[i]
  <2>1. CASE i \in 1 .. m
    BY <1>2, <2>1 DEF joined
  <2>2. CASE i \notin 1 .. m
    <3>1. PICK j \in 1 .. n : i = m + j
      <4>1. i - m \in 1 .. n /\ i = m + (i - m)
        BY <2>2
      <4> QED
        BY <4>1
    <3> QED
      BY <1>2, <3>1 DEF joined
  <2> QED
    BY <2>1, <2>2
<1>4. PICK k \in Nat : k = m + n
  OBVIOUS
<1>5. Len(o) = k /\ Len(w) = k /\ \A i \in 1 .. k : o[i] = w[i]
  BY <1>2, <1>3, <1>4 DEF joined
<1>6. o = w
  BY <1>2, <1>5, Same
<1> QED
  BY <1>1, <1>6

\* Five values joined one by one, as ser_msg joins the first five fields.
five(a, b, c, d, e) == (((<<a>> \o <<b>>) \o <<c>>) \o <<d>>) \o <<e>> = <<a, b, c, d, e>>

LEMMA Five ==
  ASSUME NEW a, NEW b, NEW c, NEW d, NEW e
  PROVE  five(a, b, c, d, e)
<1>1. PICK T : T = {a, b, c, d, e}
  OBVIOUS
<1>2. ASSUME NEW m \in Nat, NEW u \in Seq(T), Len(u) = m, NEW x \in T,
             NEW w \in Seq(T), Len(w) = m + 1, \A i \in 1 .. m : w[i] = u[i], w[m + 1] = x
      PROVE  u \o <<x>> = w
  <2>1. <<x>> \in Seq(T) /\ Len(<<x>>) = 1 /\ <<x>>[1] = x /\ 1 \in Nat
    OBVIOUS
  <2>2. \A i \in 1 .. 1 : w[m + i] = <<x>>[i]
    <3>1. \A i \in 1 .. 1 : i = 1
      OBVIOUS
    <3> QED
      BY <1>2, <2>1, <3>1
  <2>3. joined(w, m, u, 1, <<x>>)
    BY <1>2, <2>2 DEF joined
  <2>4. PICK z \in Seq(T) : z = <<x>>
    BY <2>1
  <2>5. u \o z = w
    BY <1>2, <2>1, <2>3, <2>4, Glued
  <2> QED
    BY <2>4, <2>5
<1>3. a \in T /\ b \in T /\ c \in T /\ d \in T /\ e \in T
  BY <1>1
<1>4. PICK f, g, h, k : /\ f = <<a, b>> /\ g = <<a, b, c>> /\ h = <<a, b, c, d>>
                        /\ k = <<a, b, c, d, e>>
  OBVIOUS
<1>5. f \in Seq(T) /\ Len(f) = 2 /\ f[1] = a /\ f[2] = b
  BY <1>3, <1>4
<1>6. g \in Seq(T) /\ Len(g) = 3 /\ g[1] = a /\ g[2] = b /\ g[3] = c
  BY <1>3, <1>4
<1>7. h \in Seq(T) /\ Len(h) = 4 /\ h[1] = a /\ h[2] = b /\ h[3] = c /\ h[4] = d
  BY <1>3, <1>4
<1>8. k \in Seq(T) /\ Len(k) = 5 /\ k[1] = a /\ k[2] = b /\ k[3] = c /\ k[4] = d /\ k[5] = e
  BY <1>3, <1>4
<1>9. f = <<a>> \o <<b>>
  BY <1>4, Pair
<1>10. f \o <<c>> = g
  <2>1. \A i \in 1 .. 2 : g[i] = f[i]
    <3>1. \A i \in 1 .. 2 : i = 1 \/ i = 2
      OBVIOUS
    <3> QED
      BY <1>5, <1>6, <3>1
  <2>2. 2 \in Nat /\ 3 = 2 + 1
    OBVIOUS
  <2>3. Len(g) = 2 + 1 /\ g[2 + 1] = c
    BY <1>6, <2>2
  <2> QED
    BY <1>2, <1>3, <1>5, <1>6, <2>1, <2>2, <2>3
<1>11. g \o <<d>> = h
  <2>1. \A i \in 1 .. 3 : h[i] = g[i]
    <3>1. \A i \in 1 .. 3 : i = 1 \/ i = 2 \/ i = 3
      OBVIOUS
    <3> QED
      BY <1>6, <1>7, <3>1
  <2>2. 3 \in Nat /\ 4 = 3 + 1
    OBVIOUS
  <2>3. Len(h) = 3 + 1 /\ h[3 + 1] = d
    BY <1>7, <2>2
  <2> QED
    BY <1>2, <1>3, <1>6, <1>7, <2>1, <2>2, <2>3
<1>12. h \o <<e>> = k
  <2>1. \A i \in 1 .. 4 : k[i] = h[i]
    <3>1. \A i \in 1 .. 4 : i = 1 \/ i = 2 \/ i = 3 \/ i = 4
      OBVIOUS
    <3> QED
      BY <1>7, <1>8, <3>1
  <2>2. 4 \in Nat /\ 5 = 4 + 1
    OBVIOUS
  <2>3. Len(k) = 4 + 1 /\ k[4 + 1] = e
    BY <1>8, <2>2
  <2> QED
    BY <1>2, <1>3, <1>7, <1>8, <2>1, <2>2, <2>3
<1> QED
  BY <1>4, <1>9, <1>10, <1>11, <1>12 DEF five

\* The sequence z is the five of a, then c, d and t.
seven(z, a, c, d, t) ==
    /\ z = a \o (<<c>> \o (<<d>> \o t)) /\ Len(z) = 7 + Len(t)
    /\ \A i \in 1 .. 5 : z[i] = a[i]
    /\ z[6] = c /\ z[7] = d
    /\ \A i \in 1 .. Len(t) : z[7 + i] = t[i]

\* Five values, two more and a rest, joined.
LEMMA Seven ==
  ASSUME NEW T, NEW a \in Seq(T), Len(a) = 5, NEW c \in T, NEW d \in T, NEW t \in Seq(T)
  PROVE  \E z \in Seq(T) : seven(z, a, c, d, t)
<1>1. PICK n \in Nat : n = Len(t)
  OBVIOUS
<1>2. ASSUME NEW f \in T, NEW k \in Nat, NEW u \in Seq(T), Len(u) = k, NEW o, o = <<f>> \o u
      PROVE  o \in Seq(T) /\ Len(o) = 1 + k /\ o[1] = f /\ \A i \in 1 .. k : o[1 + i] = u[i]
  <2>1. PICK h \in Seq(T) : h = <<f>> /\ Len(h) = 1 /\ h[1] = f
    <3>1. <<f>> \in Seq(T) /\ Len(<<f>>) = 1 /\ <<f>>[1] = f
      OBVIOUS
    <3> QED
      BY <3>1
  <2>2. o \in Seq(T) /\ joined(o, 1, h, k, u)
    BY <1>2, <2>1, JoinedAt
  <2> QED
    BY <2>1, <2>2 DEF joined
<1>3. PICK x : x = <<d>> \o t
  OBVIOUS
<1>4. x \in Seq(T) /\ Len(x) = 1 + n /\ x[1] = d /\ \A i \in 1 .. n : x[1 + i] = t[i]
  BY <1>1, <1>2, <1>3
<1>5. PICK y : y = <<c>> \o x
  OBVIOUS
<1>6. y \in Seq(T) /\ Len(y) = 1 + (1 + n) /\ y[1] = c /\ \A i \in 1 .. 1 + n : y[1 + i] = x[i]
  <2>1. 1 + n \in Nat
    BY <1>1
  <2> QED
    BY <1>2, <1>4, <1>5, <2>1
<1>7. PICK z : z = a \o y
  OBVIOUS
<1>8. /\ z \in Seq(T) /\ Len(z) = 5 + (1 + (1 + n))
      /\ \A i \in 1 .. 5 : z[i] = a[i]
      /\ \A i \in 1 .. 1 + (1 + n) : z[5 + i] = y[i]
  <2>1. z \in Seq(T) /\ joined(z, 5, a, 1 + (1 + n), y)
    BY <1>6, <1>7, JoinedAt
  <2> QED
    BY <2>1 DEF joined
<1>9. z[6] = c
  <2>1. z[5 + 1] = y[1]
    <3>1. 1 \in 1 .. 1 + (1 + n)
      BY <1>1
    <3> QED
      BY <1>8, <3>1
  <2> QED
    BY <1>6, <2>1
<1>10. z[7] = d
  <2>1. z[5 + (1 + 1)] = y[1 + 1]
    <3>1. 1 + 1 \in 1 .. 1 + (1 + n)
      BY <1>1
    <3> QED
      BY <1>8, <3>1
  <2>2. y[1 + 1] = x[1]
    <3>1. 1 \in 1 .. 1 + n
      BY <1>1
    <3> QED
      BY <1>6, <3>1
  <2>3. 5 + (1 + 1) = 7
    OBVIOUS
  <2> QED
    BY <1>4, <2>1, <2>2, <2>3
<1>11. ASSUME NEW i \in 1 .. n PROVE z[7 + i] = t[i]
  <2>1. 1 + i \in 1 .. 1 + n /\ 1 + (1 + i) \in 1 .. 1 + (1 + n) /\ 5 + (1 + (1 + i)) = 7 + i
    BY <1>1
  <2>2. z[5 + (1 + (1 + i))] = y[1 + (1 + i)]
    BY <1>8, <2>1
  <2>3. y[1 + (1 + i)] = x[1 + i]
    BY <1>6, <2>1
  <2>4. x[1 + i] = t[i]
    BY <1>4
  <2> QED
    BY <2>1, <2>2, <2>3, <2>4
<1>12. Len(z) = 7 + n
  BY <1>1, <1>8
<1>13. z = a \o (<<c>> \o (<<d>> \o t))
  BY <1>3, <1>5, <1>7
<1>14. seven(z, a, c, d, t)
  BY <1>1, <1>8, <1>9, <1>10, <1>11, <1>12, <1>13 DEF seven
<1> QED
  BY <1>8, <1>14

\* ser_msg writes a message as the fields deser_msg and its length name, and
\* msg_of makes the message of them again.
LEMMA MessageParsed ==
  ASSUME WireAssumption, NEW m \in W!Message
  PROVE  \E types, v, at : parsed(m, types, v, at)
<1>1. PICK e, n : e = m.m_votemap.elems /\ n = Len(e)
  OBVIOUS
<1>2. /\ m.m_kind \in W!Number /\ m.m_round \in W!Number /\ m.m_inst \in W!Number
      /\ m.m_node \in W!Number /\ m.m_value \in W!String /\ m.m_votemap.offset \in W!Number
      /\ e \in Seq(Vote) /\ n \in W!Number /\ n \in Nat
      /\ m.m_votemap = [offset |-> m.m_votemap.offset, elems |-> e]
      /\ m = [m_kind |-> m.m_kind, m_round |-> m.m_round, m_inst |-> m.m_inst,
              m_node |-> m.m_node, m_value |-> m.m_value, m_votemap |-> m.m_votemap]
  <2>1. m \in [m_kind : W!Number, m_round : W!Number, m_inst : W!Number, m_node : W!Number,
               m_value : W!String, m_votemap : W!Votes] /\ n \in W!Number
    BY <1>1 DEF W!Message
  <2>2. m.m_votemap \in W!Votes
    BY <2>1
  <2>3. m.m_votemap \in [offset : W!Number, elems : Seq(Vote)]
    BY <2>2 DEF W!Votes, Vote
  <2>4. e \in Seq(Vote) /\ m.m_votemap.offset \in W!Number
        /\ m.m_votemap = [offset |-> m.m_votemap.offset, elems |-> e]
    BY <1>1, <2>3
  <2>5. n \in Nat
    BY <1>1, <2>4
  <2> QED
    BY <2>1, <2>4, <2>5
<1>3. PICK t : t = elem_types(n)
  OBVIOUS
<1>4. PICK w : pairs(e, w) /\ Fields(W!ser_votemap(e), <<"list">> \o t, <<n>> \o w)
  BY <1>1, <1>2, <1>3, VotesFields
<1>5. t \in Seq({"int", "str"}) /\ Len(t) = 2 * n
  BY <1>1, <1>2, <1>3, VotesFields
<1>6. PICK k, r, i, p, s, o : /\ k = m.m_kind /\ r = m.m_round /\ i = m.m_inst
                              /\ p = m.m_node /\ s = m.m_value /\ o = m.m_votemap.offset
  OBVIOUS
<1>7. /\ Fields(W!ser_int(k), <<"int">>, <<k>>) /\ Fields(W!ser_int(r), <<"int">>, <<r>>)
      /\ Fields(W!ser_int(i), <<"int">>, <<i>>) /\ Fields(W!ser_int(p), <<"int">>, <<p>>)
      /\ Fields(W!ser_string(s), <<"str">>, <<s>>) /\ Fields(W!ser_int(o), <<"int">>, <<o>>)
  BY <1>2, <1>6, IntField, StringField
<1>8. Fields(W!ser_int(k) \o W!ser_int(r), <<"int">> \o <<"int">>, <<k>> \o <<r>>)
  BY <1>7, FieldsBoth
<1>9. Fields((W!ser_int(k) \o W!ser_int(r)) \o W!ser_int(i),
             (<<"int">> \o <<"int">>) \o <<"int">>, (<<k>> \o <<r>>) \o <<i>>)
  BY <1>7, <1>8, FieldsBoth
<1>10. Fields(((W!ser_int(k) \o W!ser_int(r)) \o W!ser_int(i)) \o W!ser_int(p),
              ((<<"int">> \o <<"int">>) \o <<"int">>) \o <<"int">>,
              ((<<k>> \o <<r>>) \o <<i>>) \o <<p>>)
  BY <1>7, <1>9, FieldsBoth
<1>11. Fields((((W!ser_int(k) \o W!ser_int(r)) \o W!ser_int(i)) \o W!ser_int(p)) \o W!ser_string(s),
              (((<<"int">> \o <<"int">>) \o <<"int">>) \o <<"int">>) \o <<"str">>,
              (((<<k>> \o <<r>>) \o <<i>>) \o <<p>>) \o <<s>>)
  BY <1>7, <1>10, FieldsBoth
<1>12. Fields(W!ser_int(o) \o W!ser_votemap(e), <<"int">> \o (<<"list">> \o t),
              <<o>> \o (<<n>> \o w))
  BY <1>4, <1>7, FieldsBoth
<1>13. PICK a, b : a = <<"int", "int", "int", "int", "str">> /\ b = <<k, r, i, p, s>>
  OBVIOUS
<1>14. W!ser_msg(m) = ((((W!ser_int(k) \o W!ser_int(r)) \o W!ser_int(i)) \o W!ser_int(p))
                          \o W!ser_string(s)) \o (W!ser_int(o) \o W!ser_votemap(e))
  BY <1>1, <1>6 DEF W!ser_msg, W!ser_votemap_seg
<1>15. Fields(W!ser_msg(m), a \o (<<"int">> \o (<<"list">> \o t)),
              b \o (<<o>> \o (<<n>> \o w)))
  <2>1. a = (((<<"int">> \o <<"int">>) \o <<"int">>) \o <<"int">>) \o <<"str">>
    <3>1. five("int", "int", "int", "int", "str")
      BY Five
    <3> QED
      BY <1>13, <3>1 DEF five
  <2>2. b = (((<<k>> \o <<r>>) \o <<i>>) \o <<p>>) \o <<s>>
    <3>1. five(k, r, i, p, s)
      BY Five
    <3> QED
      BY <1>13, <3>1 DEF five
  <2>3. PICK c : c = (((W!ser_int(k) \o W!ser_int(r)) \o W!ser_int(i)) \o W!ser_int(p))
                        \o W!ser_string(s)
    OBVIOUS
  <2>4. Fields(c, a, b)
    BY <1>11, <2>1, <2>2, <2>3
  <2> QED
    BY <1>12, <1>14, <2>3, <2>4, FieldsBoth
<1>16. PICK types \in Seq(FieldType) :
         /\ types = a \o (<<"int">> \o (<<"list">> \o t)) /\ Len(types) = 7 + Len(t)
         /\ \A j \in 1 .. 5 : types[j] = a[j]
         /\ types[6] = "int" /\ types[7] = "list"
         /\ \A j \in 1 .. Len(t) : types[7 + j] = t[j]
  <2>1. a \in Seq(FieldType) /\ Len(a) = 5 /\ "int" \in FieldType /\ "list" \in FieldType
    BY <1>13 DEF FieldType
  <2>2. t \in Seq(FieldType)
    BY <1>5 DEF FieldType
  <2>3. PICK c \in FieldType, d \in FieldType : c = "int" /\ d = "list"
    BY <2>1
  <2>4. \E z \in Seq(FieldType) : seven(z, a, c, d, t)
    BY <2>1, <2>2, Seven
  <2> QED
    BY <2>3, <2>4 DEF seven
<1>17. PICK v \in Seq(Read) :
         /\ v = b \o (<<o>> \o (<<n>> \o w)) /\ Len(v) = 7 + Len(w)
         /\ \A j \in 1 .. 5 : v[j] = b[j]
         /\ v[6] = o /\ v[7] = n
         /\ \A j \in 1 .. Len(w) : v[7 + j] = w[j]
  <2>1. PICK R : R = Read
    OBVIOUS
  <2>2. k \in R /\ r \in R /\ i \in R /\ p \in R /\ s \in R /\ o \in R /\ n \in R
    BY <1>2, <1>6, <2>1 DEF Read
  <2>3. b \in Seq(R) /\ Len(b) = 5
    BY <1>13, <2>2
  <2>4. w \in Seq(R)
    BY <1>4, <2>1 DEF pairs
  <2>5. \E z \in Seq(R) : seven(z, b, o, n, w)
    BY <2>2, <2>3, <2>4, Seven
  <2> QED
    BY <2>1, <2>5 DEF seven
<1>18. PICK at \in [0 .. Len(types) -> Nat] : fields(W!ser_msg(m), types, v, at)
  BY <1>15, <1>16, <1>17 DEF Fields
<1>19. W!msg_of(v) = m
  <2>1. v[1] = k /\ v[2] = r /\ v[3] = i /\ v[4] = p /\ v[5] = s
    BY <1>13, <1>17
  <2>2. PICK f : f = [j \in 1 .. v[7] |-> [maxr |-> v[6 + 2 * j], maxv |-> v[7 + 2 * j]]]
    OBVIOUS
  <2>3. f = e
    <3>1. ASSUME NEW j \in 1 .. n PROVE f[j] = e[j]
      <4>1. v[6 + 2 * j] = e[j].maxr /\ v[7 + 2 * j] = e[j].maxv
        <5>1. 2 * j - 1 \in 1 .. 2 * n /\ 2 * j \in 1 .. 2 * n
              /\ 7 + (2 * j - 1) = 6 + 2 * j
          BY <1>2
        <5>2. Len(w) = 2 * n /\ w[2 * j - 1] = e[j].maxr /\ w[2 * j] = e[j].maxv
          BY <1>1, <1>4 DEF pairs
        <5>3. v[7 + (2 * j - 1)] = w[2 * j - 1] /\ v[7 + 2 * j] = w[2 * j]
          BY <1>17, <5>1, <5>2
        <5> QED
          BY <5>1, <5>2, <5>3
      <4>2. e[j] \in Vote
        BY <1>1, <1>2
      <4>3. e[j] = [maxr |-> e[j].maxr, maxv |-> e[j].maxv]
        BY <4>2 DEF Vote
      <4> QED
        BY <1>17, <2>2, <4>1, <4>3
    <3>2. f = [j \in 1 .. n |-> f[j]]
      BY <1>17, <2>2
    <3>3. e = [j \in 1 .. n |-> e[j]]
      <4>1. e \in Seq(Vote) /\ n = Len(e)
        BY <1>1, <1>2
      <4>2. \A z \in Seq(Vote) : z = [j \in 1 .. Len(z) |-> z[j]]
        OBVIOUS
      <4> QED
        BY <4>1, <4>2
    <3> QED
      BY <3>1, <3>2, <3>3
  <2>4. W!msg_of(v) = [m_kind |-> k, m_round |-> r, m_inst |-> i, m_node |-> p, m_value |-> s,
                       m_votemap |-> [offset |-> o, elems |-> e]]
    BY <1>17, <2>1, <2>2, <2>3 DEF W!msg_of
  <2> QED
    BY <1>2, <1>6, <2>4
<1>20. \A j \in 1 .. 7 : types[j] = W!deser_msg[j]
  <2>1. \A j \in 1 .. 7 : j \in 1 .. 5 \/ j = 6 \/ j = 7
    OBVIOUS
  <2> QED
    BY <1>13, <1>16, <2>1, FirstTypes
<1>21. /\ Len(types) = 7 + 2 * n /\ v[7] = n
       /\ \A j \in 1 .. 2 * n : types[7 + j] = t[j]
  BY <1>2, <1>5, <1>16, <1>17
<1>22. parsed(m, types, v, at)
  BY <1>1, <1>2, <1>3, <1>18, <1>19, <1>20, <1>21 DEF parsed
<1> QED
  BY <1>22

-----------------------------------------------------------------------------
(***************************************************************************)
(* What is on its way.                                                     *)
(***************************************************************************)

\* The bytes of r behind the first o are those of e, as far as there are any.
carries(r, o, e) == \A j \in 1 .. Len(e) : o + j <= Len(r) => r[o + j] = e[j]

\* Behind the d messages of s that have been delivered, the bytes r are those of the
\* others, each up to its off, and if the peer has closed a part of one more.
queued(off, d, s, r, c) ==
    /\ off \in [d .. Len(s) -> Nat]
    /\ off[d] = 0
    /\ \A i \in d + 1 .. Len(s) :
        off[i] = off[i - 1] + Len(W!ser_msg(s[i])) /\ carries(r, off[i - 1], W!ser_msg(s[i]))
    /\ \A i \in d .. Len(s) : \A j \in i .. Len(s) : off[i] <= off[j]
    /\ off[Len(s)] <= Len(r)
    /\ ~c => off[Len(s)] = Len(r)
    /\ c => \E m \in Messages : /\ carries(r, off[Len(s)], W!ser_msg(m))
                                /\ Len(r) < off[Len(s)] + Len(W!ser_msg(m))

\* Every message has bytes.
LEMMA MessageBytes ==
  ASSUME WireAssumption, NEW m \in Messages
  PROVE  /\ W!ser_msg(m) \in Seq(W!Byte) /\ Len(W!ser_msg(m)) \in Nat
         /\ \E types, v, at : parsed(m, types, v, at)
<1>1. m \in W!Message
  BY DEF WireAssumption
<1>2. PICK types, v, at : parsed(m, types, v, at)
  BY <1>1, MessageParsed
<1>3. W!ser_msg(m) \in Seq(W!Byte)
  BY <1>2 DEF parsed, fields
<1>4. PICK e \in Seq(W!Byte) : e = W!ser_msg(m)
  BY <1>3
<1>5. Len(e) \in Nat
  OBVIOUS
<1> QED
  BY <1>2, <1>4, <1>5

\* A message sent comes behind those on their way.
LEMMA QueueGrows ==
  ASSUME WireAssumption, NEW d \in Nat, NEW s \in Seq(Messages), d <= Len(s), NEW r \in Seq(W!Byte),
         NEW off, queued(off, d, s, r, FALSE), NEW m \in Messages
  PROVE  \E f : queued(f, d, Append(s, m), r \o W!ser_msg(m), FALSE)
<1>1. PICK n \in Nat, l \in Nat : n = Len(s) /\ l = Len(r)
  OBVIOUS
<1>2. PICK e \in Seq(W!Byte), k \in Nat : e = W!ser_msg(m) /\ k = Len(e)
  BY MessageBytes
<1>3. PICK q : q = r \o W!ser_msg(m)
  OBVIOUS
<1>4. q \in Seq(W!Byte) /\ joined(q, l, r, k, e)
  BY <1>1, <1>2, <1>3, JoinedAt
<1>5. PICK z : z = Append(s, m)
  OBVIOUS
<1>6. Len(z) = n + 1 /\ z[n + 1] = m /\ \A i \in 1 .. n : z[i] = s[i]
  BY <1>1, <1>5
<1>7. PICK f : f = [i \in d .. n + 1 |-> IF i <= n THEN off[i] ELSE off[n] + k]
  OBVIOUS
<1>8. off \in [d .. n -> Nat] /\ off[d] = 0 /\ off[n] = l
  BY <1>1 DEF queued
<1>9. n \in d .. n /\ off[n] \in Nat
  BY <1>1, <1>8
<1>10. (\A i \in d .. n : f[i] = off[i]) /\ f[n + 1] = l + k /\ f \in [d .. n + 1 -> Nat]
  <2>1. ASSUME NEW i \in d .. n PROVE f[i] = off[i]
    BY <1>1, <1>7
  <2>2. f[n + 1] = l + k
    BY <1>1, <1>7, <1>8
  <2>3. ASSUME NEW i \in d .. n + 1 PROVE f[i] \in Nat
    <3>1. CASE i <= n
      <4>1. i \in d .. n
        BY <1>1, <3>1
      <4>2. f[i] = off[i] /\ off[i] \in Nat
        BY <1>8, <2>1, <4>1
      <4> QED
        BY <4>2
    <3>2. CASE ~(i <= n)
      BY <1>1, <1>2, <2>2, <3>2
    <3> QED
      BY <3>1, <3>2
  <2> QED
    BY <1>7, <2>1, <2>2, <2>3
<1>11. ASSUME NEW i \in d + 1 .. n + 1
       PROVE  f[i] = f[i - 1] + Len(W!ser_msg(z[i])) /\ carries(q, f[i - 1], W!ser_msg(z[i]))
  <2>1. CASE i = n + 1
    <3>1. f[i] = l + k /\ f[i - 1] = l /\ W!ser_msg(z[i]) = e
      <4>1. i - 1 = n
        BY <1>1, <2>1
      <4> QED
        BY <1>2, <1>6, <1>8, <1>9, <1>10, <2>1, <4>1
    <3>2. carries(q, l, e)
      BY <1>2, <1>4 DEF joined, carries
    <3> QED
      BY <1>2, <3>1, <3>2
  <2>2. CASE i # n + 1
    <3>1. i \in d + 1 .. n /\ i \in 1 .. n /\ i \in d .. n /\ i - 1 \in d .. n
      BY <1>1, <2>2
    <3>2. z[i] = s[i] /\ f[i] = off[i] /\ f[i - 1] = off[i - 1]
      BY <1>6, <1>10, <3>1
    <3>3. off[i] = off[i - 1] + Len(W!ser_msg(s[i])) /\ carries(r, off[i - 1], W!ser_msg(s[i]))
      BY <1>1, <3>1 DEF queued
    <3>4. carries(q, off[i - 1], W!ser_msg(s[i]))
      <4>1. PICK g \in Seq(W!Byte) : g = W!ser_msg(s[i])
        <5>1. s[i] \in Messages
          BY <1>1, <3>1
        <5> QED
          BY <5>1, MessageBytes
      <4>2. PICK a \in Nat, b \in Nat : a = off[i - 1] /\ b = off[i]
        BY <1>8, <3>1
      <4>3. b <= l
        <5>1. n \in i .. n
          BY <1>1, <3>1
        <5>2. off[i] <= off[n]
          BY <1>1, <3>1, <5>1 DEF queued
        <5> QED
          BY <1>8, <4>2, <5>2
      <4>4. ASSUME NEW j \in 1 .. Len(g) PROVE q[a + j] = g[j]
        <5>1. a + j \in 1 .. l
          <6>1. PICK h \in Nat : h = Len(g)
            OBVIOUS
          <6>2. b = a + h
            BY <3>3, <4>1, <4>2, <6>1
          <6>3. j \in Nat /\ 1 <= j /\ j <= h
            BY <6>1
          <6> QED
            BY <4>3, <6>2, <6>3
        <5>2. r[a + j] = g[j]
          <6>1. carries(r, a, g)
            BY <3>3, <4>1, <4>2
          <6>2. a + j <= Len(r)
            BY <1>1, <5>1
          <6> QED
            BY <6>1, <6>2 DEF carries
        <5> QED
          BY <1>4, <5>1, <5>2 DEF joined
      <4> QED
        BY <4>1, <4>2, <4>4 DEF carries
    <3> QED
      BY <3>2, <3>3, <3>4
  <2> QED
    BY <2>1, <2>2
<1>12. ASSUME NEW i \in d .. n + 1, NEW j \in i .. n + 1 PROVE f[i] <= f[j]
  <2>1. CASE j = n + 1 /\ i = n + 1
    BY <1>1, <1>2, <1>10, <2>1
  <2>2. CASE j = n + 1 /\ i # n + 1
    <3>1. i \in d .. n /\ n \in i .. n
      BY <1>1, <2>2
    <3>2. off[i] <= off[n] /\ off[i] \in Nat
      BY <1>1, <1>8, <3>1 DEF queued
    <3> QED
      BY <1>1, <1>2, <1>8, <1>10, <2>2, <3>1, <3>2
  <2>3. CASE j # n + 1
    <3>1. i \in d .. n /\ j \in i .. n /\ j \in d .. n
      BY <1>1, <2>3
    <3>2. off[i] <= off[j]
      BY <1>1, <3>1 DEF queued
    <3> QED
      BY <1>10, <3>1, <3>2
  <2> QED
    BY <2>1, <2>2, <2>3
<1>13. f[n + 1] = Len(q) /\ f[n + 1] <= Len(q)
  BY <1>1, <1>2, <1>4, <1>10 DEF joined
<1>14. f[d] = 0
  BY <1>1, <1>8, <1>10
<1>15. queued(f, d, z, q, FALSE)
  BY <1>6, <1>10, <1>11, <1>12, <1>13, <1>14 DEF queued
<1> QED
  BY <1>3, <1>5, <1>15

\* A broken connection leaves the beginning of a message behind those on their way.
LEMMA QueueBreaks ==
  ASSUME WireAssumption, NEW d \in Nat, NEW s \in Seq(Messages), d <= Len(s), NEW r \in Seq(W!Byte),
         NEW off, queued(off, d, s, r, FALSE), NEW m \in Messages,
         NEW h \in 0 .. Len(W!ser_msg(m)) - 1
  PROVE  queued(off, d, s, r \o SubSeq(W!ser_msg(m), 1, h), TRUE)
<1>1. PICK n \in Nat, l \in Nat : n = Len(s) /\ l = Len(r)
  OBVIOUS
<1>2. PICK e \in Seq(W!Byte), k \in Nat : e = W!ser_msg(m) /\ k = Len(e)
  BY MessageBytes
<1>3. PICK g : g = SubSeq(W!ser_msg(m), 1, h)
  OBVIOUS
<1>4. g \in Seq(W!Byte) /\ Len(g) = h /\ h \in Nat /\ h < k /\ \A i \in 1 .. h : g[i] = e[i]
  BY <1>2, <1>3
<1>5. PICK q : q = r \o g
  OBVIOUS
<1>6. q \in Seq(W!Byte) /\ joined(q, l, r, h, g)
  BY <1>1, <1>4, <1>5, JoinedAt
<1>7. off \in [d .. n -> Nat] /\ off[d] = 0 /\ off[n] = l
  BY <1>1 DEF queued
<1>8. Len(q) = l + h
  BY <1>6 DEF joined
<1>9. ASSUME NEW i \in d + 1 .. n
      PROVE  off[i] = off[i - 1] + Len(W!ser_msg(s[i])) /\ carries(q, off[i - 1], W!ser_msg(s[i]))
  <2>1. off[i] = off[i - 1] + Len(W!ser_msg(s[i])) /\ carries(r, off[i - 1], W!ser_msg(s[i]))
    BY <1>1, <1>9 DEF queued
  <2>2. PICK b \in Seq(W!Byte) : b = W!ser_msg(s[i])
    <3>1. s[i] \in Messages
      BY <1>1, <1>9
    <3> QED
      BY <3>1, MessageBytes
  <2>3. i \in d .. n /\ i - 1 \in d .. n /\ n \in i .. n
    BY <1>1, <1>9
  <2>4. PICK a \in Nat, c \in Nat : a = off[i - 1] /\ c = off[i]
    BY <1>7, <2>3
  <2>5. c <= l
    BY <1>1, <1>7, <2>3, <2>4 DEF queued
  <2>6. ASSUME NEW j \in 1 .. Len(b) PROVE q[a + j] = b[j]
    <3>1. a + j \in 1 .. l
      <4>1. PICK t \in Nat : t = Len(b)
        OBVIOUS
      <4>2. c = a + t
        BY <2>1, <2>2, <2>4, <4>1
      <4> QED
        BY <1>1, <2>5, <4>1, <4>2
    <3>2. r[a + j] = b[j]
      BY <1>1, <2>1, <2>2, <2>4, <3>1 DEF carries
    <3> QED
      BY <1>6, <3>1, <3>2 DEF joined
  <2>7. carries(q, off[i - 1], W!ser_msg(s[i]))
    BY <2>2, <2>4, <2>6 DEF carries
  <2> QED
    BY <2>1, <2>7
<1>10. carries(q, l, e)
  <2>1. ASSUME NEW j \in 1 .. Len(e), l + j <= Len(q) PROVE q[l + j] = e[j]
    <3>1. j \in 1 .. h
      BY <1>2, <1>4, <1>8, <2>1
    <3> QED
      BY <1>4, <1>6, <3>1 DEF joined
  <2> QED
    BY <2>1 DEF carries
<1>11. Len(q) < l + k /\ l <= Len(q)
  BY <1>2, <1>4, <1>8
<1>12. \A i \in d .. n : \A j \in i .. n : off[i] <= off[j]
  BY <1>1 DEF queued
<1>13. queued(off, d, s, q, TRUE)
  BY <1>1, <1>2, <1>7, <1>9, <1>10, <1>11, <1>12 DEF queued
<1> QED
  BY <1>3, <1>5, <1>13

\* The j-th place behind o is x places behind p.
shifted(p, o, j) == \E x \in Nat : x = (o - p) + j /\ 1 <= x /\ p + x = o + j

LEMMA Shifted ==
  ASSUME NEW p \in Nat, NEW o \in Nat, NEW j \in Nat, p <= o, 1 <= j
  PROVE  shifted(p, o, j)
BY DEF shifted

\* Without the bytes of the first message those of the others are left.
LEMMA QueueTaken ==
  ASSUME WireAssumption, NEW d \in Nat, NEW s \in Seq(Messages), d + 1 <= Len(s),
         NEW r \in Seq(W!Byte),
         NEW c \in BOOLEAN, NEW off, queued(off, d, s, r, c),
         NEW q \in Seq(W!Byte), NEW p \in Nat, p = Len(W!ser_msg(s[d + 1])),
         Len(q) = Len(r) - p, \A j \in 1 .. Len(q) : q[j] = r[p + j]
  PROVE  \E f : queued(f, d + 1, s, q, c)
<1>1. PICK n \in Nat, l \in Nat : n = Len(s) /\ l = Len(r)
  OBVIOUS
<1>2. off \in [d .. n -> Nat] /\ off[d] = 0 /\ off[n] <= l
  BY <1>1 DEF queued
<1>3. off[d + 1] = p
  <2>1. d + 1 \in d + 1 .. n /\ (d + 1) - 1 = d
    BY <1>1
  <2>2. off[d + 1] = off[(d + 1) - 1] + Len(W!ser_msg(s[d + 1]))
    BY <1>1, <2>1 DEF queued
  <2> QED
    BY <1>2, <2>1, <2>2
<1>4. \A i \in d + 1 .. n : off[i] \in Nat /\ p <= off[i]
  <2>1. ASSUME NEW i \in d + 1 .. n PROVE off[i] \in Nat /\ p <= off[i]
    <3>1. i \in d .. n /\ d + 1 \in d .. n
      BY <1>1, <2>1
    <3>2. off[d + 1] <= off[i]
      BY <1>1, <3>1 DEF queued
    <3> QED
      BY <1>2, <1>3, <3>1, <3>2
  <2> QED
    BY <2>1
<1>5. PICK f : f = [i \in d + 1 .. n |-> off[i] - p]
  OBVIOUS
<1>6. f \in [d + 1 .. n -> Nat] /\ \A i \in d + 1 .. n : f[i] = off[i] - p
  BY <1>4, <1>5
<1>7. f[d + 1] = 0
  BY <1>1, <1>3, <1>6
<1>8. ASSUME NEW o \in Nat, p <= o, NEW e, carries(r, o, e)
      PROVE  carries(q, o - p, e)
  <2>1. ASSUME NEW j \in 1 .. Len(e), (o - p) + j <= Len(q) PROVE q[(o - p) + j] = e[j]
    <3>1. (o - p) + j \in 1 .. Len(q) /\ p + ((o - p) + j) = o + j /\ o + j <= l
      <4>1. PICK h \in Nat : h = Len(q) /\ h = l - p
        BY <1>1
      <4>2. o \in Nat /\ p \in Nat /\ j \in Nat /\ 1 <= j
        OBVIOUS
      <4>3. PICK x \in Nat : x = (o - p) + j /\ 1 <= x /\ p + x = o + j
        <5>1. p <= o
          BY <1>8
        <5>2. shifted(p, o, j)
          BY <4>2, <5>1, Shifted
        <5> QED
          BY <5>2 DEF shifted
      <4>4. x <= h
        BY <2>1, <4>1, <4>3
      <4>5. p + x <= l
        BY <4>1, <4>4
      <4> QED
        BY <4>1, <4>3, <4>4, <4>5
    <3>2. q[(o - p) + j] = r[o + j]
      BY <3>1
    <3> QED
      BY <1>1, <1>8, <3>1, <3>2 DEF carries
  <2> QED
    BY <2>1 DEF carries
<1>9. ASSUME NEW i \in (d + 1) + 1 .. n
      PROVE  f[i] = f[i - 1] + Len(W!ser_msg(s[i])) /\ carries(q, f[i - 1], W!ser_msg(s[i]))
  <2>1. i \in d + 1 .. n /\ i - 1 \in d + 1 .. n
    BY <1>1, <1>9
  <2>2. off[i] = off[i - 1] + Len(W!ser_msg(s[i])) /\ carries(r, off[i - 1], W!ser_msg(s[i]))
    BY <1>1, <2>1 DEF queued
  <2>3. Len(W!ser_msg(s[i])) \in Nat
    <3>1. s[i] \in Messages
      BY <1>1, <2>1
    <3> QED
      BY <3>1, MessageBytes
  <2>4. f[i] = off[i] - p /\ f[i - 1] = off[i - 1] - p /\ off[i] \in Nat /\ off[i - 1] \in Nat
        /\ p <= off[i - 1]
    BY <1>4, <1>6, <2>1
  <2>5. carries(q, off[i - 1] - p, W!ser_msg(s[i]))
    BY <1>8, <2>2, <2>4
  <2> QED
    BY <2>2, <2>3, <2>4, <2>5
<1>10. ASSUME NEW i \in d + 1 .. n, NEW j \in i .. n PROVE f[i] <= f[j]
  <2>1. i \in d .. n /\ j \in d + 1 .. n
    BY <1>1, <1>10
  <2>2. off[i] <= off[j]
    BY <1>1, <2>1 DEF queued
  <2>3. PICK a \in Nat, b \in Nat : a = off[i] /\ b = off[j] /\ a <= b
    BY <1>4, <2>1, <2>2
  <2>4. f[i] = a - p /\ f[j] = b - p
    BY <1>6, <2>1, <2>3
  <2>5. a - p <= b - p
    BY <2>3
  <2> QED
    BY <2>4, <2>5
<1>11. n \in d + 1 .. n /\ f[n] = off[n] - p /\ off[n] \in Nat /\ p <= off[n]
  BY <1>1, <1>4, <1>6
<1>12. f[n] <= Len(q)
  BY <1>1, <1>2, <1>11
<1>13. ~c => f[n] = Len(q)
  BY <1>1, <1>11 DEF queued
<1>14. ASSUME c
       PROVE  \E m \in Messages : carries(q, f[n], W!ser_msg(m))
                                   /\ Len(q) < f[n] + Len(W!ser_msg(m))
  <2>1. PICK m \in Messages : carries(r, off[n], W!ser_msg(m))
                               /\ Len(r) < off[n] + Len(W!ser_msg(m))
    BY <1>1, <1>14 DEF queued
  <2>2. PICK k \in Nat : k = Len(W!ser_msg(m))
    BY MessageBytes
  <2>3. carries(q, f[n], W!ser_msg(m))
    BY <1>8, <1>11, <2>1
  <2>4. Len(q) < f[n] + k
    BY <1>1, <1>11, <2>1, <2>2
  <2> QED
    BY <2>2, <2>3, <2>4
<1>15. queued(f, d + 1, s, q, c)
  BY <1>1, <1>6, <1>7, <1>9, <1>10, <1>12, <1>13, <1>14 DEF queued
<1> QED
  BY <1>15

-----------------------------------------------------------------------------
(***************************************************************************)
(* The message that is being read.                                         *)
(***************************************************************************)

\* The bytes r, behind the d messages of s delivered, start with m: the next of s, or the
\* one in whose middle the peer has closed.
current(m, d, s, r, c) ==
    /\ m \in Messages /\ carries(r, 0, W!ser_msg(m))
    /\ d < Len(s) => m = s[d + 1] /\ Len(W!ser_msg(m)) <= Len(r)
    /\ d = Len(s) => c /\ Len(r) < Len(W!ser_msg(m))

\* Of l bytes p are used, for the first k fields of m: got is what they say, todo the types
\* of the fields that are known to come.
midway(m, types, v, at, k, l, p, g, t) ==
    /\ parsed(m, types, v, at)
    /\ k \in 0 .. Len(types) /\ p = at[k] /\ p <= l
    /\ g \in Seq(Read) /\ Len(g) = k /\ \A i \in 1 .. k : g[i] = v[i]
    /\ t \in Seq(FieldType) /\ Len(t) = (IF k < 7 THEN 7 ELSE Len(types)) - k
    /\ \A i \in 1 .. Len(t) : t[i] = types[k + i]

\* Where bytes are on their way they begin those of a message.
LEMMA Begun ==
  ASSUME WireAssumption, NEW d \in Nat, NEW s \in Seq(Messages), d <= Len(s), NEW r \in Seq(W!Byte),
         NEW c \in BOOLEAN, NEW off, queued(off, d, s, r, c), d < Len(s) \/ Len(r) > 0
  PROVE  \E m : current(m, d, s, r, c)
<1>1. PICK n \in Nat, l \in Nat : n = Len(s) /\ l = Len(r)
  OBVIOUS
<1>2. off \in [d .. n -> Nat] /\ off[d] = 0 /\ off[n] <= l
  BY <1>1 DEF queued
<1>3. CASE d < n
  <2>1. d + 1 \in d + 1 .. n /\ (d + 1) - 1 = d /\ d + 1 \in d .. n /\ n \in d + 1 .. n
    BY <1>1, <1>3
  <2>2. PICK m \in Messages : m = s[d + 1]
    BY <1>1, <1>3
  <2>3. PICK k \in Nat : k = Len(W!ser_msg(m))
    BY MessageBytes
  <2>4. off[d + 1] = off[(d + 1) - 1] + Len(W!ser_msg(s[d + 1]))
        /\ carries(r, off[(d + 1) - 1], W!ser_msg(s[d + 1]))
    BY <1>1, <2>1 DEF queued
  <2>5. off[d + 1] = k /\ carries(r, 0, W!ser_msg(m))
    BY <1>2, <2>1, <2>2, <2>3, <2>4
  <2>6. off[d + 1] <= off[n] /\ off[n] \in Nat
    BY <1>1, <1>2, <2>1 DEF queued
  <2>7. k <= l
    BY <1>2, <2>5, <2>6
  <2> QED
    BY <1>1, <1>3, <2>2, <2>3, <2>5, <2>7 DEF current
<1>4. CASE d = n
  <2>1. c
    BY <1>1, <1>2, <1>4 DEF queued
  <2>2. PICK m \in Messages : /\ carries(r, off[n], W!ser_msg(m))
                              /\ Len(r) < off[n] + Len(W!ser_msg(m))
    BY <1>1, <2>1 DEF queued
  <2>3. PICK k \in Nat : k = Len(W!ser_msg(m))
    BY MessageBytes
  <2>4. carries(r, 0, W!ser_msg(m)) /\ l < k
    BY <1>1, <1>2, <1>4, <2>2, <2>3
  <2> QED
    BY <1>1, <1>4, <2>1, <2>3, <2>4 DEF current
<1> QED
  BY <1>1, <1>3, <1>4

\* What has begun stays begun when more comes behind it.
LEMMA CurrentStays ==
  ASSUME WireAssumption, NEW d \in Nat, NEW s \in Seq(Messages), d < Len(s), NEW r \in Seq(W!Byte),
         NEW c, NEW m, current(m, d, s, r, c),
         NEW z \in Seq(Messages), Len(s) <= Len(z), z[d + 1] = s[d + 1],
         NEW q \in Seq(W!Byte), Len(r) <= Len(q), \A j \in 1 .. Len(r) : q[j] = r[j], NEW b
  PROVE  current(m, d, z, q, b)
<1>1. PICK e \in Seq(W!Byte), k \in Nat : e = W!ser_msg(m) /\ k = Len(e) /\ m \in Messages
  BY MessageBytes DEF current
<1>2. PICK l \in Nat, h \in Nat, n \in Nat, w \in Nat :
        l = Len(r) /\ h = Len(q) /\ n = Len(s) /\ w = Len(z)
  OBVIOUS
<1>3. carries(r, 0, e) /\ m = s[d + 1] /\ k <= l
  BY <1>1, <1>2 DEF current
<1>4. ASSUME NEW j \in 1 .. k PROVE q[0 + j] = e[j]
  <2>1. 0 + j = j /\ j \in 1 .. l
    BY <1>3
  <2>2. r[0 + j] = e[j]
    BY <1>1, <1>2, <1>3, <2>1 DEF carries
  <2> QED
    BY <1>2, <2>1, <2>2
<1>5. carries(q, 0, e)
  BY <1>1, <1>4 DEF carries
<1>6. k <= h /\ d < w
  BY <1>2, <1>3
<1> QED
  BY <1>1, <1>2, <1>3, <1>5, <1>6 DEF current

\* In front of a message none of its fields has been read.
LEMMA StartMidway ==
  ASSUME WireAssumption, NEW m \in Messages, NEW l \in Nat
  PROVE  \E types, v, at : midway(m, types, v, at, 0, l, 0, <<>>, W!deser_msg)
<1>1. PICK types, v, at : parsed(m, types, v, at)
  BY MessageBytes
<1>2. at[0] = 0 /\ types \in Seq(FieldType) /\ \A i \in 1 .. 7 : types[i] = W!deser_msg[i]
  BY <1>1 DEF parsed, fields
<1>3. W!deser_msg \in Seq(FieldType) /\ Len(W!deser_msg) = 7
  BY FirstTypes
<1>4. \A i \in 1 .. 7 : W!deser_msg[i] = types[0 + i]
  <2>1. \A i \in 1 .. 7 : 0 + i = i
    OBVIOUS
  <2> QED
    BY <1>2, <2>1
<1>5. 0 \in 0 .. Len(types) /\ <<>> \in Seq(Read) /\ Len(<<>>) = 0
  BY <1>2
<1>6. midway(m, types, v, at, 0, l, 0, <<>>, W!deser_msg)
  <2>1. 0 < 7 /\ 7 - 0 = 7 /\ 0 <= l
    OBVIOUS
  <2>2. \A i \in 1 .. 0 : <<>>[i] = v[i]
    OBVIOUS
  <2> QED
    BY <1>1, <1>2, <1>3, <1>4, <1>5, <2>1, <2>2 DEF midway
<1> QED
  BY <1>6

\* The next field that todo names is the next one of m, behind the p bytes that are used.
ahead(m, types, v, at, k, p, t) ==
    /\ k \in Nat /\ k < Len(types) /\ Len(types) \in Nat
    /\ p = at[k] /\ p \in Nat /\ at[k + 1] \in Nat
    /\ Head(t) = types[k + 1]
    /\ field(W!ser_msg(m), p, at[k + 1], types[k + 1], v[k + 1])

\* Halfway through a message the next field is there to be read.
LEMMA FieldAhead ==
  ASSUME NEW m, NEW types, NEW v, NEW at, NEW k, NEW l \in Nat, NEW p, NEW g, NEW t,
         midway(m, types, v, at, k, l, p, g, t), t # <<>>
  PROVE  ahead(m, types, v, at, k, p, t)
<1>1. /\ at \in [0 .. Len(types) -> Nat] /\ fields(W!ser_msg(m), types, v, at)
      /\ Len(types) = 7 + 2 * Len(m.m_votemap.elems) /\ types \in Seq(FieldType)
  BY DEF midway, parsed, fields
<1>2. PICK n \in Nat : n = Len(types)
  BY <1>1
<1>3. n >= 7
  <2>1. PICK e \in Nat : e = Len(m.m_votemap.elems)
    <3>1. m \in W!Message
      BY DEF midway, parsed
    <3>2. m.m_votemap.elems \in Seq(Vote)
      BY <3>1 DEF W!Message, W!Votes, Vote
    <3> QED
      BY <3>2
  <2> QED
    BY <1>1, <1>2, <2>1
<1>4. k \in 0 .. n /\ p = at[k] /\ t \in Seq(FieldType)
      /\ Len(t) = (IF k < 7 THEN 7 ELSE n) - k /\ \A i \in 1 .. Len(t) : t[i] = types[k + i]
  BY <1>2 DEF midway
<1>5. Len(t) \in Nat /\ Len(t) # 0 /\ Head(t) = t[1]
  BY <1>4
<1>6. k < n
  BY <1>3, <1>4, <1>5
<1>7. Head(t) = types[k + 1]
  <2>1. 1 \in 1 .. Len(t)
    BY <1>5
  <2> QED
    BY <1>4, <1>5, <2>1
<1>8. field(W!ser_msg(m), at[k], at[k + 1], types[k + 1], v[k + 1])
  <2>1. k + 1 \in 1 .. n /\ (k + 1) - 1 = k
    BY <1>4, <1>6
  <2>2. field(W!ser_msg(m), at[(k + 1) - 1], at[k + 1], types[k + 1], v[k + 1])
    BY <1>1, <1>2, <2>1 DEF fields
  <2> QED
    BY <2>1, <2>2
<1>9. at[k] \in Nat /\ at[k + 1] \in Nat
  <2>1. at \in [0 .. n -> Nat]
    BY <1>1, <1>2
  <2>2. k \in 0 .. n /\ k + 1 \in 0 .. n
    BY <1>4, <1>6
  <2> QED
    BY <2>1, <2>2
<1>10. k \in Nat /\ k < Len(types) /\ Len(types) \in Nat
  BY <1>2, <1>4, <1>6
<1> QED
  BY <1>4, <1>7, <1>8, <1>9, <1>10 DEF ahead

\* After the next field has been read the reader is in front of the one behind it.
LEMMA MidwayNext ==
  ASSUME WireAssumption, NEW m, NEW types, NEW v, NEW at, NEW k, NEW l \in Nat, NEW p, NEW g, NEW t,
         midway(m, types, v, at, k, l, p, g, t), t # <<>>, at[k + 1] <= l,
         NEW u, types[k + 1] # "list" => u = Tail(t),
         types[k + 1] = "list" => u = elem_types(v[k + 1]) \o Tail(t)
  PROVE  midway(m, types, v, at, k + 1, l, at[k + 1], Append(g, v[k + 1]), u)
<1>1. k \in Nat /\ k < Len(types) /\ Len(types) \in Nat
  BY FieldAhead DEF ahead
<1>2. PICK n \in Nat : n = Len(types)
  BY <1>1
<1>3. PICK e \in Nat : e = Len(m.m_votemap.elems) /\ n = 7 + 2 * e
  <2>1. m \in W!Message
    BY DEF midway, parsed
  <2>2. m.m_votemap.elems \in Seq(Vote)
    BY <2>1 DEF W!Message, W!Votes, Vote
  <2>3. Len(m.m_votemap.elems) \in Nat
    BY <2>2
  <2> QED
    BY <1>2, <2>3 DEF midway, parsed
<1>4. /\ \A i \in 1 .. 7 : types[i] = W!deser_msg[i]
      /\ \A i \in 1 .. 2 * e : types[7 + i] = elem_types(e)[i]
      /\ v[7] = e
  BY <1>3 DEF midway, parsed
<1>5. elem_types(e) \in Seq({"int", "str"}) /\ Len(elem_types(e)) = 2 * e
  <2>1. m.m_votemap.elems \in Seq(Vote) /\ Len(m.m_votemap.elems) \in W!Number
    BY DEF midway, parsed, W!Message, W!Votes, Vote
  <2> QED
    BY <1>3, <2>1, VotesFields
<1>6. /\ t \in Seq(FieldType) /\ Len(t) = (IF k < 7 THEN 7 ELSE n) - k
      /\ \A i \in 1 .. Len(t) : t[i] = types[k + i]
      /\ g \in Seq(Read) /\ Len(g) = k /\ \A i \in 1 .. k : g[i] = v[i]
  BY <1>2 DEF midway
<1>7. PICK w \in Seq(FieldType) : /\ w = Tail(t) /\ Len(w) = Len(t) - 1
                                  /\ \A i \in 1 .. Len(w) : w[i] = t[i + 1]
  <2>1. \A f \in Seq(FieldType) : f # <<>> =>
          /\ Tail(f) \in Seq(FieldType) /\ Len(Tail(f)) = Len(f) - 1
          /\ \A i \in 1 .. Len(Tail(f)) : Tail(f)[i] = f[i + 1]
    OBVIOUS
  <2> QED
    BY <1>6, <2>1
<1>8. types[k + 1] = "list" <=> k = 6
  <2>1. CASE k < 6
    <3>1. k + 1 \in 1 .. 6 /\ k + 1 \in 1 .. 7
      BY <1>1, <2>1
    <3>2. types[k + 1] \in {"int", "str"}
      BY <1>4, <3>1, FirstTypes
    <3> QED
      BY <2>1, <3>2
  <2>2. CASE k = 6
    <3>1. 6 + 1 = 7 /\ 7 \in 1 .. 7
      OBVIOUS
    <3>2. types[7] = "list"
      BY <1>4, <3>1, FirstTypes
    <3> QED
      BY <2>2, <3>1, <3>2
  <2>3. CASE k > 6
    <3>1. PICK i \in 1 .. 2 * e : i = k + 1 - 7
      <4>1. k + 1 - 7 \in 1 .. 2 * e
        BY <1>1, <1>2, <1>3, <2>3
      <4> QED
        BY <4>1
    <3>2. types[7 + i] = elem_types(e)[i] /\ elem_types(e)[i] \in {"int", "str"}
      <4>1. PICK f \in Seq({"int", "str"}) : f = elem_types(e) /\ Len(f) = 2 * e
        BY <1>5
      <4>2. f[i] \in {"int", "str"}
        BY <4>1
      <4> QED
        BY <1>4, <4>1, <4>2
    <3>3. 7 + i = k + 1
      BY <1>1, <3>1
    <3> QED
      BY <2>3, <3>2, <3>3
  <2> QED
    BY <1>1, <2>1, <2>2, <2>3
<1>9. /\ u \in Seq(FieldType) /\ Len(u) = (IF k + 1 < 7 THEN 7 ELSE n) - (k + 1)
      /\ \A i \in 1 .. Len(u) : u[i] = types[(k + 1) + i]
  <2>1. CASE k # 6
    <3>1. u = w
      BY <1>7, <1>8, <2>1
    <3>2. Len(w) = (IF k + 1 < 7 THEN 7 ELSE n) - (k + 1)
      BY <1>1, <1>6, <1>7, <2>1
    <3>3. ASSUME NEW i \in 1 .. Len(w) PROVE w[i] = types[(k + 1) + i]
      <4>1. i + 1 \in 1 .. Len(t) /\ k + (i + 1) = (k + 1) + i
        BY <1>1, <1>6, <1>7
      <4> QED
        BY <1>6, <1>7, <4>1
    <3> QED
      BY <1>7, <3>1, <3>2, <3>3
  <2>2. CASE k = 6
    <3>1. Len(w) = 0
      BY <1>6, <1>7, <2>2
    <3>2. PICK z \in Seq(FieldType) : z = elem_types(e) /\ Len(z) = 2 * e
      <4>1. elem_types(e) \in Seq(FieldType)
        BY <1>5 DEF FieldType
      <4> QED
        BY <1>5, <4>1
    <3>3. u = z \o w
      <4>1. k + 1 = 7
        BY <2>2
      <4> QED
        BY <1>4, <1>7, <1>8, <2>2, <3>2, <4>1
    <3>4. u \in Seq(FieldType) /\ joined(u, 2 * e, z, 0, w)
      BY <3>1, <3>2, <3>3, JoinedAt
    <3>5. Len(u) = 2 * e /\ \A i \in 1 .. 2 * e : u[i] = types[7 + i]
      BY <1>3, <1>4, <3>2, <3>4 DEF joined
    <3> QED
      BY <1>3, <2>2, <3>4, <3>5
  <2> QED
    BY <2>1, <2>2
<1>10. PICK h : h = Append(g, v[k + 1])
  OBVIOUS
<1>11. v \in Seq(Read) /\ Len(v) = n
  BY <1>2 DEF midway, parsed, fields
<1>12. h \in Seq(Read) /\ Len(h) = k + 1 /\ \A i \in 1 .. k + 1 : h[i] = v[i]
  <2>1. PICK R : R = Read
    OBVIOUS
  <2>2. v[k + 1] \in R
    <3>1. k + 1 \in 1 .. n
      BY <1>1, <1>2
    <3> QED
      BY <1>11, <2>1, <3>1
  <2>3. g \in Seq(R)
    BY <1>6, <2>1
  <2>4. h \in Seq(R) /\ Len(h) = k + 1 /\ h[k + 1] = v[k + 1] /\ \A i \in 1 .. k : h[i] = g[i]
    BY <1>6, <1>10, <2>2, <2>3
  <2>5. \A i \in 1 .. k + 1 : i \in 1 .. k \/ i = k + 1
    BY <1>1
  <2> QED
    BY <1>6, <2>1, <2>4, <2>5
<1>13. k + 1 \in 0 .. n /\ parsed(m, types, v, at)
  BY <1>1, <1>2 DEF midway
<1> QED
  BY <1>2, <1>9, <1>10, <1>12, <1>13 DEF midway

\* The bytes of a number or a length, as far as they are there, are read as what was written.
LEMMA IntRead ==
  ASSUME WireAssumption, NEW r \in Seq(W!Byte), NEW e \in Seq(W!Byte), carries(r, 0, e),
         NEW p \in Nat, NEW q \in Nat, NEW type \in {"int", "list"}, NEW x,
         field(e, p, q, type, x), p + Word <= Len(r)
  PROVE  q = p + Word /\ x \in W!Number /\ W!getn(SubSeq(r, p + 1, p + Word)) = x
<1>1. Word \in Nat
  BY DEF WireAssumption
<1>2. /\ x \in W!Number /\ q = p + Word /\ q <= Len(e)
      /\ \A i \in 1 .. Word : e[p + i] = W!ser_int(x)[i]
  BY DEF field
<1>3. PICK l \in Nat, n \in Nat : l = Len(r) /\ n = Len(e)
  OBVIOUS
<1>4. PICK z : z = SubSeq(r, p + 1, p + Word)
  OBVIOUS
<1>5. z \in Seq(W!Byte) /\ Len(z) = Word /\ \A i \in 1 .. Word : z[i] = r[p + i]
  <2>1. \A a \in Nat, b \in Nat : a <= b /\ b <= Len(r) =>
          /\ SubSeq(r, a + 1, b) \in Seq(W!Byte) /\ Len(SubSeq(r, a + 1, b)) = b - a
          /\ \A i \in 1 .. b - a : SubSeq(r, a + 1, b)[i] = r[a + i]
    OBVIOUS
  <2>2. p + Word \in Nat /\ p <= p + Word /\ p + Word <= Len(r) /\ (p + Word) - p = Word
    BY <1>1
  <2> QED
    BY <1>4, <2>1, <2>2
<1>6. PICK y \in Seq(W!Byte) : y = W!ser_int(x) /\ Len(y) = Word /\ W!getn(y) = x
  BY <1>2, NumberRead
<1>7. ASSUME NEW i \in 1 .. Word PROVE z[i] = y[i]
  <2>1. 0 + (p + i) = p + i /\ p + i \in 1 .. n /\ 0 + (p + i) <= l
    BY <1>1, <1>2, <1>3
  <2>2. r[0 + (p + i)] = e[p + i]
    BY <1>3, <2>1 DEF carries
  <2> QED
    BY <1>2, <1>5, <1>6, <2>1, <2>2
<1>8. z = y
  BY <1>1, <1>5, <1>6, <1>7, Same
<1> QED
  BY <1>2, <1>4, <1>6, <1>8

\* So are those of a string: it ends at the first zero.
\* Its zero byte is there when it ends within r, and it is what comes before the first one.
ends(r, p, q, x, E) ==
    /\ q <= Len(r) <=> E # {}
    /\ E # {} => W!Min(E) = q /\ SubSeq(r, p + 1, q - 1) = x

\* A string is read as it was written, as soon as its zero byte is there.
LEMMA StringRead ==
  ASSUME NEW r \in Seq(W!Byte), NEW e \in Seq(W!Byte), carries(r, 0, e),
         NEW p \in Nat, NEW q \in Nat, NEW x, field(e, p, q, "str", x),
         NEW E, E = {i \in p + 1 .. Len(r) : r[i] = 0}
  PROVE  ends(r, p, q, x, E)
<1>1. /\ x \in W!String /\ q = p + Len(x) + 1 /\ q <= Len(e)
      /\ \A i \in 1 .. Len(x) : e[p + i] = x[i]
      /\ e[q] = 0
  BY DEF field
<1>2. PICK l \in Nat, n \in Nat : l = Len(r) /\ n = Len(e)
  OBVIOUS
<1>3. PICK T : T = W!Byte
  OBVIOUS
<1>4. x \in Seq(T \ {0})
  BY <1>1, <1>3 DEF W!String
<1>5. PICK k \in Nat : k = Len(x) /\ q = p + k + 1
  BY <1>1, <1>4
<1>6. \A j \in 1 .. l : j <= n => r[j] = e[j]
  <2>1. ASSUME NEW j \in 1 .. l, j <= n PROVE r[j] = e[j]
    <3>1. j \in 1 .. n /\ 0 + j = j /\ 0 + j <= l
      BY <2>1
    <3>2. r[0 + j] = e[j]
      BY <1>2, <3>1 DEF carries
    <3> QED
      BY <3>1, <3>2
  <2> QED
    BY <2>1
<1>7. \A i \in 1 .. k : p + i <= l => r[p + i] = x[i] /\ x[i] # 0
  <2>1. ASSUME NEW i \in 1 .. k, p + i <= l PROVE r[p + i] = x[i] /\ x[i] # 0
    <3>1. p + i \in 1 .. l /\ p + i <= n
      BY <1>1, <1>2, <1>5, <2>1
    <3>2. e[p + i] = x[i]
      BY <1>1, <1>5
    <3>3. x[i] \in T \ {0}
      BY <1>4, <1>5
    <3> QED
      BY <1>6, <3>1, <3>2, <3>3
  <2> QED
    BY <2>1
<1>8. \A i \in E : i \in p + 1 .. l /\ q <= i
  <2>1. ASSUME NEW i \in E PROVE i \in p + 1 .. l /\ q <= i
    <3>1. i \in p + 1 .. l /\ r[i] = 0
      BY <1>2
    <3>2. CASE i < q
      <4>1. PICK j \in 1 .. k : i = p + j
        <5>1. i - p \in 1 .. k /\ i = p + (i - p)
          BY <1>5, <3>1, <3>2
        <5> QED
          BY <5>1
      <4>2. r[p + j] = x[j] /\ x[j] # 0
        BY <1>7, <3>1, <4>1
      <4> QED
        BY <3>1, <4>1, <4>2
    <3> QED
      BY <1>5, <3>1, <3>2
  <2> QED
    BY <2>1
<1>9. ASSUME q <= l PROVE q \in E
  <2>1. q \in p + 1 .. l /\ q \in 1 .. l
    BY <1>5, <1>9
  <2>2. r[q] = 0
    BY <1>1, <1>2, <1>6, <2>1
  <2> QED
    BY <1>2, <2>1, <2>2
<1>10. ASSUME E # {}
       PROVE  q <= l /\ W!Min(E) = q /\ SubSeq(r, p + 1, q - 1) = x
  <2>1. q <= l
    <3>1. PICK i : i \in E
      BY <1>10
    <3> QED
      BY <1>5, <1>8, <3>1
  <2>2. q \in E
    BY <1>9, <2>1
  <2>3. W!Min(E) = q
    <3>1. \A y \in E : q <= y
      BY <1>8
    <3>2. W!Min(E) \in E /\ \A y \in E : W!Min(E) <= y
      BY <2>2, <3>1 DEF W!Min
    <3>3. W!Min(E) <= q /\ q <= W!Min(E) /\ W!Min(E) \in p + 1 .. l
      BY <1>8, <2>2, <3>1, <3>2
    <3> QED
      BY <3>3
  <2>4. PICK z : z = SubSeq(r, p + 1, q - 1)
    OBVIOUS
  <2>5. z \in Seq(T) /\ Len(z) = k /\ \A i \in 1 .. k : z[i] = r[p + i]
    <3>1. r \in Seq(T)
      BY <1>3
    <3>2. \A a \in Nat, b \in Nat : a <= b /\ b <= Len(r) =>
            /\ SubSeq(r, a + 1, b) \in Seq(T) /\ Len(SubSeq(r, a + 1, b)) = b - a
            /\ \A i \in 1 .. b - a : SubSeq(r, a + 1, b)[i] = r[a + i]
      BY <3>1
    <3>3. q - 1 \in Nat /\ p <= q - 1 /\ q - 1 <= Len(r) /\ (q - 1) - p = k
      BY <1>2, <1>5, <2>1
    <3> QED
      BY <2>4, <3>2, <3>3
  <2>6. x \in Seq(T)
    BY <1>4
  <2>7. \A i \in 1 .. k : z[i] = x[i]
    <3>1. ASSUME NEW i \in 1 .. k PROVE z[i] = x[i]
      <4>1. p + i <= l
        BY <1>5, <2>1
      <4> QED
        BY <1>7, <2>5, <4>1
    <3> QED
      BY <3>1
  <2>8. z = x
    BY <1>5, <2>5, <2>6, <2>7, Same
  <2> QED
    BY <2>1, <2>3, <2>4, <2>8
<1> QED
  BY <1>2, <1>9, <1>10 DEF ends

-----------------------------------------------------------------------------
(***************************************************************************)
(* The connection.                                                         *)
(***************************************************************************)

\* What has been delivered is what was sent first; the rest is on its way.
Flow ==
    /\ sent \in Seq(Messages) /\ delivered \in Seq(Messages)
    /\ inp \in Seq(W!Byte) /\ wire \in Seq(W!Byte) /\ closed \in BOOLEAN
    /\ Len(delivered) <= Len(sent)
    /\ \A i \in 1 .. Len(delivered) : delivered[i] = sent[i]
    /\ \E off : queued(off, Len(delivered), sent, inp \o wire, closed)

ReadsAt(m, types, v, at, k) ==
    /\ current(m, Len(delivered), sent, inp \o wire, closed)
    /\ midway(m, types, v, at, k, Len(inp), pos, got, todo)

\* The reader is in front of a message or at a field of the one that comes next.
Reads ==
    \/ pos = 0 /\ got = <<>> /\ todo = W!deser_msg
    \/ \E m, types, v, at, k : ReadsAt(m, types, v, at, k)

WireInv == Flow /\ Reads

\* The bytes at the reader come before those on the wire.
LEMMA Lined ==
  ASSUME Flow
  PROVE  /\ inp \o wire \in Seq(W!Byte)
         /\ Len(inp) \in Nat /\ Len(wire) \in Nat
         /\ joined(inp \o wire, Len(inp), inp, Len(wire), wire)
         /\ Len(sent) \in Nat /\ Len(delivered) \in Nat
<1>1. inp \in Seq(W!Byte) /\ wire \in Seq(W!Byte) /\ sent \in Seq(Messages)
      /\ delivered \in Seq(Messages)
  BY DEF Flow
<1>2. inp \o wire \in Seq(W!Byte) /\ joined(inp \o wire, Len(inp), inp, Len(wire), wire)
  BY <1>1, JoinedAt
<1>3. Len(inp) \in Nat /\ Len(wire) \in Nat /\ Len(sent) \in Nat /\ Len(delivered) \in Nat
  BY <1>1
<1> QED
  BY <1>2, <1>3

\* Where the next field is there, or a message to deliver is, the reader has begun.
LEMMA Reading ==
  ASSUME WireAssumption, WireInv, todo # <<>>, W!running,
         W!needed <= 0 \/ Len(delivered) < Len(sent)
  PROVE  \E m, types, v, at, k : ReadsAt(m, types, v, at, k)
<1> SUFFICES ASSUME pos = 0, got = <<>>, todo = W!deser_msg
             PROVE  \E m, types, v, at, k : ReadsAt(m, types, v, at, k)
  BY DEF WireInv, Reads
<1>0. Flow
  BY DEF WireInv
<1>1. PICK l \in Nat, n \in Nat : l = Len(inp) /\ n = Len(wire) /\ Len(inp \o wire) = l + n
  BY <1>0, Lined DEF joined
<1>2. Len(delivered) < Len(sent) \/ Len(inp \o wire) > 0
  <2>1. ASSUME W!needed <= 0 PROVE l > 0
    <3>1. Head(todo) = "int"
      <4>1. todo \in Seq(FieldType) /\ Len(todo) = 7 /\ todo[1] = "int"
        <5>1. 1 \in 1 .. 5 /\ <<"int", "int", "int", "int", "str">>[1] = "int"
          OBVIOUS
        <5> QED
          BY <5>1, FirstTypes
      <4> QED
        BY <4>1
    <3>2. ~W!reading("str")
      BY <3>1 DEF W!reading
    <3>3. 0 + Word - l <= 0
      BY <1>1, <2>1, <3>2 DEF W!needed
    <3> QED
      BY <3>3 DEF WireAssumption
  <2> QED
    BY <1>1, <2>1
<1>3. PICK off : queued(off, Len(delivered), sent, inp \o wire, closed)
  BY <1>0 DEF Flow
<1>4. /\ sent \in Seq(Messages) /\ closed \in BOOLEAN /\ Len(delivered) <= Len(sent)
      /\ Len(delivered) \in Nat /\ inp \o wire \in Seq(W!Byte)
  BY <1>0, Lined DEF Flow
<1>5. PICK m : current(m, Len(delivered), sent, inp \o wire, closed)
  BY <1>2, <1>3, <1>4, Begun
<1>6. m \in Messages
  BY <1>5 DEF current
<1>7. PICK types, v, at : midway(m, types, v, at, 0, l, 0, <<>>, W!deser_msg)
  BY <1>6, StartMidway
<1>8. ReadsAt(m, types, v, at, 0)
  BY <1>1, <1>5, <1>7 DEF ReadsAt
<1> QED
  BY <1>8

\* What has been read of the message is what was written.
LEMMA Agrees ==
  ASSUME WireAssumption, Flow, NEW m, current(m, Len(delivered), sent, inp \o wire, closed)
  PROVE  carries(inp, 0, W!ser_msg(m)) /\ W!ser_msg(m) \in Seq(W!Byte)
<1>1. PICK e \in Seq(W!Byte) : e = W!ser_msg(m) /\ carries(inp \o wire, 0, e)
  BY MessageBytes DEF current
<1> PICK r : r = inp \o wire
  OBVIOUS
<1>2. PICK l \in Nat, n \in Nat :
        r = inp \o wire /\ l = Len(inp) /\ n = Len(wire) /\ joined(r, l, inp, n, wire)
  BY Lined
<1>3. ASSUME NEW j \in 1 .. Len(e), 0 + j <= l PROVE inp[0 + j] = e[j]
  <2>1. 0 + j = j /\ j \in 1 .. l /\ 0 + j <= Len(r)
    BY <1>2, <1>3 DEF joined
  <2>2. r[0 + j] = e[j]
    BY <1>1, <1>2, <2>1 DEF carries
  <2> QED
    BY <1>2, <2>1, <2>2 DEF joined
<1> QED
  BY <1>1, <1>2, <1>3 DEF carries

\* The next field has been read.
LEMMA FieldTaken ==
  ASSUME WireAssumption, WireInv, NEW m, NEW types, NEW v, NEW at, NEW k, ReadsAt(m, types, v, at,
         k),
         todo # <<>>, at[k + 1] <= Len(inp),
         pos' = at[k + 1], got' = Append(got, v[k + 1]),
         types[k + 1] # "list" => todo' = Tail(todo),
         types[k + 1] = "list" => todo' = elem_types(v[k + 1]) \o Tail(todo),
         UNCHANGED <<sent, wire, closed, inp, delivered>>
  PROVE  WireInv'
<1>1. PICK l, t, u, g, p :
        l \in Nat /\ l = Len(inp) /\ t = todo /\ u = todo' /\ g = got /\ p = pos
  BY Lined DEF WireInv
<1> l \in Nat
  BY <1>1
<1>2. midway(m, types, v, at, k, l, p, g, t)
  BY <1>1 DEF ReadsAt
<1>3. midway(m, types, v, at, k + 1, l, at[k + 1], Append(g, v[k + 1]), u)
  BY <1>1, <1>2, MidwayNext
<1>4. current(m, Len(delivered), sent, inp \o wire, closed)
  BY DEF ReadsAt
<1>5. ReadsAt(m, types, v, at, k + 1)'
  BY <1>1, <1>3, <1>4 DEF ReadsAt
<1>6. Reads'
  BY <1>5 DEF Reads
<1>7. Flow'
  BY DEF WireInv, Flow
<1> QED
  BY <1>6, <1>7 DEF WireInv

\* The initial states satisfy the invariant.
LEMMA WireInit ==
  ASSUME W!Init PROVE WireInv
<1>1. PICK off : off = [i \in 0 .. 0 |-> 0]
  OBVIOUS
<1>2. /\ sent = <<>> /\ delivered = <<>> /\ inp = <<>> /\ wire = <<>> /\ closed = FALSE
      /\ pos = 0 /\ got = <<>> /\ todo = W!deser_msg
  BY DEF W!Init
<1>3. inp \o wire = <<>>
  BY <1>2
<1>4. queued(off, 0, <<>>, <<>>, FALSE)
  BY <1>1 DEF queued
<1>5. Len(delivered) = 0
  BY <1>2
<1>6. queued(off, Len(delivered), sent, inp \o wire, closed)
  BY <1>2, <1>3, <1>4, <1>5
<1>7. /\ sent \in Seq(Messages) /\ delivered \in Seq(Messages)
      /\ inp \in Seq(W!Byte) /\ wire \in Seq(W!Byte) /\ closed \in BOOLEAN
      /\ Len(delivered) <= Len(sent) /\ \A i \in 1 .. Len(delivered) : delivered[i] = sent[i]
  <2>1. <<>> \in Seq(Messages) /\ <<>> \in Seq(W!Byte) /\ FALSE \in BOOLEAN
    OBVIOUS
  <2>2. Len(sent) = 0
    BY <1>2
  <2>3. Len(delivered) <= Len(sent)
    BY <1>5, <2>2
  <2>4. \A i \in 1 .. Len(delivered) : delivered[i] = sent[i]
    BY <1>5
  <2> QED
    BY <1>2, <2>1, <2>3, <2>4
<1>8. Flow
  BY <1>6, <1>7 DEF Flow
<1> QED
  BY <1>2, <1>8 DEF WireInv, Reads

\* The bytes on their way stay and e comes behind them: the reader's place does not change.
LEMMA Longer ==
  ASSUME WireInv, NEW e \in Seq(W!Byte), wire' = wire \o e, inp' = inp
  PROVE  /\ inp' \o wire' = (inp \o wire) \o e
         /\ Len(inp \o wire) <= Len(inp' \o wire')
         /\ inp' \o wire' \in Seq(W!Byte) /\ wire' \in Seq(W!Byte)
         /\ \A j \in 1 .. Len(inp \o wire) : (inp' \o wire')[j] = (inp \o wire)[j]
<1>1. Flow
  BY DEF WireInv
<1>2. PICK T : T = W!Byte
  OBVIOUS
<1>3. PICK a \in Seq(T), b \in Seq(T), c \in Seq(T) : a = inp /\ b = wire /\ c = e
  BY <1>1, <1>2 DEF Flow
<1>4. a \o (b \o c) = (a \o b) \o c /\ b \o c \in Seq(T) /\ a \o b \in Seq(T)
  OBVIOUS
<1>5. PICK r \in Seq(T) : r = a \o b
  BY <1>4
<1>6. PICK q : q = r \o c
  OBVIOUS
<1>7. q \in Seq(T) /\ joined(q, Len(r), r, Len(c), c)
  BY <1>6, JoinedAt
<1>8. Len(r) <= Len(q) /\ \A j \in 1 .. Len(r) : q[j] = r[j]
  <2>1. Len(r) \in Nat /\ Len(c) \in Nat
    OBVIOUS
  <2> QED
    BY <1>7, <2>1 DEF joined
<1>9. inp' \o wire' = q /\ inp \o wire = r /\ wire' = b \o c
  BY <1>3, <1>4, <1>5, <1>6
<1> QED
  BY <1>2, <1>3, <1>4, <1>6, <1>7, <1>8, <1>9

\* What comes behind the bytes on their way does not change where the reader is.
LEMMA ReadsKept ==
  ASSUME WireAssumption, WireInv, NEW e \in Seq(W!Byte), wire' = wire \o e, ~closed,
         sent' \in Seq(Messages), Len(sent) <= Len(sent'),
         \A i \in 1 .. Len(sent) : sent'[i] = sent[i],
         UNCHANGED <<inp, pos, todo, got, delivered>>
  PROVE  Reads'
<1>1. CASE pos = 0 /\ got = <<>> /\ todo = W!deser_msg
  BY <1>1 DEF Reads
<1>2. ASSUME NEW m, NEW types, NEW v, NEW at, NEW k, ReadsAt(m, types, v, at, k)
      PROVE  Reads'
  <2>1. PICK r, q, s, z, d, b :
          /\ r = inp \o wire /\ q = inp' \o wire' /\ s = sent /\ z = sent'
          /\ d = Len(delivered) /\ b = closed'
    OBVIOUS
  <2>2. Flow
    BY DEF WireInv
  <2>3. current(m, d, s, r, closed)
    BY <1>2, <2>1 DEF ReadsAt
  <2>4. d \in Nat /\ d <= Len(s) /\ Len(s) \in Nat /\ s \in Seq(Messages) /\ r \in Seq(W!Byte)
    BY <2>1, <2>2, Lined DEF Flow
  <2>5. d < Len(s)
    BY <2>3, <2>4 DEF current
  <2>6. /\ q \in Seq(W!Byte) /\ Len(r) <= Len(q) /\ \A j \in 1 .. Len(r) : q[j] = r[j]
    BY <2>1, Longer
  <2>7. d + 1 \in 1 .. Len(s)
    BY <2>4, <2>5
  <2>8. z \in Seq(Messages) /\ Len(s) <= Len(z) /\ z[d + 1] = s[d + 1]
    BY <2>1, <2>7
  <2>9. current(m, d, z, q, b)
    BY <2>3, <2>4, <2>5, <2>6, <2>8, CurrentStays
  <2>10. ReadsAt(m, types, v, at, k)'
    BY <1>2, <2>1, <2>9 DEF ReadsAt
  <2> QED
    BY <2>10 DEF Reads
<1> QED
  BY <1>1, <1>2 DEF WireInv, Reads

\* A message sent keeps the invariant.
LEMMA Sends ==
  ASSUME WireAssumption, WireInv, NEW m \in Messages, W!send(m)
  PROVE  WireInv'
<1>1. Flow /\ closed = FALSE /\ closed' = FALSE
  BY DEF WireInv, Flow, W!send
<1>2. PICK e \in Seq(W!Byte) : e = W!ser_msg(m)
  BY MessageBytes
<1>3. /\ wire' = wire \o e /\ sent' = Append(sent, m)
      /\ UNCHANGED <<inp, pos, todo, got, delivered>>
  BY <1>2 DEF W!send, W!reader_vars
<1>4. sent \in Seq(Messages)
  BY <1>1 DEF Flow
<1>5. /\ sent' \in Seq(Messages) /\ Len(sent') = Len(sent) + 1 /\ Len(sent) \in Nat
      /\ \A i \in 1 .. Len(sent) : sent'[i] = sent[i]
  BY <1>3, <1>4
<1>6. Reads'
  <2>1. Len(sent) <= Len(sent') /\ ~closed
    BY <1>1, <1>5
  <2> QED
    BY <1>3, <1>5, <2>1, ReadsKept
<1>7. /\ inp' \o wire' = (inp \o wire) \o e /\ wire' \in Seq(W!Byte)
  BY <1>3, Longer
<1>8. PICK off : queued(off, Len(delivered), sent, inp \o wire, FALSE)
  BY <1>1 DEF Flow
<1>9. PICK f : queued(f, Len(delivered), Append(sent, m), (inp \o wire) \o e, FALSE)
  <2>1. Len(delivered) \in Nat /\ inp \o wire \in Seq(W!Byte) /\ Len(delivered) <= Len(sent)
    BY <1>1, Lined DEF Flow
  <2> QED
    BY <1>2, <1>4, <1>8, <2>1, QueueGrows
<1>10. Len(delivered) <= Len(sent') /\ \A i \in 1 .. Len(delivered) : delivered[i] = sent'[i]
  <2>1. Len(delivered) \in Nat /\ Len(delivered) <= Len(sent)
    BY <1>1, Lined DEF Flow
  <2>2. \A i \in 1 .. Len(delivered) : i \in 1 .. Len(sent) /\ delivered[i] = sent[i]
    BY <1>1, <1>5, <2>1 DEF Flow
  <2> QED
    BY <1>5, <2>1, <2>2
<1>11. Flow'
  BY <1>1, <1>3, <1>5, <1>7, <1>9, <1>10 DEF Flow
<1> QED
  BY <1>6, <1>11 DEF WireInv

\* A connection that breaks keeps the invariant.
LEMMA Breaks ==
  ASSUME WireAssumption, WireInv, NEW m \in Messages, W!break(m)
  PROVE  WireInv'
<1>1. Flow /\ closed = FALSE /\ closed' = TRUE
  BY DEF WireInv, Flow, W!break
<1>2. PICK h \in 0 .. Len(W!ser_msg(m)) - 1 : wire' = wire \o SubSeq(W!ser_msg(m), 1, h)
  BY DEF W!break
<1>3. PICK e \in Seq(W!Byte) : e = SubSeq(W!ser_msg(m), 1, h)
  <2>1. PICK b \in Seq(W!Byte), n \in Nat : b = W!ser_msg(m) /\ n = Len(b)
    BY MessageBytes
  <2>2. h \in 0 .. n - 1
    BY <2>1
  <2>3. SubSeq(b, 1, h) \in Seq(W!Byte)
    BY <2>1, <2>2
  <2> QED
    BY <2>1, <2>3
<1>4. wire' = wire \o e /\ UNCHANGED <<sent, inp, pos, todo, got, delivered>>
  BY <1>2, <1>3 DEF W!break, W!reader_vars
<1>5. sent \in Seq(Messages) /\ Len(sent) \in Nat
  BY <1>1, Lined DEF Flow
<1>6. Reads'
  <2>1. sent' \in Seq(Messages) /\ Len(sent) <= Len(sent')
        /\ \A i \in 1 .. Len(sent) : sent'[i] = sent[i]
    BY <1>4, <1>5
  <2> QED
    BY <1>1, <1>3, <1>4, <2>1, ReadsKept
<1>7. inp' \o wire' = (inp \o wire) \o e /\ wire' \in Seq(W!Byte)
  BY <1>4, Longer
<1>8. PICK off : queued(off, Len(delivered), sent, inp \o wire, FALSE)
  BY <1>1 DEF Flow
<1>9. queued(off, Len(delivered), sent, (inp \o wire) \o e, TRUE)
  <2>1. Len(delivered) \in Nat /\ inp \o wire \in Seq(W!Byte) /\ Len(delivered) <= Len(sent)
    BY <1>1, Lined DEF Flow
  <2> QED
    BY <1>3, <1>5, <1>8, <2>1, QueueBreaks
<1>10. Flow'
  BY <1>1, <1>4, <1>7, <1>9 DEF Flow
<1> QED
  BY <1>6, <1>10 DEF WireInv

\* Bytes go from the wire to the reader.
LEMMA Mores ==
  ASSUME WireAssumption, WireInv, W!more
  PROVE  WireInv'
<1>1. Flow
  BY DEF WireInv
<1>2. PICK l \in Nat, a \in Nat : l = Len(wire) /\ a = Len(inp)
  BY <1>1, Lined
<1>3. PICK n \in 1 .. W!Min({Len(wire), W!Max({Chunk, W!needed})}) :
        /\ inp' = inp \o SubSeq(wire, 1, n)
        /\ wire' = SubSeq(wire, n + 1, Len(wire))
  BY DEF W!more
<1>4. UNCHANGED <<sent, closed, pos, todo, got, delivered>>
  BY DEF W!more
<1>5. n \in 1 .. l
  <2>1. PICK x : x = W!Max({Chunk, W!needed})
    OBVIOUS
  <2>2. x \in Int
    <3>1. W!needed \in Int
      <4>1. pos \in Int
        <5>1. CASE pos = 0
          BY <5>1
        <5>2. ASSUME NEW m, NEW types, NEW v, NEW at, NEW k, ReadsAt(m, types, v, at, k)
              PROVE  pos \in Int
          <6>1. at \in [0 .. Len(types) -> Nat] /\ k \in 0 .. Len(types) /\ pos = at[k]
            BY <5>2 DEF ReadsAt, midway, parsed
          <6> QED
            BY <6>1
        <5> QED
          BY <5>1, <5>2 DEF WireInv, Reads
      <4> QED
        BY <1>2, <4>1 DEF W!needed, WireAssumption
    <3>2. \E y \in {Chunk, W!needed} : \A z \in {Chunk, W!needed} : y >= z
      BY <3>1 DEF WireAssumption
    <3>3. x \in {Chunk, W!needed}
      BY <2>1, <3>2 DEF W!Max
    <3> QED
      BY <3>1, <3>3 DEF WireAssumption
  <2>3. PICK y : y = W!Min({l, x})
    OBVIOUS
  <2>4. \E w \in {l, x} : \A z \in {l, x} : w <= z
    BY <2>2
  <2>5. y \in {l, x} /\ \A z \in {l, x} : y <= z
    BY <2>3, <2>4 DEF W!Min
  <2>6. y \in Int /\ y <= l
    BY <2>2, <2>5
  <2> QED
    BY <1>2, <1>3, <2>1, <2>3, <2>6
<1>6. PICK T : T = W!Byte
  OBVIOUS
<1>7. PICK f \in Seq(T), g \in Seq(T) : f = inp /\ g = wire
  BY <1>1, <1>6 DEF Flow
<1>8. PICK u \in Seq(T), w \in Seq(T) :
        /\ u = SubSeq(g, 1, n) /\ w = SubSeq(g, n + 1, l) /\ Len(u) = n /\ Len(w) = l - n
        /\ \A i \in 1 .. n : u[i] = g[i]
        /\ \A i \in 1 .. l - n : w[i] = g[n + i]
  <2>1. /\ SubSeq(g, 1, n) \in Seq(T) /\ Len(SubSeq(g, 1, n)) = n
        /\ \A i \in 1 .. n : SubSeq(g, 1, n)[i] = g[i]
    BY <1>2, <1>5, <1>7
  <2>2. /\ SubSeq(g, n + 1, l) \in Seq(T) /\ Len(SubSeq(g, n + 1, l)) = l - n
        /\ \A i \in 1 .. l - n : SubSeq(g, n + 1, l)[i] = g[n + i]
    BY <1>2, <1>5, <1>7
  <2> QED
    BY <2>1, <2>2
<1>9. inp' = f \o u /\ wire' = w
  BY <1>2, <1>3, <1>7, <1>8
<1>10. u \o w = g
  <2>1. joined(g, n, u, l - n, w)
    BY <1>2, <1>5, <1>7, <1>8 DEF joined
  <2>2. n \in Nat /\ l - n \in Nat
    BY <1>5
  <2> QED
    BY <1>8, <2>1, <2>2, Glued
<1>11. (f \o u) \o w = f \o (u \o w)
  OBVIOUS
<1>12. inp' \o wire' = inp \o wire
  BY <1>7, <1>9, <1>10, <1>11
<1>13. inp' \in Seq(W!Byte) /\ wire' \in Seq(W!Byte) /\ Len(inp') = a + n
  <2>1. f \o u \in Seq(T) /\ Len(f \o u) = Len(f) + Len(u)
    OBVIOUS
  <2> QED
    BY <1>2, <1>6, <1>7, <1>8, <1>9, <2>1
<1>14. Flow'
  BY <1>1, <1>4, <1>12, <1>13 DEF Flow
<1>15. Reads'
  <2>1. CASE pos = 0 /\ got = <<>> /\ todo = W!deser_msg
    BY <1>4, <2>1 DEF Reads
  <2>2. ASSUME NEW m, NEW types, NEW v, NEW at, NEW k, ReadsAt(m, types, v, at, k)
        PROVE  Reads'
    <3>1. PICK b, p, z, t : b \in Nat /\ b = Len(inp') /\ p = pos /\ z = got /\ t = todo
      BY <1>2, <1>13
    <3> b \in Nat
      BY <3>1
    <3>2. midway(m, types, v, at, k, a, p, z, t)
      BY <1>2, <2>2, <3>1 DEF ReadsAt
    <3>3. midway(m, types, v, at, k, b, p, z, t)
      <4>1. p \in Nat /\ p <= a
        <5>1. at \in [0 .. Len(types) -> Nat] /\ k \in 0 .. Len(types) /\ p = at[k] /\ p <= a
          BY <3>2 DEF midway, parsed
        <5> QED
          BY <5>1
      <4>2. p <= b
        BY <1>5, <1>13, <3>1, <4>1
      <4> QED
        BY <3>2, <4>2 DEF midway
    <3>4. ReadsAt(m, types, v, at, k)'
      BY <1>4, <1>12, <2>2, <3>1, <3>3 DEF ReadsAt
    <3> QED
      BY <3>4 DEF Reads
  <2> QED
    BY <2>1, <2>2 DEF WireInv, Reads
<1> QED
  BY <1>14, <1>15 DEF WireInv

\* A number read keeps the invariant.
LEMMA IntTaken ==
  ASSUME WireAssumption, WireInv, W!get_int
  PROVE  WireInv'
<1>1. /\ todo # <<>> /\ W!running /\ Head(todo) = "int" /\ W!needed <= 0
      /\ pos' = pos + Word /\ got' = Append(got, W!word) /\ todo' = Tail(todo)
      /\ UNCHANGED <<sent, wire, closed, inp, delivered>>
  BY DEF W!get_int, W!reading, W!take
<1>2. PICK m, types, v, at, k : ReadsAt(m, types, v, at, k)
  BY <1>1, Reading
<1>3. PICK l, p, g, t : l \in Nat /\ l = Len(inp) /\ p = pos /\ g = got /\ t = todo
  BY Lined DEF WireInv
<1> l \in Nat
  BY <1>3
<1>4. midway(m, types, v, at, k, l, p, g, t)
  BY <1>2, <1>3 DEF ReadsAt
<1>5. /\ p = at[k] /\ p \in Nat /\ at[k + 1] \in Nat /\ Head(t) = types[k + 1]
      /\ field(W!ser_msg(m), p, at[k + 1], types[k + 1], v[k + 1])
  <2>1. t # <<>>
    BY <1>1, <1>3
  <2>2. ahead(m, types, v, at, k, p, t)
    BY <1>4, <2>1, FieldAhead
  <2> QED
    BY <2>2 DEF ahead
<1>6. carries(inp, 0, W!ser_msg(m)) /\ W!ser_msg(m) \in Seq(W!Byte) /\ inp \in Seq(W!Byte)
  BY <1>2, Agrees DEF WireInv, Flow, ReadsAt
<1>7. p + Word <= l
  <2>1. ~W!reading("str")
    BY <1>1 DEF W!reading
  <2>2. p + Word - l <= 0
    BY <1>1, <1>3, <2>1 DEF W!needed
  <2> QED
    BY <1>5, <2>2 DEF WireAssumption
<1>8. types[k + 1] = "int"
  BY <1>1, <1>3, <1>5
<1>9. at[k + 1] = p + Word /\ W!word = v[k + 1]
  <2>1. "int" \in {"int", "list"}
    OBVIOUS
  <2>2. PICK q, x : q \in Nat /\ q = at[k + 1] /\ x = v[k + 1]
    BY <1>5
  <2> q \in Nat
    BY <2>2
  <2>3. field(W!ser_msg(m), p, q, "int", x)
    BY <1>5, <1>8, <2>2
  <2>4. q = p + Word /\ W!getn(SubSeq(inp, p + 1, p + Word)) = x
    BY <1>3, <1>5, <1>6, <1>7, <2>1, <2>3, IntRead
  <2> QED
    BY <1>3, <2>2, <2>4 DEF W!word
<1> QED
  BY <1>1, <1>2, <1>3, <1>7, <1>8, <1>9, FieldTaken

\* A length read keeps the invariant, and the types of its elements come next.
LEMMA ListTaken ==
  ASSUME WireAssumption, WireInv, W!get_list
  PROVE  WireInv'
<1>1. /\ todo # <<>> /\ W!running /\ Head(todo) = "list" /\ W!needed <= 0
      /\ pos' = pos + Word /\ got' = Append(got, W!word)
      /\ todo' = elem_types(W!word) \o Tail(todo)
      /\ UNCHANGED <<sent, wire, closed, inp, delivered>>
  BY DEF W!get_list, W!reading, W!take, elem_types
<1>2. PICK m, types, v, at, k : ReadsAt(m, types, v, at, k)
  BY <1>1, Reading
<1>3. PICK l, p, g, t : l \in Nat /\ l = Len(inp) /\ p = pos /\ g = got /\ t = todo
  BY Lined DEF WireInv
<1> l \in Nat
  BY <1>3
<1>4. midway(m, types, v, at, k, l, p, g, t)
  BY <1>2, <1>3 DEF ReadsAt
<1>5. /\ p = at[k] /\ p \in Nat /\ at[k + 1] \in Nat /\ Head(t) = types[k + 1]
      /\ field(W!ser_msg(m), p, at[k + 1], types[k + 1], v[k + 1])
  <2>1. t # <<>>
    BY <1>1, <1>3
  <2>2. ahead(m, types, v, at, k, p, t)
    BY <1>4, <2>1, FieldAhead
  <2> QED
    BY <2>2 DEF ahead
<1>6. carries(inp, 0, W!ser_msg(m)) /\ W!ser_msg(m) \in Seq(W!Byte) /\ inp \in Seq(W!Byte)
  BY <1>2, Agrees DEF WireInv, Flow, ReadsAt
<1>7. p + Word <= l
  <2>1. ~W!reading("str")
    BY <1>1 DEF W!reading
  <2>2. p + Word - l <= 0
    BY <1>1, <1>3, <2>1 DEF W!needed
  <2> QED
    BY <1>5, <2>2 DEF WireAssumption
<1>8. types[k + 1] = "list"
  BY <1>1, <1>3, <1>5
<1>9. at[k + 1] = p + Word /\ W!word = v[k + 1]
  <2>1. "list" \in {"int", "list"}
    OBVIOUS
  <2>2. PICK q, x : q \in Nat /\ q = at[k + 1] /\ x = v[k + 1]
    BY <1>5
  <2> q \in Nat
    BY <2>2
  <2>3. field(W!ser_msg(m), p, q, "list", x)
    BY <1>5, <1>8, <2>2
  <2>4. q = p + Word /\ W!getn(SubSeq(inp, p + 1, p + Word)) = x
    BY <1>3, <1>5, <1>6, <1>7, <2>1, <2>3, IntRead
  <2> QED
    BY <1>3, <2>2, <2>4 DEF W!word
<1> QED
  BY <1>1, <1>2, <1>3, <1>7, <1>8, <1>9, FieldTaken

\* A string read keeps the invariant.
LEMMA StringTaken ==
  ASSUME WireAssumption, WireInv, W!get_string
  PROVE  WireInv'
<1>1. /\ todo # <<>> /\ W!running /\ W!reading("str") /\ Head(todo) = "str" /\ W!needed <= 0
      /\ pos' = pos + (W!Min(W!string_ends) - pos)
      /\ got' = Append(got, SubSeq(inp, pos + 1, W!Min(W!string_ends) - 1))
      /\ todo' = Tail(todo)
      /\ UNCHANGED <<sent, wire, closed, inp, delivered>>
  BY DEF W!get_string, W!reading, W!take
<1>2. PICK m, types, v, at, k : ReadsAt(m, types, v, at, k)
  BY <1>1, Reading
<1>3. PICK l, p, g, t : l \in Nat /\ l = Len(inp) /\ p = pos /\ g = got /\ t = todo
  BY Lined DEF WireInv
<1> l \in Nat
  BY <1>3
<1>4. midway(m, types, v, at, k, l, p, g, t)
  BY <1>2, <1>3 DEF ReadsAt
<1>5. /\ p = at[k] /\ p \in Nat /\ at[k + 1] \in Nat /\ Head(t) = types[k + 1]
      /\ field(W!ser_msg(m), p, at[k + 1], types[k + 1], v[k + 1])
  <2>1. t # <<>>
    BY <1>1, <1>3
  <2>2. ahead(m, types, v, at, k, p, t)
    BY <1>4, <2>1, FieldAhead
  <2> QED
    BY <2>2 DEF ahead
<1>6. carries(inp, 0, W!ser_msg(m)) /\ W!ser_msg(m) \in Seq(W!Byte) /\ inp \in Seq(W!Byte)
  BY <1>2, Agrees DEF WireInv, Flow, ReadsAt
<1>7. types[k + 1] = "str"
  BY <1>1, <1>3, <1>5
<1>8. PICK E : E = W!string_ends
  OBVIOUS
<1>9. E = {i \in p + 1 .. Len(inp) : inp[i] = 0} /\ E # {}
  BY <1>1, <1>3, <1>8 DEF W!needed, W!string_ends
<1>10. PICK q, x : q \in Nat /\ q = at[k + 1] /\ x = v[k + 1] /\ field(W!ser_msg(m), p, q, "str", x)
  BY <1>5, <1>7
<1> q \in Nat
  BY <1>10
<1>11. q <= l /\ W!Min(E) = q /\ SubSeq(inp, p + 1, q - 1) = x
  <2>1. PICK r \in Seq(W!Byte), e \in Seq(W!Byte) : r = inp /\ e = W!ser_msg(m) /\ carries(r, 0, e)
    BY <1>6
  <2>2. E = {i \in p + 1 .. Len(r) : r[i] = 0}
    BY <1>9, <2>1
  <2>3. field(e, p, q, "str", x)
    BY <1>10, <2>1
  <2>4. carries(r, 0, e) /\ p \in Nat
    BY <1>5, <2>1
  <2>5. ends(r, p, q, x, E)
    BY <2>2, <2>3, <2>4, StringRead
  <2> QED
    BY <1>3, <1>9, <2>1, <2>5 DEF ends
<1>12. pos' = at[k + 1] /\ got' = Append(got, v[k + 1]) /\ at[k + 1] <= Len(inp)
  <2>1. p + (q - p) = q
    BY <1>5
  <2> QED
    BY <1>1, <1>3, <1>8, <1>10, <1>11, <2>1
<1>13. types[k + 1] # "list"
  BY <1>7
<1> QED
  BY <1>1, <1>2, <1>7, <1>12, <1>13, FieldTaken

\* What is delivered is the next message sent, and the invariant is kept.
LEMMA Received ==
  ASSUME WireAssumption, WireInv, W!recv
  PROVE  /\ Len(delivered) < Len(sent)
         /\ delivered' = Append(delivered, sent[Len(delivered) + 1])
         /\ WireInv'
<1>1. /\ todo = <<>> /\ delivered' = Append(delivered, W!msg_of(got))
      /\ inp' = SubSeq(inp, pos + 1, Len(inp)) /\ pos' = 0
      /\ todo' = W!deser_msg /\ got' = <<>>
      /\ UNCHANGED <<sent, wire, closed>>
  BY DEF W!recv
<1>2. Flow
  BY DEF WireInv
<1>3. PICK m, types, v, at, k : ReadsAt(m, types, v, at, k)
  <2>1. W!deser_msg # <<>>
    BY FirstTypes
  <2> QED
    BY <1>1, <2>1 DEF WireInv, Reads
<1>4. PICK l, p, g, t : l \in Nat /\ l = Len(inp) /\ p = pos /\ g = got /\ t = todo
  BY <1>2, Lined
<1> l \in Nat
  BY <1>4
<1>5. midway(m, types, v, at, k, l, p, g, t)
  BY <1>3, <1>4 DEF ReadsAt
<1>6. PICK n \in Nat : n = Len(types) /\ n >= 7
  <2>1. m \in W!Message /\ Len(types) = 7 + 2 * Len(m.m_votemap.elems)
    BY <1>5 DEF midway, parsed
  <2>2. m.m_votemap.elems \in Seq(Vote)
    BY <2>1 DEF W!Message, W!Votes, Vote
  <2>3. PICK e \in Nat : e = Len(m.m_votemap.elems)
    BY <2>2
  <2> QED
    BY <2>1, <2>3
<1>7. k = n
  <2>1. k \in 0 .. n /\ Len(t) = (IF k < 7 THEN 7 ELSE n) - k
    BY <1>5, <1>6 DEF midway
  <2>2. Len(t) = 0
    BY <1>1, <1>4
  <2> QED
    BY <1>6, <2>1, <2>2
<1>8. W!msg_of(got) = m
  <2>1. PICK R : R = Read
    OBVIOUS
  <2>2. g \in Seq(R) /\ Len(g) = n /\ \A i \in 1 .. n : g[i] = v[i]
    BY <1>5, <1>7, <2>1 DEF midway
  <2>3. v \in Seq(R) /\ Len(v) = n /\ W!msg_of(v) = m
    BY <1>5, <1>6, <2>1 DEF midway, parsed, fields
  <2>4. g = v
    BY <2>2, <2>3, Same
  <2> QED
    BY <1>4, <2>3, <2>4
<1>9. PICK e \in Seq(W!Byte) : e = W!ser_msg(m) /\ p = Len(e) /\ p \in Nat /\ p <= l
  <2>1. /\ W!ser_msg(m) \in Seq(W!Byte) /\ at[n] = Len(W!ser_msg(m)) /\ p = at[n] /\ p <= l
    BY <1>5, <1>6, <1>7 DEF midway, parsed, fields
  <2>2. PICK e \in Seq(W!Byte) : e = W!ser_msg(m)
    BY <2>1
  <2>3. Len(e) \in Nat
    OBVIOUS
  <2> QED
    BY <2>1, <2>2, <2>3
<1>10. PICK d \in Nat, s \in Seq(Messages), b \in Nat :
         /\ d = Len(delivered) /\ s = sent /\ d <= Len(s) /\ Len(s) \in Nat
         /\ b = Len(wire)
  BY <1>2, Lined DEF Flow
<1>11. PICK r \in Seq(W!Byte) : r = inp \o wire /\ joined(r, l, inp, b, wire)
  BY <1>2, <1>4, <1>10, Lined
<1>12. Len(r) = l + b /\ current(m, d, s, r, closed)
  BY <1>3, <1>10, <1>11 DEF ReadsAt, joined
<1>13. d < Len(s) /\ m = s[d + 1]
  <2>1. d # Len(s)
    BY <1>9, <1>12 DEF current
  <2>2. d < Len(s)
    BY <1>10, <2>1
  <2> QED
    BY <1>12, <2>2 DEF current
<1>14. PICK off : queued(off, d, s, r, closed) /\ closed \in BOOLEAN
  BY <1>2, <1>10, <1>11 DEF Flow
<1>15. PICK T : T = W!Byte
  OBVIOUS
<1>16. PICK f \in Seq(T), z \in Seq(T) : f = inp /\ z = wire
  BY <1>2, <1>15 DEF Flow
<1>17. PICK u \in Seq(T) : /\ u = SubSeq(f, p + 1, l) /\ Len(u) = l - p
                           /\ \A i \in 1 .. l - p : u[i] = f[p + i]
  <2>1. /\ SubSeq(f, p + 1, l) \in Seq(T) /\ Len(SubSeq(f, p + 1, l)) = l - p
        /\ \A i \in 1 .. l - p : SubSeq(f, p + 1, l)[i] = f[p + i]
    BY <1>4, <1>9, <1>16
  <2> QED
    BY <2>1
<1>18. inp' = u /\ wire' = z /\ u \in Seq(W!Byte)
  BY <1>1, <1>4, <1>15, <1>16, <1>17
<1>19. PICK q : q = u \o z
  OBVIOUS
<1>20. q \in Seq(T) /\ joined(q, l - p, u, b, z)
  BY <1>10, <1>16, <1>17, <1>19, JoinedAt
<1>21. Len(q) = Len(r) - p
  BY <1>9, <1>12, <1>20 DEF joined
<1>22. ASSUME NEW j \in 1 .. Len(q) PROVE q[j] = r[p + j]
  <2>1. CASE j <= l - p
    <3>1. j \in 1 .. l - p /\ p + j \in 1 .. l
      BY <1>9, <2>1
    <3>2. q[j] = u[j] /\ u[j] = f[p + j]
      BY <1>17, <1>20, <3>1 DEF joined
    <3>3. r[p + j] = f[p + j]
      BY <1>11, <1>16, <3>1 DEF joined
    <3> QED
      BY <3>2, <3>3
  <2>2. CASE ~(j <= l - p)
    <3>1. PICK i \in 1 .. b : j = (l - p) + i
      <4>1. j - (l - p) \in 1 .. b /\ j = (l - p) + (j - (l - p))
        BY <1>9, <1>12, <1>21, <2>2
      <4> QED
        BY <4>1
    <3>2. q[(l - p) + i] = z[i]
      BY <1>20 DEF joined
    <3>3. r[l + i] = z[i] /\ l + i = p + j
      BY <1>9, <1>11, <1>16, <3>1 DEF joined
    <3> QED
      BY <3>1, <3>2, <3>3
  <2> QED
    BY <1>9, <2>1, <2>2
<1>23. PICK h : queued(h, d + 1, s, q, closed)
  <2>1. p = Len(W!ser_msg(s[d + 1])) /\ d + 1 <= Len(s) /\ q \in Seq(W!Byte)
    BY <1>9, <1>10, <1>13, <1>15, <1>20
  <2> QED
    BY <1>9, <1>14, <1>21, <1>22, <2>1, QueueTaken
<1>24. PICK x : x = Append(delivered, m)
  OBVIOUS
<1>25. /\ x \in Seq(Messages) /\ Len(x) = d + 1 /\ x[d + 1] = m
       /\ \A i \in 1 .. d : x[i] = delivered[i]
  <2>1. m \in Messages /\ delivered \in Seq(Messages)
    BY <1>2, <1>12 DEF Flow, current
  <2> QED
    BY <1>10, <1>24, <2>1
<1>26. ASSUME NEW i \in 1 .. d + 1 PROVE x[i] = s[i]
  <2>1. CASE i = d + 1
    BY <1>13, <1>25, <2>1
  <2>2. CASE i # d + 1
    <3>1. i \in 1 .. d
      BY <1>10, <2>2
    <3>2. delivered[i] = sent[i]
      BY <1>2, <1>10, <3>1 DEF Flow
    <3> QED
      BY <1>10, <1>25, <3>1, <3>2
  <2> QED
    BY <2>1, <2>2
<1>27. delivered' = x
  BY <1>1, <1>8, <1>24
<1>28. Flow'
  <2>1. Len(delivered') = d + 1 /\ sent' = s /\ inp' \o wire' = q /\ closed' = closed
    BY <1>1, <1>10, <1>18, <1>19, <1>25, <1>27
  <2>2. d + 1 <= Len(s)
    BY <1>10, <1>13
  <2>3. wire' \in Seq(W!Byte) /\ inp' \in Seq(W!Byte)
    BY <1>15, <1>18
  <2>4. \E o : queued(o, Len(delivered)', sent', inp' \o wire', closed')
    BY <1>23, <2>1
  <2>5. \A i \in 1 .. Len(delivered') : delivered'[i] = sent'[i]
    BY <1>26, <1>27, <2>1
  <2> QED
    BY <1>10, <1>14, <1>25, <1>27, <2>1, <2>2, <2>3, <2>4, <2>5 DEF Flow
<1>29. Reads'
  BY <1>1 DEF Reads
<1> QED
  BY <1>10, <1>13, <1>24, <1>27, <1>28, <1>29 DEF WireInv

\* Every step of the writer, the reader and the connection keeps the invariant.
LEMMA WireNext ==
  ASSUME WireAssumption, WireInv, [W!Next]_W!vars
  PROVE  WireInv'
<1>1. ASSUME NEW m \in Messages, W!send(m) PROVE WireInv'
  BY <1>1, Sends
<1>2. ASSUME NEW m \in Messages, W!break(m) PROVE WireInv'
  BY <1>2, Breaks
<1>3. CASE W!more
  BY <1>3, Mores
<1>4. CASE W!get_int
  BY <1>4, IntTaken
<1>5. CASE W!get_string
  BY <1>5, StringTaken
<1>6. CASE W!get_list
  BY <1>6, ListTaken
<1>7. CASE W!recv
  BY <1>7, Received
<1>8. CASE W!deser_err \/ W!recvfrom_failed \/ UNCHANGED W!vars
  <2>1. UNCHANGED <<sent, wire, closed, inp, pos, todo, got, delivered>>
    BY <1>8 DEF W!deser_err, W!recvfrom_failed, W!vars
  <2> QED
    BY <2>1 DEF WireInv, Flow, Reads, ReadsAt
<1> QED
  BY <1>1, <1>2, <1>3, <1>4, <1>5, <1>6, <1>7, <1>8 DEF W!Next, W!read, W!proceed

\* The reader is always at a field of the message that comes next, and what it has read
\* is what the writer wrote.
THEOREM WireInvariance ==
  ASSUME WireAssumption
  PROVE  W!Spec => []WireInv
<1>1. W!Init => WireInv
  BY WireInit
<1>2. WireInv /\ [W!Next]_W!vars => WireInv'
  BY WireNext
<1> QED
  BY <1>1, <1>2, PTL DEF W!Spec

\* However the bytes are cut into reads and wherever the connection breaks, the callback
\* gets the messages that were sent, in order, and no others.
THEOREM DeliversAsSent ==
  ASSUME WireAssumption
  PROVE  W!Spec => []W!DeliveredAsSent
<1>1. WireInv => W!DeliveredAsSent
  <2> SUFFICES ASSUME WireInv PROVE W!DeliveredAsSent
    OBVIOUS
  <2>1. PICK d \in Seq(Messages), s \in Seq(Messages) :
          d = delivered /\ s = sent /\ Len(d) <= Len(s) /\ \A i \in 1 .. Len(d) : d[i] = s[i]
    BY DEF WireInv, Flow
  <2>2. SubSeq(d, 1, Len(d)) = SubSeq(s, 1, Len(d))
    <3>1. PICK n \in Nat : n = Len(d)
      OBVIOUS
    <3>2. SubSeq(d, 1, n) \in Seq(Messages) /\ Len(SubSeq(d, 1, n)) = n
          /\ \A i \in 1 .. n : SubSeq(d, 1, n)[i] = d[i]
      BY <3>1
    <3>3. SubSeq(s, 1, n) \in Seq(Messages) /\ Len(SubSeq(s, 1, n)) = n
          /\ \A i \in 1 .. n : SubSeq(s, 1, n)[i] = s[i]
      BY <2>1, <3>1
    <3>4. \A i \in 1 .. n : SubSeq(d, 1, n)[i] = SubSeq(s, 1, n)[i]
      BY <2>1, <3>1, <3>2, <3>3
    <3>5. SubSeq(d, 1, n) = SubSeq(s, 1, n)
      BY <3>2, <3>3, <3>4, Same
    <3> QED
      BY <3>1, <3>5
  <2> QED
    BY <2>1, <2>2 DEF W!DeliveredAsSent, W!IsPrefix
<1>2. W!Spec => []WireInv
  BY WireInvariance
<1> QED
  BY <1>1, <1>2, PTL

\* When the reader blocks and nothing is on its way, all that was sent has been delivered.
THEOREM NothingIsHeldBack ==
  ASSUME WireAssumption
  PROVE  W!Spec => []W!NothingWaits
<1>1. WireInv => W!NothingWaits
  <2> SUFFICES ASSUME WireInv, W!running, wire = <<>>, todo # <<>>, W!needed > 0,
                      Len(delivered) < Len(sent)
               PROVE  FALSE
    <3>1. ASSUME WireInv, ~(Len(delivered) < Len(sent)) PROVE delivered = sent
      <4>1. /\ delivered \in Seq(Messages) /\ sent \in Seq(Messages)
            /\ Len(delivered) <= Len(sent)
            /\ \A i \in 1 .. Len(delivered) : delivered[i] = sent[i]
        BY <3>1 DEF WireInv, Flow
      <4>2. PICK n \in Nat : n = Len(delivered) /\ n = Len(sent)
        BY <3>1, <4>1
      <4> QED
        BY <4>1, <4>2, Same
    <3> QED
      BY <3>1 DEF W!NothingWaits
  <2>1. PICK m, types, v, at, k : ReadsAt(m, types, v, at, k)
    BY Reading
  <2>2. Flow
    BY DEF WireInv
  <2>3. PICK l, p, g, t : l \in Nat /\ l = Len(inp) /\ p = pos /\ g = got /\ t = todo
    BY <2>2, Lined
  <2> l \in Nat
    BY <2>3
  <2>4. /\ p = at[k] /\ p \in Nat /\ at[k + 1] \in Nat /\ Head(t) = types[k + 1]
        /\ field(W!ser_msg(m), p, at[k + 1], types[k + 1], v[k + 1])
    <3>1. midway(m, types, v, at, k, l, p, g, t)
      BY <2>1, <2>3 DEF ReadsAt
    <3>2. t # <<>>
      BY <2>3
    <3>3. ahead(m, types, v, at, k, p, t)
      BY <3>1, <3>2, FieldAhead
    <3> QED
      BY <3>3 DEF ahead
  <2>5. /\ carries(inp, 0, W!ser_msg(m)) /\ W!ser_msg(m) \in Seq(W!Byte) /\ inp \in Seq(W!Byte)
    BY <2>1, <2>2, Agrees DEF Flow, ReadsAt
  <2>6. PICK e \in Nat : e = Len(W!ser_msg(m)) /\ e <= l
    <3>1. current(m, Len(delivered), sent, inp \o wire, closed)
      BY <2>1 DEF ReadsAt
    <3>2. inp \o wire = inp
      BY <2>5
    <3>3. PICK f \in Seq(W!Byte) : f = W!ser_msg(m) /\ Len(f) <= Len(inp)
      BY <2>5, <3>1, <3>2 DEF current
    <3>4. Len(f) \in Nat
      OBVIOUS
    <3> QED
      BY <2>3, <3>3, <3>4
  <2>7. PICK q, x, type :
          /\ q \in Nat
          /\ q = at[k + 1] /\ x = v[k + 1] /\ type = types[k + 1]
          /\ field(W!ser_msg(m), p, q, type, x)
    BY <2>4
  <2> q \in Nat
    BY <2>7
  <2>8. q <= l
    BY <2>6, <2>7 DEF field
  <2>9. CASE type = "str"
    <3>1. PICK E : E = W!string_ends
      OBVIOUS
    <3>2. E # {}
      <4>1. E = {i \in p + 1 .. Len(inp) : inp[i] = 0}
        BY <2>3, <3>1 DEF W!string_ends
      <4>2. field(W!ser_msg(m), p, q, "str", x)
        BY <2>7, <2>9
      <4>3. p \in Nat /\ inp \in Seq(W!Byte) /\ W!ser_msg(m) \in Seq(W!Byte)
            /\ carries(inp, 0, W!ser_msg(m))
        BY <2>4, <2>5
      <4>4. ends(inp, p, q, x, E)
        BY <4>1, <4>2, <4>3, StringRead
      <4> QED
        BY <2>3, <2>8, <4>4 DEF ends
    <3>4. W!reading("str")
      BY <2>3, <2>4, <2>7, <2>9 DEF W!reading
    <3> QED
      BY <3>1, <3>2, <3>4 DEF W!needed
  <2>10. CASE type # "str"
    <3>1. q = p + Word
      BY <2>7, <2>10 DEF field
    <3>2. ~W!reading("str")
      BY <2>3, <2>4, <2>7, <2>10 DEF W!reading
    <3>3. p + Word - l > 0
      BY <2>3, <3>2 DEF W!needed
    <3> QED
      BY <2>4, <2>8, <3>1, <3>3 DEF WireAssumption
  <2> QED
    BY <2>9, <2>10
<1>2. W!Spec => []WireInv
  BY WireInvariance
<1> QED
  BY <1>1, <1>2, PTL
=============================================================================
