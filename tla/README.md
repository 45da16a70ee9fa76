# Models and proofs of the verified Multi-Paxos and Raft artifact

The repository holds two replicated logs written in Ivy, Multi-Paxos
(`src/examples/multi-paxos`) and Raft (`src/examples/raft`), the C++ that Ivy
extracts from them, an earlier Raft over UDP (`src/examples/aaa`), and a key-value
store on top (`src/evaluation`).  Ivy proves inductive safety invariants of the
protocols.  This project states the protocols in TLA+, model-checks the server code
(message handlers, timers, retransmission) with the ghost code it calls, proves the
safety of protocols and servers for any cluster size, and looks at what the Ivy proof
does not cover: the extracted runtime below the protocols (sockets, threads, bytes,
arrays and sets) and the unverified code above them (adapter, event loop, store, client).

## 1. Inventory

| Part | Source | State | Operations | Hard behaviour |
|---|---|---|---|---|
| Multi-Paxos protocol (ghost) | `multi_paxos_protocol.ivy` | relations `left_round`, `joined_round`, `proposal`, `vote`, `decision`, `active`, `available` | `join_round`, `receive_join_acks`, `propose`, `cast_vote`, `decide` | rounds interleave; a round may rule out only what no lower round can choose |
| Multi-Paxos servers | `multi_paxos_system.ivy` | round and leader, own votes, votes counted, log, three timers | `propose`, `query`, eight message handlers, the one-second timer | lost, late, repeated messages; competing leaders; crashes; stale keep-alives; holes |
| Vote maps | `votemap_segment.ivy`, `array_segment.ivy` | segments with an offset | `make`, `set`, `resize`, `zip_max`, `value` | empty and partly overlapping segments |
| Node sets | `nodes.ivy`, `relarray.ivy`, the thunks in `raft.cpp`, `multi_paxos_system.h` | arrays of nodes, remembered counts | `add`, `majority`, `card` | majorities of even clusters; what is remembered of an earlier round |
| Network shim | `network_shim_tcp.ivy` | relation `sent` | `bcast`, `unicast`, `recv` | any delivery order, loss, duplication |
| TCP runtime | `multi_paxos_system.cpp`, `raft.cpp` | queue and semaphore per socket, `isup`/`pend`, threads | `send`, `connect`, `accept`, `read`, `fail_close` | bounded queue, reconnection races, reused descriptors |
| Bytes of a message | `multi_paxos_system.cpp` (`ivy_binary_ser`, `tcp_deser`) | bytes read and not yet used | `set`, `get`, `more` | reads and failures anywhere in a message |
| Raft | `raft.ivy`, `natural_numbers.ivy` | term, history, leader flag, repliers, commit index | vote and append handlers, recovery, nack, time-outs | colliding terms, commits only of the own term, stale replies |
| Earlier Raft over UDP | `aaa/raft.cpp`, `aaa/raft2.cpp` | the same, as the generated C++ holds it | the same | datagrams lost, doubled, overtaking; recovery entry by entry |
| Process with a console | `aaa/raft2.cpp` | one lock, three threads, standard input | constructor, reader, timer, commands, destructor | threads started by a base class, exceptions under the lock, cancellation |
| Consensus adapters | `multipaxos-consensus.h`, `raft-consensus.h` | `m_applied_index`, `m_max_index` | `decide`, `replicate` | decisions out of order |
| Key-value store | `kvstore.cpp` | map, response cache | `execute_request`, parsing | retries, compare-and-swap |
| Event loop | `server.cpp` | client table, sockets | `run`, `committed`, `send_response` | two threads write one socket; two locks |
| Client | `bench/vard.py` | request id, leader guess | `send`, `recv`, failover | a retry after an unknown outcome |

How they interact.  A client sends a request to a server; the event loop passes
it to the adapter, which calls the extracted `propose` (or `replicate`) under
Ivy's lock.  The protocol broadcasts over the network shim, whose messages travel
through the TCP runtime; a reader thread calls the handlers of the receiving
server.  A decided instance comes back through the callback `decide`, the adapter
puts decisions in order, the store executes the command, and the answer goes to
whatever socket the client last used.  The servers call the ghost protocol's
actions at the points where they send or record something.

What makes each part correct: the replicated log never reports two values for an
instance; a promise stays true; only votes of the current round are counted; the
log's first hole is known exactly; a new leader appends only behind everything that
may be chosen; requests for missing instances reach a server that can answer.  In
Raft a term has one leader, logs match up to an entry they share, and what may be
committed is never lost.  Below: no thread sleeps through work, sockets have one
owner, what is delivered is what was sent.  Above: decisions are passed on as one
log, answers are true and reach the call they answer, the two locks do not block
each other.  `PROJECT.json` lists, under `hazards`, the places where one of these
could go wrong, with the properties that would notice.

## 2. Modules

| Module | Models | Kind |
|---|---|---|
| `Nodes` | `nodes.ivy`: nodes, majority; `leader_of`, `leader_fun` | operators |
| `ReplicatedLog` | specification block of `system.server`: `decide` | abstract specification |
| `CommittedLog` | `commited_at_ix` and the agreement clause of `raft.ivy` | abstract specification |
| `MultiPaxosProtocol`, `...Proofs` | `multi_paxos_protocol.ivy`, every action | state machine, proofs |
| `MultiPaxosSystem`, `...Proofs` | `multi_paxos_system.ivy`: servers, network shim, ghost calls | composes `Nodes`, `MultiPaxosProtocol`, `ReplicatedLog`; proofs |
| `PaxosAdapter`, `...Proofs` | `multipaxos-consensus.h` over `ReplicatedLog`; implements `CommittedLog` | state machine, proofs |
| `MultiPaxosService` | the servers with the adapter on each | composes `MultiPaxosSystem`, `PaxosAdapter`; proofs in `MultiPaxosSystemProofs` |
| `Raft`, `RaftProofs` | `raft.ivy`: servers, network shim, ghost state | composes `Nodes`, `CommittedLog`; proofs |
| `RaftUdpServer` | entry points of the servers in `examples/aaa`, both builds | operators |
| `RaftUdp`, `RaftUdpProofs` | these servers over a network that may do anything | composes `RaftUdpServer`, `CommittedLog`; proofs |
| `RaftUdpDelivery` | these servers over a network that delivers, with fairness | composes `RaftUdpServer` |
| `Console` | the process of `aaa/raft2.cpp`: threads, lock, terminal | state machine; proofs in `RaftUdpProofs` |
| `TcpRuntime`, `...Proofs` | `net.send`, `tcp_queue`, `tcp_writer`, `tcp_reader` and their callbacks | state machine, proofs |
| `Serializer`, `Wire`, `MultiPaxosWire` | bytes of numbers, strings, lists; a connection and its reader; the Multi-Paxos message | operators, state machine, composition |
| `VoteMaps` | loops of `make` and `zip_max` over arrays and offsets | state machine |
| `NodeSets` | sets of nodes as the C++ holds them, with the thunks that count them | state machine |
| `JoinedVotes`, `...Proofs` | a leader's round in the generated program | composes `VoteMaps`, `NodeSets`; proofs of all three |
| `KeyValueStore` | `kvstore.cpp`: parsing, execution, cache | operators |
| `KvServers`, `...Proofs` | `server.cpp`, `vard.py`: event loop, committer, connections, clients | composes `KeyValueStore` with a committed log; proofs |
| `MC...` | values and bounds for TLC | instances |

### The Multi-Paxos and Raft servers

A relation of the Ivy ghost code is the set of its tuples.  A
variable of a server is a function over `Node`.  An array is a total function
over `Inst` that holds its default beyond its end, because the code tests
`active` or `present` wherever it tests `end`; the end of `my_votes` is observable
(it decides how much of its votes a server reports) and is the operator
`votes_end`.  `inst_status`, reset by `change_round`, is read through `status_in`.
Each action of `MultiPaxosSystem` is one handler or entry point, run to its end:
Ivy's lock makes them atomic.  `timer` is the one-second timer with its three
objects in the order in which the code calls them.  The ghost variables change in
the same steps as the code's, as the ghost calls do; that each ghost call meets
its `require` clauses is not built in but is the property `GhostCallsAllowed`.

Raft is laid out in the same way: one action per handler, `timer`, and the client's
`req_append_new_entry`.  A log is a sequence of entries; `term_hist`, `valid`,
`elected` (the source's `started`, `term_leader`, `voting_quorum`) and `by` are its
ghost relations, and the relations of votes and acknowledgements are read off `sent`.
Its `last_ix`, with the flag for "none yet", is `commited`, the first index that is
not known to be committed.

Time.  `my_time - last_heard_from_leader` is the counter `heard`, which stops at
`timeout` because the code only compares it with that bound; likewise `started`.
The arrays `two_a_times` matter only by whether an entry is older than the current
second: `fresh` is the set of the entries that are not.  Entries added by resizing
carry time 0, which is the current second until the first tick (`ticked`).

Network.  `sent` only grows and a message in it can be received any number of
times, in any order, or never: this covers loss, delay, reordering and
duplication, which is what `recv` of the shim assumes of its transport.  A crash
is a server that takes no more steps.  The code has no persistence and no restart.

### The adapter and the service

`PaxosAdapter` takes the servers for what `ReplicatedLog` says: a server learns a
decision it has not learned before, which agrees with all others.  `pass_on` is the
body of `ext__system__server__decide` with its whole loop: under Ivy's lock it is one
step.  `m_applied_index` and `m_max_index` start at -1 in the code and are kept one
higher.  `MultiPaxosService` puts the adapter on the servers of `MultiPaxosSystem`:
the step in which a server reports a decision is a step of its adapter, which asks
the server's own log (`query`) for the rest.  `AdapterSpec` then says that the real
servers are what `PaxosAdapter` assumed.

### The earlier Raft over UDP

The entry points of `RaftUdpServer` are functions from a server's state to the new
state, what it sends and what it reports, as the generated C++ computes them (arrays
that are cut and grown, repliers as an array).  Both builds that the repository keeps
are modelled: the variable `build` chooses, and they differ in `destinations` (whom a
new and a missing entry is sent to), in `after_nack`, and in the constant `quiet`.
`recovernode` is never assigned in `req_append_new_entry` and `raft2.cpp` uses it: it
is any number, so the entry goes to any server or to none.  The field `prevt` of a
message without a previous entry is never read and is 0.  `RaftUdp` records elections,
logs and commits beside the servers (`record`), as `raft.ivy` does in its ghost relations.

### The process around it

`Console` has the lock and the three threads of the process; a call of the server is
a step that may send.  Lines are two pieces and an end each, so that a read can cut
them anywhere.  The constructor starts the threads before the derived class exists
and holds the lock meanwhile; the destructor takes the lock, cancels and joins.
Binding a bound socket fails and ends the process (`exited`).

### TCP

`TcpRuntime` is one server's side: `net_send` and the callback of a connect run under
the server's lock and are single steps.  The failure callback of `fail_close` runs on
the writer's thread without the lock and is cut into the steps close, find the peer
by its socket, mark it.  Descriptors are handed out least first, as the kernel does.
`set_closed`, `set_open`, `enqueue_swap`, `dequeue_swap` and the semaphore are those
of `tcp_queue`; `other`, `reported` and `made` its fields.  A send writes the whole
message or fails: what is written in part is never read as a message, which is the
subject of `Wire`.  There bytes are numbers below `Base` and a word has `Word` of
them; the reader asks for what the next field lacks and takes up to `Chunk` bytes.
`raft.cpp` holds the same text for the runtime as `multi_paxos_system.cpp`, so each
definition is mapped to one of them.  `dequeue_swap`'s branch for a queue that was
closed by somebody else (`shutting`) is in the model although nothing reaches it.

### Vote maps and node sets

`VoteMaps` runs `make` and `zip_max` step by step, over arrays and offsets whose
subtraction stops at 0; `MultiPaxosSystem` has their results as functions.
`NodeSets` holds a set as the array of its members in the order they were added, and
the cardinality as a chain of thunks, one per node, each remembering what it was
asked.  `JoinedVotes` is a leader's round: it starts it with its own votes, merges
those that come, adds their sender to the set and asks for the majority, while the
thunks remember an earlier round.  The hash table behind the memories is taken for
the map it stands for.

### The key-value service

`KvServers` has the event loop as steps between its blocking points (`select`,
`register` under `mut`, `replicate` under the consensus layer's lock, the two sends of
a `NotLeader`) and the committer, which holds the consensus lock (`locked`) and then
takes `mut`.  The consensus layer is `log`, `proposed` and `applied`: one log that
each server reads from its start, the promise of `CommittedLog`; an accepted line may
enter it at any time or never.  A descriptor has the client at its other end (`peer`)
and a stream each way.  A client whose call fails (`NotLeader`, timeout, end of the
connection) loses its session; one that fails over repeats the call with the next
request id on a new connection.  Looking for the leader is the free choice of the
server it connects to.  A server whose read of a body comes short exits.

## 3. What is checked

All bounds are constants of the cfg files.  Every property of a passing run has a
mutant: a plausible error in one definition (the definitions marked *Fault*), with
which TLC finds the property violated.

| Run | Question | Bounds |
|---|---|---|
| `protocol` | competing rounds, recovery of a segment: the invariant of the proofs, what is chosen binds later rounds, refinement of the replicated log | 3 nodes, rounds 1-2, 2 instances, no-op and a command |
| `servers` | two competing leaders with different commands: legal ghost calls, truthful promises, no stale vote counted, one log | 3 servers, rounds 1-2, 1 instance, 2 commands and the no-op |
| `service` | a leader crashes with votes cast for some of its proposals; holes, catching up, decisions out of order; the adapter makes one log of them | 3 servers, rounds 1-2, 2 instances, 1 command, first leader restricted as below |
| `raft` | stale leaders, rejected appends, recovery, replaced entries, commits that cover earlier ones | 3 servers, terms 0-2, 2 indices, 2 values, timeout 1 |
| `udp` | the same of both earlier builds | 3 servers, terms 0-2, logs of 2, 1 value per leader, quiet 1 |
| `udp_delivery` | does a server that missed an entry catch up, is every entry committed (liveness) | 3 servers, 1 leader, logs of 2, 1 new entry lost |
| `tcp` | wake-ups, ownership of sockets, delivery, end of connects (liveness) | 2 peers, 2 descriptors, queue of 1, 4 sends, 2 connections, 1 incoming |
| `tcp_misdelivers` | finding, section 4 | the same, no incoming |
| `wire` | messages cut by reads, connections that break in a message | 3 messages of 2 kinds, base 4, words of 2 bytes, chunks of 5 |
| `joined_votes` | merging of segments of any lengths, activation of the round by a majority | 3 acceptors, arrays up to 2, begins 0 and 1, 1 array remembered from before |
| `kv` | event loop against committer, reused descriptors, failover, two locks | 2 clients (one fails over), 1 server, 2 descriptors, 2 calls each (a put, or a compare-and-swap that expects no value), 2 log entries |
| `console` | construction, commands and destruction against reader and timer | 2 scripts, the last line without its end, 2 ticks, 2 datagrams |

Why the bounds suffice for the cases of interest.  Three nodes are the smallest
cluster where a majority may miss a vote; two rounds give a new leader something
to recover.  Two instances give a hole, decisions out of order, and a segment
that recovers one instance and appends at the other.  The servers run with
`timeout = 1` (`quiet = 1`, where the builds have 3 and 2): any server may then start
a round or a candidacy at any tick, the most permissive scheduling.  `service` has an
`ACTION_CONSTRAINT`: the leader of round 1 hears of nothing after its proposals, which
is what a crash looks like to the others; it cuts the other behaviours for this run
only, `servers` has them for one instance.  Node symmetry is used for the protocol and
not for the servers, whose names fix who leads.

Raft.  Node 0 picks terms 1, 2, 3, node 1 terms 2 and 3: up to term 2 there is a leader
that has to be replaced and one that replaces it, and two ways to stand in term 2; two
indices give a gap to reject, an entry to recover, and a commit that covers another.
That entries of earlier terms are not committed by counting cannot be seen with three
servers: the leader is no replier of them, so two other servers have to acknowledge
and then all hold the entry.  It takes five, which is out of reach.  A candidate that is
itself in term 1 would stand in term 3: voters whose log is longer, not only of a later
term, than the candidate's need that term and are not in the bounds.  In `udp` the values
of two leaders are told apart (`ByServer`), and those of one leader are not: entries of
one term at one index are one entry.

Vote maps: arrays of up to two votes with begins 0 and 1 give segments that are empty,
end before, with and behind what the leader holds.  A round has one value per instance,
so votes are told apart by their round.  Wire: with words of two bytes and chunks of
five every field is cut at every place and chunks take more than one field; base 4
keeps `getn`'s sign in play (round 5 takes both bytes).  TCP: two peers and as many
descriptors make every descriptor change hands; a queue of one is full at once; with one
connection more, nothing new happens to a descriptor.  Key-value: one server and two
descriptors are enough for a response to meet a reused descriptor, and for a client to fail
over and find an earlier request of its own answered there.  What one server does not show is
that another applies and answers what a server accepted before it ended: that is in the
theorems only (`AnswersTrue`, `AnswersMatch`, `NoFrameIsSplit`), which are for any number of
servers.

The properties.  `LogSpec`: one value per instance, for the ghost decisions and for what
the servers report; for Raft, what all servers report are prefixes of one log, each in
order.  `ChosenBindsLaterRounds`: stronger, it holds of values with a majority of votes
that nobody counted.  `LeaderAppendsInTheFree`: fresh commands are never proposed over
something chosen.  `GhostCallsAllowed`: each of the five ghost calls meets its
requirements, among them that the joined votes are a safe summary of a majority; with
it the servers take protocol steps only, and what is proved of the protocol holds of
their ghost state.  `PromisesAreTruthful`, `CountedVotesAreCurrent`,
`FirstUndecidedIsFirstHole`, `RequestsReachTheLeader`: the servers' own data, against
the history of votes and messages.  `AdapterSpec` and `PassedOnAsOneLog`: the composed
service keeps the promise that Raft makes.  `LogsMatch`, `ChoosableIsKept`: the heart of
the Ivy invariant of Raft, over every log a server ever had; an entry that may be
committed stays with those who acknowledged it and is in the log of every later leader.
`DeliveredUnlessRaced`: messages go to their addressee unless the race of section 4
happened.  `AnswersAreTrue`: stores and responses are what the log says, computed from
the log and not from the store.  `AnswersAreForTheCall` and `FramesAreWhole`: what comes
on a client's connection, and between the two sends of a `NotLeader`.  For a client without an
earlier session that is the answer to its call, and nothing; for one that fails over they say
what else may come, the answers to its own earlier requests (section 4).  The comments in the modules
state each of them.

### Fairness

Only what the code schedules.  `TcpRuntime`: writer threads run, and a connect comes
to an end.  `Wire`: the reader thread runs.  `KvServers`: the event loop
goes on with a request it has read, and the handler in the consensus layer with the entry it
reports.  That entries are committed (`commit`) or reach a server (`lock`) is no matter of
scheduling, and section 4 says how they may not: both are unfair, and so are clients and
accepts.  The handler takes the lock once per entry, and the log is bounded, so weak
fairness is enough for the event loop to get the lock in turn.
`RaftUdpDelivery`: each datagram under way is read.  The client
and the timer are unfair, so nothing promises that a datagram is sent again, and a new
entry may be lost.  Keep-alives are left out there, and
one term is all there is: nobody stands against the leader.  `Console`: threads run; a thread
waits for the lock with others that use it a bounded number of times, as the mutex itself
promises no order.  The Multi-Paxos servers have no liveness model: with channels their
state space is out of TLC's reach, and whether a leader's recovered proposals are sent
again (section 4) stays a remark.  Deadlock is not checked in runs that
exhaust a bound and stop.

## 4. Where the code and its comments differ

Shown by a run:

* `tcp_misdelivers`: `fail_close` closes the descriptor, and only then reports the failure,
  on the writer's thread and without the server's lock.  The server may meanwhile
  connect to another peer and be given the same descriptor.  The late report finds the peer
  by the number of its socket, hits the wrong one, and leaves the failed peer recorded with a
  descriptor that leads elsewhere: the next message for it is read by another server.
  The shim's specification asserts that a message received was sent to its receiver.

Seen while modelling, described here without a run:

* `keep_alive_handler` (`multi_paxos_system.ivy:536`) resets `last_heard_from_leader` for
  a keep-alive of *any* round, so a leader that lost its round but has not heard so keeps
  its followers from timing out on the leader they now have.  The comment says the object
  starts new rounds "when timing out on the leader".
* A follower "asks for all missing instances up to the largest instance it has seen"
  (`multi_paxos_system.ivy:583`), but the code looks only below the end of its own votes and of
  `two_a_times`.  One that learned instance 1 from a decide message, having voted for
  neither, never asks for instance 0.
* On activation the leader edits a copy of `inst_status` and does not enter what it
  recovers in `two_a_times` (`:212`): a recovered proposal whose `two_a` is lost is not
  sent again by the timer.
* `CAS` and `CAD` (`kvstore.cpp:178`) compare the addresses of two strings, so on a present
  key they never take effect, and `CAS` takes the client's second argument for the new value
  where `vard.py:134` sends the current one.  The models have the comparison as it is
  (`same_pointer`).
* A client that fails over keeps its id (`vard.py:143-179`), and a server answers on the
  descriptor the id used last.  An earlier request of the client, accepted but not yet
  committed when its call failed, is therefore answered on the new connection, and two things
  can follow, both behaviours of the model.  The answer comes between the two sends of a
  `NotLeader` (`server.cpp:209-210`), which hold no lock: the length read is that of
  `NotLeader`, what is read behind it the start of the answer, and the exception of the parser
  is none that `wrap_client_method` catches (`vard.py:94-102`, `179`).  Or the answer comes
  before that to the present call: `process_response` does not compare the request id, which
  the answer carries, and returns it for the present call (`vard.py:104-114`).  The model has
  more of these behaviours than the code, because it connects a client to any server, while
  `find_leader` first has a request of its own answered there (`vard.py:26-46`).  That rules
  out many old requests but not all: a request the server has not read yet from the old
  connection, or a vote that only a deposed Multi-Paxos leader cast and that a later one
  proposes again.  `AnswersAreForTheCall` and `FramesAreWhole` bound what can come.  No
  comment says otherwise, and so there is no run with a violation.
* In the earlier Raft a follower that has an entry already ignores a second copy and does not
  acknowledge it (`aaa/raft.cpp:2222`).  If datagrams overtake each other, recovery stops
  there until another new entry: `TODO.txt:25` asks "will one node always lag the others?".
  Over channels that keep their order `udp_delivery` shows that it does not.
* `cmd_reader::process` takes the lock before it checks arguments and no handler of the
  exceptions lets go of it (`aaa/raft2.cpp:3236-3244`): after one mistyped command every
  thread waits for ever.  In the run the mistyped command is the last one.
* The destructor joins threads that may be waiting for the lock it holds; waiting for a mutex
  is no cancellation point (`aaa/raft2.cpp:2499`), so it may never end.

None of them lets two servers report different values for an instance.

## 5. What is proved

Every theorem is about the specification TLC checks, with its constants left open.
Assumptions on constants are the named `ASSUME`s of the modules: a cluster has at least
one node, a timeout is positive, rounds, terms, instances and indices are initial segments
of the numbers (all of them, for the code), markers for "nothing" are no values.

`MultiPaxosProtocolProofs`, for any nodes, rounds (natural numbers with 0), instances
and values, from `QuorumAssumption` alone besides the types:

* `TypeCorrect`, `Invariance`: `Inv` is inductive.  `Agreement` is not inductive by
  itself.  The argument is the usual one for Paxos: a quorum of joiners has left all
  lower rounds, so what its members had not voted for by then can never gather a
  quorum below (`RuledOutIsNotChoosable`); the value a leader recovers is one that no
  lower round rules out.  `rules_out` covers proposals and the instances a leader may
  still fill: without the second half the step `propose` could not be shown to
  preserve the invariant.  `AvailableIsUnproposed` is needed for the same step and is
  not among the invariants of the Ivy file, where the requirement of `propose` says it.
* `AgreementHolds`, `ChosenIsSafe`: consequences of `Inv`, the second also that no round may
  append where an earlier one chose.
* `Refinement`: every step of the protocol is a `decide` of `ReplicatedLog` or leaves
  its state unchanged.

`MultiPaxosSystemProofs`, for clusters of any size and any rounds, instances and commands,
over a network that loses, repeats and reorders and only forges nothing.
`MajoritiesIntersect` (two majorities of a cluster share a node) gives the protocol its
`QuorumAssumption`, so that its lemmas hold of the servers' ghost state;
`RoundHasOneLeader` makes the leader of a round unique.  `SysInvariance` is the invariant
`SysInv`, one part per group of the conjectures in the Ivy file and what they need:

* `TypeOK`, and `P!Inv`, the protocol's invariant, of the ghost relations.
* `Rounds`, `Leaders`: a server has left exactly the rounds below its own and joined its
  own; it follows the leader of its round, and exactly the rounds that their leaders
  activated are active.
* `OwnVotes`: the votes a server keeps are the last it cast.
* `Messages`: what each kind of message says is true of the history and stays true.  A
  `one_b` tells the last votes of its sender below the promised round from its first
  instance on, whatever the sender votes later, and starts where the leader asked if the
  leader is still in that round.
* `Joiners`: the segment a leader merges tells the votes of all that joined.  With a
  majority counted, this is what the protocol's `receive_join_acks` requires.
* `StatusIsProposed`, `CountedVotesAreCurrent`, `FreeFromNext`: an instance is active for a
  proposal of the server's round, the votes counted for it are votes for that proposal, and
  an active leader's round is free from `next_inst` on.
* `LogsAreDecided`, `ReportsAreDecided`, `FirstUndecidedIsFirstHole` and `End`: only
  finitely many instances are touched, without which the first hole would not exist when
  `Inst` is all of `Nat`.

None of the properties is inductive by itself.  `PromisesAreTruthful` needs
`OwnVotes` and the rounds; `CountedVotesAreCurrent` needs that a `two_b` is true of the
votes and that the proposal of an instance in a round is unique; `LeaderAppendsInTheFree`
is `FreeFromNext` with the protocol's `ChosenBindsLaterRounds`.  From `SysInv` follow
`TypeCorrect`, `PromisesHold`, `VotesAreCurrent`, `HoleIsFirst`, `LeaderAppends`,
`RequestsReach`, the action property `GhostCalls` (each ghost call meets its requirements)
and the refinement `ImplementsLog`: the reports of all servers are decisions, so they agree.
The least element of a set of numbers is taken from `NatLessThanWellFounded`.

`PaxosAdapterProofs`, for any servers, over decisions that come in any order, from the
assumption that "no decision" is no value and the instances are an initial segment of the
numbers (`Assumptions`): `ImplementsCommittedLog`, `NothingIsLeftWaiting`,
`AppliedStaysDecided`, `RepeatsAreIgnored`.  The invariant: decisions are unique per
instance, logs hold decisions, what was passed on is the start of the log, and the loop
stopped at a hole or behind the largest instance seen.  The last part is what makes the
code right to look for more only when a decision comes, and why a decision reported twice
changes nothing.

`MultiPaxosSystemProofs` also puts both together.  `ServiceInvariance`: `SysInv` with
`ReportedIsLogged`, a server reports exactly what is in its log.  `ImplementsAdapter`: the
servers are what the adapter takes them for, each step of a handler being a decision new
to the server or a stutter; so the theorems about the adapter hold on the real
servers, and `ServiceIsOneLog` follows: the whole service keeps the promise of
`CommittedLog`.  (The run `service` restricts the first leader; the theorem does not.)

`RaftProofs`, for clusters of any size and any terms, indices and values:

* `TypeCorrect`: the types are inductive; the part that needs an argument is that
  messages and logs only hold entries at indices.
* `VotesInvariance`: `VotesAreKept` is inductive with the types.  `OneLeaderPerTerm` is
  not by itself: it needs that votes are unique per term (`VoteOncePerTerm`), which
  needs that a voter has left the lower terms (`VotersHaveLeft`), and that a candidate
  counts votes of its own term only (`VotersVoted`).
* `OneLeader`: the votes of two leaders of one term are majorities, so they share a
  voter (`MajoritiesIntersect`), who voted once.
* `LogsInvariance`: `LogInv` is the types and votes with `LogsAreKept`, which has
  `Elections` (a server leads exactly the terms it was elected in and is still in),
  `Histories` (every log ever had, up to any of its entries, is what the leader of that
  entry's term had), `Messages` (an append shows a part of its leader's log, an
  acknowledgement an index in it, and what a candidate said of its log holds until its term has
  a leader), `ChoosableIsKept` and `VotersAgree`.  `VotersAgree` is what makes
  `ChoosableIsKept` inductive: a voter that acknowledged an entry which may be committed
  votes only for candidates that have it.  When a leader is elected, its voters and those
  who may commit share one (`MajoritiesIntersect`), so the new leader's log has the entry.
* `LogsMatchHold`: two logs that share an entry agree with the log of the entry's leader
  up to there (`FollowsTerm`), hence with each other.  `ChoosableKept` is a part of `LogInv`.
* `CommitsInvariance`, `ImplementsLog`: what a server reported is the start of the log of
  the leader that committed last there; two such logs share their commits by
  `ChoosableIsKept` and match by `LogsMatch`, so one is a prefix of the other.

`TcpRuntimeProofs`, for any peers, descriptors and queue length: `SocketsAreOwned`,
`WritersWakeUp`, `Delivered`.  The inductive invariant of the first two has three parts:
types of what the argument needs; `Owns`, which says for each place of a writer thread
whether its queue is open and its descriptor still its own; and `Counts`, which relates the
semaphore to the queue: it counts at least the messages queued, one more for a writer that
waits to be opened, one less for a writer that took its turn.  Ownership alone is not
inductive because a queue is reopened while its old writer still has a failure to report.
`Delivered` adds, as long as no late report hit a new connection (`raced`, section 4),
that the peers using a descriptor are the one its queue was opened for (`UsersAt`), that
queue, writer and connection are for one peer (`LinesAt`), and that a connection holds
messages to its end only (`WiresAt`).  Without `~raced` it is false: this is the run
`tcp_misdelivers`.

The second half of that module is about the bytes of a connection, `MultiPaxosWire` taken
as `W`: `WireInvariance`, `DeliversAsSent` (`DeliveredAsSent`), `NothingIsHeldBack`
(`NothingWaits`), for any messages, `Base`, `Word` and `Chunk` that satisfy the assumptions
of `Serializer` and `MultiPaxosWire`; they are the hypothesis `WireAssumption`, and the run
`wire` evaluates them.  First the format:

* `NumberRead`: `getn` gives back what `setn` wrote.  `Powers` is the equation of `power`;
  the first k bytes are the number divided by the power of the others (`DivDiv`), so `getn`
  shifts in one quotient after the other, and the top bit is not set (`Number`).
* `fields(b, types, v, at)` says that the bytes b are fields of these types with these
  values, ending at these places.  `IntField`, `StringField` and `FieldsBoth` build it up,
  `VotesFields` along `FlattenSeq`, and `MessageParsed` says that `ser_msg` writes the
  fields `deser_msg` names, those of the votes behind their number, and that `msg_of` makes
  the message of them again.  Recursive functions over data (`power`, `getn`, the fold in
  `FlattenSeq`) are shown to satisfy their equations by a least place where they would not
  (`Iterates`, `LeastNumber`).

Then the invariant.  `Flow`: what is delivered is what was sent first, and `queued` gives
the offset of each other message in the bytes at the reader and on the wire; a closed
connection ends in the beginning of a message.  `Reads`: the reader is in front of a
message or at a field of the one that comes next (`midway`), and `got` has the values of the
fields before it.  `DeliveredAsSent` alone is not inductive, because it says nothing of
bytes that have been read but not delivered; nor is `Flow`, because `recv` throws away the
bytes of a message whose end it knows from the fields it has read.

`KvServersProofs`, for any servers, clients, keys, values, commands and bounds:

* `AnswersTrue`, from `AnswersInv`: a server's store is what the log says up to its last
  applied entry, its cache has of each client the response to the last entry that took
  effect there (so that the comparison of sequence numbers in `execute_request` drops exactly
  the entries that `effective` drops), and what is in a stream tells of some entry.  The lemmas
  about `holds` say what one more entry does to what the log says (`HoldsNext`) and that a
  longer log says the same of its start (`LogGrows`).  `NullAssumption`: the null pointer is
  no value and no response.
* `CallsInvariance`: `CallsInv` adds `Links` (an open session has
  an open descriptor of its own; descriptors in use are open; a server that ended has no
  streams) and `Fresh`: the one request of a client without an earlier session is in exactly
  one place (`Stage`), in the stream to the server, with the event loop, proposed, in
  the log ahead of the server, or answered.  That
  its response is the right one depends on there being no other request of it under way,
  and that nothing gets between the two sends of a `NotLeader` on the rejected request not
  being in the log.
* `StreamsInvariance`, `AnswersMatch`, `NoFrameIsSplit`: `StreamsInv` adds what holds of the
  clients that fail over too, whose requests may be under way in several places at once.
  `Ordered`: what a client wrote on a connection, and the line the event loop has in hand,
  is in the order of its calls (`InOrder`) and later than what it sent elsewhere and what was
  accepted of it (`Latest`); no line is of a call it has not made (`Below`), and no other
  client's line or entry in the client table is about its connection (`Ours`).  `Framed`: behind each
  length of a `NotLeader` its text has come or is the next step of the event loop
  (`Whole`, `sending`), and in between are only responses to earlier calls, because the
  rejected line is the client's latest and is in no log.  `NobodyAssumption`: "no client" is
  no client and no descriptor.

`RaftUdpProofs`, for clusters of any size, any values and quiet times, and either build:

* The earlier Raft differs from `raft.ivy` in whom an entry is sent to, in when a server
  moves to the term of a message, and in keeping arrays.  `RaftProofs` is therefore stated
  for any destinations (`AnyNext`, of which `Next` is a case), and `RaftUdpProofs` maps a
  server to the variables of `Raft`: `R == INSTANCE RaftProofs WITH ...`, where the repliers
  of an index are read from the array and the first index not committed from
  `last_commited_ix` and its flag.  A step of `RaftUdp` is a step of `R!AnyNext` or leaves
  all of `R!vars` as they are (`StepIsAny`, one lemma per entry point); the constants meet
  what `RaftProofs` assumes (`RaftData`).
* `Invariance`, `OneLeader`, `LogsMatchHold`, `ImplementsLog` follow from the lemmas of
  `RaftProofs`.  What needs an argument of its own is that a log cut at an index and extended
  there has no gap (`StoredLog`), that the array of repliers, grown on demand, is the function
  `my_repliers` (`Replied`), and that a candidate's vote for itself, which here comes back by
  the network, is counted like any other (`VotedStep`).
* `ProcessInvariance`, `CallsFind`, `NobodyDies`, `NeverBoundTwice` are about `Console`, for
  any input, datagrams and number of ticks.  The invariant says who has the lock at each
  place of a thread (`Locked`), that the object is whole unless the main thread, with the
  lock, constructs it (`Constructed`), that only a joining or ended destructor has cancelled
  (`Cancelled`), and that a thread about to bind the socket still sees it unbound
  (`BoundOnce`).  None of the two properties is inductive: that no thread is in a call while
  it dies needs the lock to be the destructor's.

`JoinedVotesProofs`, for any number of nodes, arrays of any length and any first instance:

* `HighestVotes`, `ZipInside`, `TypeCorrect`.  `HighestVotesAreJoined` looks at the few
  instances of `Inst`, as a run must; `HighestVotes` also proves `Held`, which says the same of
  every instance from the first one asked for on.  The invariant follows the two loops:
  `Copied` (make has copied the votes below its index), `Cut` (a finished segment yields its
  acceptor's votes), `Merged` (zip_max has merged the instances below its index and the others
  are as before) and `Held` (between two merges the leader holds the highest votes).
* `RoundInvariance`, `Activated`, `NodesOnce`.  `Sets` says how far the loop of `__init` is
  and that each thunk stands upon those of the lower nodes and remembers of every array what
  it counted (`Thunks`); `Counted`, that the joined are in the set once each.  The thunks and
  the destinations of a broadcast are recursive functions over data.  Their values are shown
  without an induction theorem: the function meant satisfies the equation, and one that
  differs would differ at a least place (`LeastNumber`, from `NatLessThanWellFounded`), where
  the equation contradicts it (`ValueIsCount`, `DestinationsAreNodes`).
  `SizeAssumption` and `AcceptorsAssumption`: there is a node, and they are numbered from 0.

Only model-checked is liveness, which the provers do not reach: `PendingEnds`,
`EndIsReported`, `RequestsGetThrough`, `NackedCatchUp`,
`EntriesAreCommitted`, `CommandsAreServed`.

## 6. Not modelled

* Deployment scripts (`src/ec2`), measurement (`bench.py`), the paper, generated parser tables,
  the copies in the `*_code_lines` directories, and `aaa/a.cpp`, a trial of the compiler.
* `raft-abstract.ivy` and `indexset.ivy`: used by Ivy's proof, not by the program.
* Liveness of the Multi-Paxos servers and of `Raft`: see Fairness.
* The hash table of the runtime library and the byte format of Raft's messages: the first is a
  map to its users, the second has the serialiser and the reader that `Wire` models.
* The C++ of the servers proper: Ivy extracts it from the `.ivy` files, which are what
  `MultiPaxosSystem` and `Raft` are mapped to.  The operators `_arg`, `<<` and the Z3
  conversions in the generated files are not used when the programs run.
* Failing calls of the operating system that end the process, SIGPIPE on a send to a client
  that has closed among them; command lines and logging.
* A header of a request that is read in part (`server.cpp:166` takes a read of one to three
  bytes for all four): the model reads headers whole.  A body that is short ends the server.
* Clients that pipeline calls (`get_no_wait`, `put_no_wait`), and two clients with one id.
  A repeated request with the same id, which the cache would answer, is never sent.  The
  request by which `find_leader` probes a server, and that `FailoverTolerantClient` looks
  again a bounded number of times only.
* Integers wider than 8 bytes and strings with a zero byte: the programs have neither.
  Negative numbers, and rounds and instances from 2^63 on, are not sent (`Number`).

## 7. Plan

Done: both protocols with their servers, the adapter and the service, the transport from
threads to bytes, vote maps and node sets, the earlier Raft, the key-value service; the
proofs of section 5.

Left, in this order:

1. A liveness model of recovery in Multi-Paxos, with the servers cut down to one round.
