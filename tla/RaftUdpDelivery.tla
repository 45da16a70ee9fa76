--------------------------- MODULE RaftUdpDelivery ---------------------------
(***************************************************************************)
(* The servers of RaftUdpServer over a network that delivers: a datagram   *)
(* stays under way until it is read, once, and datagrams keep their order  *)
(* between two servers; a bounded number of the entries that a leader      *)
(* sends to everyone is lost.  This is what the recovery of servers that   *)
(* miss entries is for.                                                    *)
(***************************************************************************)
EXTENDS RaftUdpServer, SequencesExt

CONSTANTS
    MaxTerm, MaxLog,    \* bounds of the exploration
    MaxLost             \* how many datagrams get lost

VARIABLES
    server,     \* the state of each server
    channel,    \* the datagrams under way from one server to another
    lost        \* how many were lost

vars == <<build, server, channel, lost>>

Init ==
    /\ build = "raft"
    /\ server = [n \in Node |-> initially]
    /\ channel = [link \in Node \X Node |-> <<>>]
    /\ lost = 0

\* The lock of the server makes each entry point one step.
step(n, result, sending) ==
    /\ result.server.term <= MaxTerm
    /\ server' = [server EXCEPT ![n] = result.server]
    /\ channel' = [link \in Node \X Node |->
           IF link[1] = n
           THEN sending[link] \o SetToSeq({p[1] : p \in {q \in result.out : q[2] = link[2]}})
           ELSE sending[link]]
    /\ UNCHANGED build

client(n, v) ==
    /\ server[n].is_leader /\ Len(server[n].hist) < MaxLog
    /\ step(n, req_append_new_entry(n, server[n], v, n), channel)
    /\ UNCHANGED lost

\* A leader's keep-alives are left out: nobody stands against it.
second(n) ==
    /\ ~server[n].is_leader
    /\ step(n, sec_timeout(n, server[n]), channel)
    /\ UNCHANGED lost

\* The first datagram of a link comes out of the network.
taken(link) == [channel EXCEPT ![link] = Tail(@)]

read(link) ==
    /\ channel[link] # <<>>
    /\ step(link[2], recv(link[2], server[link[2]], Head(channel[link])), taken(link))
    /\ UNCHANGED lost

lose(link) ==
    /\ channel[link] # <<>> /\ lost < MaxLost
    /\ Head(channel[link]).kind = "appentry" /\ ~Head(channel[link]).isrecover
    /\ channel' = taken(link) /\ lost' = lost + 1
    /\ UNCHANGED <<build, server>>

Next ==
    \/ \E n \in Node : second(n) \/ \E v \in Value : client(n, v)
    \/ \E link \in Node \X Node : read(link) \/ lose(link)

\* A server that has received a datagram reads it: its reader thread runs.  The
\* terms and logs are bounded, so in the end each datagram is read.
Spec ==
    /\ Init /\ [][Next]_vars
    /\ \A link \in Node \X Node : WF_vars(read(link))
-----------------------------------------------------------------------------
\* A server that misses an entry has told the leader so.
has_nacked(p, n) ==
    /\ server[n].is_leader
    /\ \E k \in 1 .. Len(channel[<<p, n>>]) : channel[<<p, n>>][k].kind = "nack"

\* The leader resends entry by entry what a server that misses one misses, while
\* new entries come in between: at the end the server has the log of the leader.
NackedCatchUp ==
    \A n, p \in Node : has_nacked(p, n) ~>
        \/ ~server[n].is_leader
        \/ server[p].hist = server[n].hist

\* A new entry is committed.
EntriesAreCommitted ==
    \A n \in Node, ix \in 0 .. MaxLog - 1 :
        server[n].is_leader /\ filled(server[n].hist, ix) ~>
            ~server[n].is_leader \/ commited_in(server[n], ix)
=============================================================================
