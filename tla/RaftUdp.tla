------------------------------- MODULE RaftUdp -------------------------------
(***************************************************************************)
(* The servers of RaftUdpServer over UDP: a datagram that was sent may be  *)
(* delivered late, out of order, several times or never.  Servers keep     *)
(* nothing on disk; one that stops takes no more steps.                    *)
(***************************************************************************)
EXTENDS RaftUdpServer

CONSTANTS
    Builds,             \* the builds to explore
    of_clients,         \* the values that the clients of each server append
    MaxTerm, MaxLog     \* bounds of the exploration

ASSUME BoundsAssumption == MaxTerm \in Nat /\ MaxLog \in Nat \ {0}
ASSUME ClientsAssumption == of_clients \in [Node -> SUBSET Value]

VARIABLES
    server,     \* the state of each server
    sent,       \* <<m, d>>: m was sent to d
    reported,   \* what each server has reported to its user with commited_at_ix
    \* History: these only record what happens.
    elected,    \* <<t, n, q>>: n became the leader of t with the votes of q
    term_hist,  \* the log of the leader of a term, at its longest
    valid,      \* every log a server ever had
    by          \* <<n, ix, t, q>>: n committed up to ix in t, acknowledged by q

history == <<elected, term_hist, valid, by>>

vars == <<build, server, sent, reported, history>>

Init ==
    /\ build \in Builds
    /\ server = [n \in Node |-> initially]
    /\ sent = {}
    /\ reported = [n \in Node |-> <<>>]
    /\ elected = {}
    /\ term_hist = [t \in 0 .. MaxTerm |-> clear]
    /\ valid = {clear}
    /\ by = {}

\* What is remembered of a step that takes n from the state old.
record(n, old, result) ==
    LET s == result.server
        ix == s.last_commited_ix
    IN  /\ elected' = IF s.is_leader /\ ~old.is_leader
                      THEN elected \cup {<<s.term, n, s.voters>>} ELSE elected
        /\ term_hist' = IF s.is_leader
                        THEN [term_hist EXCEPT ![s.term] = s.hist] ELSE term_hist
        /\ valid' = valid \cup {s.hist}
        /\ by' = IF result.reports = <<>>
                 THEN by ELSE by \cup {<<n, ix, s.term, get_repliers(s, ix)>>}

\* The lock of the server makes each entry point one step.
step(n, result) ==
    /\ result.server.term <= MaxTerm
    /\ server' = [server EXCEPT ![n] = result.server]
    /\ sent' = sent \cup result.out
    /\ reported' = [reported EXCEPT ![n] = @ \o result.reports]
    /\ record(n, server[n], result)
    /\ UNCHANGED build

\* recovernode was never set; -1 is a number that is no node's.
client(n) == \E v \in of_clients[n], recovernode \in Node \cup {-1} :
    /\ Len(server[n].hist) < MaxLog
    /\ step(n, req_append_new_entry(n, server[n], v, recovernode))

second(n) == step(n, sec_timeout(n, server[n]))

read(p) == step(p[2], recv(p[2], server[p[2]], p[1]))

Next == (\E n \in Node : client(n) \/ second(n)) \/ \E p \in sent : read(p)

Spec == Init /\ [][Next]_vars
-----------------------------------------------------------------------------
\* Logs with an entry of one term at one place are the same up to there.
LogsMatch ==
    \A n, p \in Node : \A ix \in 0 .. MaxLog - 1 :
        /\ filled(server[n].hist, ix) /\ filled(server[p].hist, ix)
        /\ get_logt(server[n].hist, ix) = get_logt(server[p].hist, ix)
        => strip(server[n].hist, ix) = strip(server[p].hist, ix)

Log == INSTANCE CommittedLog

\* The servers report one log, each from its start, in order, once.
LogSpec == Log!Spec
=============================================================================
