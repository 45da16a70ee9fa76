-------------------------- MODULE MultiPaxosService --------------------------
(***************************************************************************)
(* The Multi-Paxos servers with the adapter on top that makes a log of     *)
(* their decisions (multipaxos-consensus.h).  A server calls the adapter   *)
(* when it learns a decision, under its lock: the step that learns is the  *)
(* step that passes on.                                                    *)
(***************************************************************************)
EXTENDS MultiPaxosSystem

CONSTANT no_value           \* what query answers for an open instance

ASSUME NoValueAssumption == no_value \notin Value

VARIABLES m_applied_index, m_max_index, committed

adapter_vars == <<m_applied_index, m_max_index, committed>>
service_vars == <<vars, adapter_vars>>

\* What query answers.
query(n, i) == IF my_log[n][i].present THEN my_log[n][i].decision ELSE no_value

A == INSTANCE PaxosAdapter WITH
        none <- no_value,
        my_log  <- [n \in Node |-> [i \in Inst |-> query(n, i)]],
        decided <- {<<d[2], d[3]>> : d \in decided}

ServiceInit == Init /\ A!Init

\* Fault: a server passes on only what it counted the votes for itself.
decide_own ==
    \/ \E d \in decided' \ decided :
        IF decision' # decision THEN A!pass_on(d[1], d[2], d[3]) ELSE UNCHANGED adapter_vars
    \/ decided' = decided /\ UNCHANGED adapter_vars

\* A server reports what it has learned, if it has.  One that counts the votes for
\* an instance it knows already reports it again, which changes nothing in the
\* adapter (RepeatsAreIgnored).
decide ==
    \/ \E d \in decided' \ decided : A!pass_on(d[1], d[2], d[3])
    \/ decided' = decided /\ UNCHANGED adapter_vars

ServiceNext == Next /\ decide

ServiceSpec == ServiceInit /\ [][ServiceNext]_service_vars
-----------------------------------------------------------------------------
\* The servers are what the adapter takes them for: it is called once for each
\* instance at each server, with the one value of that instance, after the
\* server has entered it in its log.
AdapterSpec == A!Spec

\* All servers pass the same values on in the same order, each instance once: the
\* promise Raft makes.
PassedOnAsOneLog == A!PassedOnAsOneLog
=============================================================================
