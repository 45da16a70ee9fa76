---------------------------- MODULE PaxosAdapter ----------------------------
(***************************************************************************)
(* multipaxos-consensus.h: from decisions, which come in any order, to a   *)
(* log that every server reads from its start.  The Multi-Paxos servers    *)
(* below are what ReplicatedLog says of them; MultiPaxosService puts the   *)
(* adapter on the servers themselves.  decide runs under the lock of the   *)
(* server, its whole loop in one step.                                     *)
(*                                                                         *)
(* Insts count from 0, as in the code; m_applied_index and m_max_index *)
(* are kept one higher, so that they are the number of instances applied,  *)
(* and the number up to the last one seen, and start at 0 instead of -1.   *)
(***************************************************************************)
EXTENDS Naturals, Sequences

CONSTANTS Node, Value,
    Inst,           \* the instances, an initial segment of the numbers
    none            \* no decision

VARIABLES
    decided,            \* <<i, v>>: some server reported v for instance i
    my_log,             \* per server, what query answers
    m_applied_index, m_max_index,
    committed           \* per server, the values the loop has come past, in order

vars == <<decided, my_log, m_applied_index, m_max_index, committed>>

Service == INSTANCE ReplicatedLog

Init ==
    /\ Service!Init
    /\ my_log = [n \in Node |-> [i \in Inst |-> none]]
    /\ m_applied_index = [n \in Node |-> 0]
    /\ m_max_index = [n \in Node |-> 0]
    /\ committed = [n \in Node |-> <<>>]

new_max(n, i) == m_max_index' = [m_max_index EXCEPT ![n] = IF i < @ THEN @ ELSE i + 1]

\* The loop stops behind the largest instance seen or before a hole.
applies_to(n, last) ==
    /\ \A j \in m_applied_index[n] .. last - 1 : my_log'[n][j] # none
    /\ last < m_max_index'[n] => my_log'[n][last] = none

\* Fault: the decision reported is passed on at every instance.
apply_reported(n, i, v, last) ==
    committed' = [committed EXCEPT ![n] =
        [k \in 1..last |-> IF k <= m_applied_index[n] THEN committed[n][k] ELSE v]]

\* The decision reported is taken as it is, the others from query.
apply(n, i, v, last) ==
    committed' = [committed EXCEPT ![n] =
        [k \in 1..last |-> IF k <= m_applied_index[n] THEN committed[n][k]
                           ELSE IF k = i + 1 THEN v ELSE my_log'[n][k - 1]]]

\* What the adapter does when n reports v for i, the log of n holding it.
pass_on(n, i, v) ==
    /\ new_max(n, i)
    /\ \E last \in m_applied_index[n] .. m_max_index'[n] :
        /\ applies_to(n, last)
        /\ m_applied_index' = [m_applied_index EXCEPT ![n] = last]
        /\ apply(n, i, v, last)

\* Server n learns that v is decided for i, and reports it.
decide(n, i, v) ==
    /\ Service!decide(i, v)
    /\ my_log[n][i] = none
    /\ my_log' = [my_log EXCEPT ![n][i] = v]
    /\ pass_on(n, i, v)

Next == \E n \in Node, i \in Inst, v \in Value : decide(n, i, v)

Spec == Init /\ [][Next]_vars
-----------------------------------------------------------------------------
\* The state has its types.
TypeOK ==
    /\ decided \in SUBSET (Inst \X Value)
    /\ my_log \in [Node -> [Inst -> Value \cup {none}]]
    /\ m_applied_index \in [Node -> Nat]
    /\ m_max_index \in [Node -> Nat]
    /\ committed \in [Node -> Seq(Value)]

\* Nothing waits: a server has applied all its decisions up to its first hole,
\* although it looks for more only when a decision is reported.
NothingWaits ==
    \A n \in Node, i \in Inst :
        (\A j \in 0..i : my_log[n][j] # none) => i < m_applied_index[n]

\* What a server has applied cannot be added to: none of those instances is
\* still to be decided, so what is proposed after an answer comes after it in
\* the log.
AppliedIsDecided ==
    \A n \in Node : \A i \in 0 .. m_applied_index[n] - 1 :
        /\ \E v \in Value : <<i, v>> \in decided
        /\ my_log[n][i] # none

\* Servers pass the same values on in the same order, each instance once: the
\* Multi-Paxos service keeps, through this adapter, the promise Raft makes.
Log == INSTANCE CommittedLog WITH reported <- committed
PassedOnAsOneLog == Log!Spec
=============================================================================
