---------------------------- MODULE ReplicatedLog ----------------------------
(***************************************************************************)
(* The service Multi-Paxos promises, from the specification block of the   *)
(* server object of multi_paxos_system.ivy: instances are decided one by   *)
(* one, in any order, and a decided instance never gets a second value.    *)
(***************************************************************************)
CONSTANTS Inst, Value

VARIABLE decided        \* <<i, v>>: some server reported v for instance i

Init == decided = {}

\* The ensure clause of decide: every earlier report for i named v.
decide(i, v) ==
    /\ \A V \in Value : <<i, V>> \in decided => V = v
    /\ decided' = decided \cup {<<i, v>>}

Next == \E i \in Inst, v \in Value : decide(i, v)

Spec == Init /\ [][Next]_decided
=============================================================================
