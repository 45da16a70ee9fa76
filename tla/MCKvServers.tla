----------------------------- MODULE MCKvServers -----------------------------
(* Small instance of KvServers for TLC. *)
EXTENDS KvServers

CONSTANTS a, b, s, k, v, v2

\* A compare-and-swap that expects no value: it inserts where there is none.
put(x) == [tag |-> "PUT", key |-> k, arg2 |-> x, arg3 |-> Dash]
cas(x) == [tag |-> "CAS", key |-> k, arg2 |-> x, arg3 |-> Dash]

PutCas == {put(v), cas(v2)}
TwoFds == 1..2
=============================================================================
