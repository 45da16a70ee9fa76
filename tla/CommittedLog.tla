---------------------------- MODULE CommittedLog ----------------------------
(***************************************************************************)
(* What Raft promises its user, from the callback commited_at_ix and the   *)
(* agreement clause of object safety in raft.ivy: there is one log, it     *)
(* only grows, and each server reports it from the start, entry by entry.  *)
(***************************************************************************)
EXTENDS Naturals, Sequences

CONSTANTS Node, Value

VARIABLE reported       \* per server: the values reported to its user, in order

\* s begins with p.
begins_with(s, p) == Len(p) <= Len(s) /\ \A k \in 1 .. Len(p) : s[k] = p[k]

Init == reported = [n \in Node |-> <<>>]

\* Server n reports further entries: nobody reported others at their places.
report_commits(n) ==
    LET s == reported'[n]
    IN  /\ s \in Seq(Value)
        /\ begins_with(s, reported[n])
        /\ \A p \in Node : begins_with(s, reported[p]) \/ begins_with(reported[p], s)
        /\ reported' = [reported EXCEPT ![n] = s]

Next == \E n \in Node : report_commits(n)

Spec == Init /\ [][Next]_reported
=============================================================================
