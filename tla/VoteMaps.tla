------------------------------- MODULE VoteMaps -------------------------------
(***************************************************************************)
(* How a leader puts the votes of a majority together: each acceptor cuts  *)
(* the end of its array of votes into a segment (make), and the leader     *)
(* merges the segments as they come (zip_max), instance by instance.       *)
(*                                                                         *)
(* The loops of both operations run step by step here, over arrays and     *)
(* offsets; MultiPaxosSystem has their results.  Arrays start at 0 in the  *)
(* code: element x is the member x + 1 of the sequence.                    *)
(***************************************************************************)
EXTENDS Naturals, Sequences

CONSTANTS
    Acceptor, Value,
    no_value,       \* the empty string of a vote that was not cast
    Arrays, Begins  \* bounds of the exploration: arrays of votes, first instances

Vote == [maxr : Nat, maxv : Value \cup {no_value}]
not_a_vote == [maxr |-> 0, maxv |-> no_value]

ASSUME BoundsAssumption == Arrays \subseteq Seq(Vote) /\ Begins \subseteq Nat

VARIABLES
    my_votes,       \* the array of each acceptor
    begin,          \* the first instance the leader asks for
    pc, who,        \* what runs, and for whose votes
    seg, idx,       \* make: the segment and the next index
    joined, res, i  \* zip_max: whose votes res holds, and the next instance

vars == <<my_votes, begin, pc, who, seg, idx, joined, res, i>>
-----------------------------------------------------------------------------
(***************************************************************************)
(* Arrays and segments.                                                    *)
(***************************************************************************)
\* Beyond the end a read yields no vote.
votemap_value(a, x) == IF x < Len(a) THEN a[x + 1] ELSE not_a_vote

votemap_set(a, x, y) == IF x < Len(a) THEN [a EXCEPT ![x + 1] = y] ELSE a

votemap_resize(a, s, v) == [k \in 1..s |-> IF k <= Len(a) THEN a[k] ELSE v]

\* Subtraction of unsigned numbers stops at 0.
offset_in(s, x) == IF x < s.offset THEN 0 ELSE x - s.offset

first(s) == s.offset
upper(s) == Len(s.elems) + s.offset
value(s, x) == votemap_value(s.elems, offset_in(s, x))
set(s, x, y) == [s EXCEPT !.elems = votemap_set(@, offset_in(s, x), y)]
resize(s, x, y) == [s EXCEPT !.elems = votemap_resize(@, offset_in(s, x), y)]

maxvote(s, x) == IF first(s) <= x /\ x < upper(s) THEN value(s, x) ELSE not_a_vote
-----------------------------------------------------------------------------
Init ==
    /\ my_votes \in [Acceptor -> Arrays] /\ begin \in Begins
    /\ pc = "idle" /\ who \in Acceptor
    /\ seg = [offset |-> 0, elems |-> <<>>] /\ idx = 0
    /\ joined = {} /\ res = [offset |-> 0, elems |-> <<>>] /\ i = 0

\* The end an acceptor passes to make.
end(a) == IF begin <= Len(my_votes[a]) THEN Len(my_votes[a]) ELSE begin

\* make: an empty segment, and a loop if there is anything from begin on.
make(a) ==
    /\ pc = "idle" /\ a \notin joined
    /\ who' = a /\ idx' = begin
    /\ seg' = [offset |-> begin, elems |-> <<>>]
    /\ pc' = IF begin < Len(my_votes[a]) /\ end(a) <= Len(my_votes[a]) THEN "make" ELSE "made"
    /\ UNCHANGED <<my_votes, begin, joined, res, i>>

append ==
    /\ pc = "make"
    /\ IF idx < end(who)
       THEN /\ seg' = [seg EXCEPT !.elems = Append(@, votemap_value(my_votes[who], idx))]
            /\ idx' = idx + 1
            /\ UNCHANGED pc
       ELSE pc' = "made" /\ UNCHANGED <<seg, idx>>
    /\ UNCHANGED <<my_votes, begin, who, joined, res, i>>

\* The leader's own votes are the first it holds.
start_round ==
    /\ pc = "made" /\ joined = {}
    /\ res' = seg /\ joined' = {who} /\ pc' = "idle"
    /\ UNCHANGED <<my_votes, begin, who, seg, idx, i>>

\* Fault: what the leader holds is not made longer.
zip_max_short ==
    /\ pc = "made" /\ joined # {}
    /\ i' = first(res) /\ pc' = "zip"
    /\ UNCHANGED <<my_votes, begin, who, seg, idx, joined, res>>

\* zip_max: first make the result as long as the longer one.
zip_max ==
    /\ pc = "made" /\ joined # {}
    /\ res' = IF upper(res) < upper(seg) THEN resize(res, upper(seg), not_a_vote) ELSE res
    /\ i' = first(res)
    /\ pc' = "zip"
    /\ UNCHANGED <<my_votes, begin, who, seg, idx, joined>>

\* Fault: the vote that came last counts.
take_latest ==
    /\ pc = "zip"
    /\ IF i # upper(seg)
       THEN /\ res' = set(res, i, maxvote(seg, i))
            /\ i' = i + 1
            /\ UNCHANGED <<pc, joined>>
       ELSE pc' = "idle" /\ joined' = joined \cup {who} /\ UNCHANGED <<res, i>>
    /\ UNCHANGED <<my_votes, begin, who, seg, idx>>

\* Its loop stops when i is equal to the end of the segment, not beyond it.
take_higher ==
    /\ pc = "zip"
    /\ IF i # upper(seg)
       THEN /\ res' = IF maxvote(res, i).maxr < maxvote(seg, i).maxr
                      THEN set(res, i, maxvote(seg, i)) ELSE res
            /\ i' = i + 1
            /\ UNCHANGED <<pc, joined>>
       ELSE pc' = "idle" /\ joined' = joined \cup {who} /\ UNCHANGED <<res, i>>
    /\ UNCHANGED <<my_votes, begin, who, seg, idx>>

Next ==
    \/ \E a \in Acceptor : make(a)
    \/ append \/ start_round \/ zip_max \/ take_higher

Spec == Init /\ [][Next]_vars
-----------------------------------------------------------------------------
Segment == [offset : Nat, elems : Seq(Vote)]

\* The state has its types.
TypeOK ==
    /\ my_votes \in [Acceptor -> Seq(Vote)] /\ begin \in Nat
    /\ pc \in {"idle", "make", "made", "zip"} /\ who \in Acceptor
    /\ seg \in Segment /\ idx \in Nat
    /\ joined \in SUBSET Acceptor /\ res \in Segment /\ i \in Nat

\* What acceptor a voted in instance x.
vote(a, x) == votemap_value(my_votes[a], x)

\* v is the highest of the votes of As in instance x.
is_highest(v, As, x) ==
    /\ \E a \in As : v = vote(a, x)
    /\ \A a \in As : vote(a, x).maxr <= v.maxr

Inst == begin .. begin + 10     \* more than any array of a run has

\* Whatever the lengths of the arrays, where the segments begin and the order
\* they come in: the leader holds the highest vote of those who joined for each
\* instance from begin on, and there is none beyond what it holds.
HighestVotesAreJoined ==
    pc # "zip" /\ joined # {} =>
        \A x \in Inst : is_highest(maxvote(res, x), joined, x)

\* The loop of zip_max is always on an element of both arrays: no write is lost
\* beyond an end, and it meets its end.
ZipStaysInside ==
    pc = "zip" =>
        /\ first(res) = begin /\ first(seg) = begin
        /\ i \in begin .. upper(seg)
        /\ upper(seg) <= upper(res)
=============================================================================
