------------------------------- MODULE NodeSets -------------------------------
(***************************************************************************)
(* Sets of nodes as the generated programs hold them: arrays in the order  *)
(* in which the nodes were added.  The iteration over the nodes builds the *)
(* set of all of them and, one upon the other, a thunk per node that       *)
(* counts it; each thunk remembers what it has computed, for each array it *)
(* was asked about.                                                        *)
(* The specifications of the servers use the cardinality instead.          *)
(***************************************************************************)
EXTENDS Naturals, FiniteSets, Sequences, SequencesExt

CONSTANT Size       \* node__size, at least 1

Node == 0 .. Size - 1

VARIABLES
    i,          \* the iterator of __init
    all,        \* nset__all
    card,       \* nset__card: thunk upon thunk, from below
    voters,     \* the votes counted at present
    asked,      \* the set nset__majority was last asked about
    answer      \* and what it said

vars == <<i, all, card, voters, asked, answer>>
-----------------------------------------------------------------------------
create(x) == [is_end |-> FALSE, val |-> x]
end == [is_end |-> TRUE, val |-> 0]

\* Fault: the last node but one is taken for the last.
is_max_early(x) == x + 2 = Size

is_max(x) == x + 1 = Size

next(it) == IF is_max(it.val) THEN end ELSE create(it.val + 1)

\* Whom a broadcast is sent to, in order.
destinations[n \in 0 .. Size] ==
    IF n = 0 THEN [sent |-> <<>>, iter |-> create(0)]
    ELSE LET before == destinations[n - 1]
         IN  IF before.iter.is_end THEN before
             ELSE [sent |-> Append(before.sent, before.iter.val), iter |-> next(before.iter)]
-----------------------------------------------------------------------------
emptyset == <<>>
member(n, s) == \E k \in 1 .. Len(s) : s[k] = n

add(s, n) == IF member(n, s) THEN s ELSE Append(s, n)

\* The thunk counts one node upon what the thunk below counts.
thunk(n) == [counts |-> n, memo |-> <<>>]
bottom == thunk(Size)

\* What each thunk answers, from what it remembers or from the one below.
value(s) ==
    LET v[l \in 1 .. Len(card)] ==
            IF s \in DOMAIN card[l].memo THEN card[l].memo[s]
            ELSE IF l = 1 THEN 0
            ELSE IF member(card[l].counts, s) THEN v[l - 1] + 1 ELSE v[l - 1]
    IN  v

\* Fault: what is entered before it is computed is what is remembered.
remember_default(c, s) ==
    [l \in 1 .. Len(c) |->
        IF \E k \in l .. Len(c) : s \in DOMAIN c[k].memo THEN c[l]
        ELSE [c[l] EXCEPT !.memo = [a \in DOMAIN @ \cup {s} |-> IF a = s THEN 0 ELSE @[a]]]]

\* A thunk is asked, and remembers, if no thunk above it knew the answer.
remember(c, s) ==
    [l \in 1 .. Len(c) |->
        IF \E k \in l .. Len(c) : s \in DOMAIN c[k].memo THEN c[l]
        ELSE [c[l] EXCEPT !.memo =
            [a \in DOMAIN @ \cup {s} |-> IF a = s THEN value(s)[l] ELSE @[a]]]]

known == DOMAIN card[Len(card)].memo
nset_card(s) == value(s)[Len(card)]

majority(s) == nset_card(all) < nset_card(s) + nset_card(s)
-----------------------------------------------------------------------------
Init ==
    /\ i = create(0) /\ all = emptyset /\ card = <<bottom>>
    /\ voters = emptyset /\ asked = emptyset /\ answer = FALSE

\* The loop of __init.
build ==
    /\ ~i.is_end
    /\ all' = Append(all, i.val)
    /\ card' = Append(card, thunk(i.val))
    /\ i' = next(i)
    /\ UNCHANGED <<voters, asked, answer>>

ready == i.is_end

\* A vote is counted and the majority tested.
vote(n) ==
    /\ ready
    /\ voters' = add(voters, n)
    /\ asked' = voters' /\ answer' = majority(voters')
    /\ card' = remember(remember(card, all), voters')
    /\ UNCHANGED <<i, all>>

\* The votes of a ballot are forgotten.
clear ==
    /\ ready /\ voters # emptyset /\ voters' = emptyset
    /\ UNCHANGED <<i, all, card, asked, answer>>

\* A new ballot with a first vote; the majority is not tested.
start(n) ==
    /\ ready /\ voters' = add(emptyset, n)
    /\ UNCHANGED <<i, all, card, asked, answer>>

Next == build \/ clear \/ \E n \in Node : start(n) \/ vote(n)

Spec == Init /\ [][Next]_vars
-----------------------------------------------------------------------------
\* The set of all nodes, and a broadcast, have each node once.
EachNodeOnce ==
    ready => /\ Len(all) = Size /\ ToSet(all) = Node
             /\ Len(destinations[Size].sent) = Size /\ ToSet(destinations[Size].sent) = Node
=============================================================================
