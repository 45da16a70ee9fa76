-------------------------- MODULE JoinedVotesProofs --------------------------
(***************************************************************************)
(* A round at its leader, for any acceptors, arrays of any length and any  *)
(* first instance: the merged votes of VoteMaps, and the majority of those *)
(* who joined as JoinedVotes counts it.                                    *)
(***************************************************************************)
EXTENDS JoinedVotes, FiniteSetTheorems, WellFoundedInduction, TLAPS

-----------------------------------------------------------------------------
(***************************************************************************)
(* The merged votes.                                                       *)
(***************************************************************************)

\* The loop of make has copied the votes below idx.
Copied ==
    pc = "make" =>
        /\ seg.offset = begin
        /\ begin <= idx /\ idx <= Len(my_votes[who])
        /\ begin + Len(seg.elems) = idx
        /\ \A k \in 1 .. Len(seg.elems) : seg.elems[k] = my_votes[who][begin + k]

\* A finished segment yields the votes of its acceptor.
Cut ==
    pc \in {"made", "zip"} =>
        /\ seg.offset = begin
        /\ \A x \in Nat : begin <= x => maxvote(seg, x) = vote(who, x)

\* Between two merges the leader holds the highest votes.
Held ==
    joined # {} =>
        /\ res.offset = begin
        /\ pc # "zip" => \A x \in Nat : begin <= x => is_highest(maxvote(res, x), joined, x)

\* The loop of zip_max has merged the instances below i.
Merged ==
    pc = "zip" =>
        /\ joined # {}
        /\ begin <= i /\ i <= upper(seg) /\ upper(seg) <= upper(res)
        /\ \A x \in Nat : begin <= x =>
            is_highest(maxvote(res, x), IF x < i THEN joined \cup {who} ELSE joined, x)

IInv == TypeOK /\ Copied /\ Cut /\ Held /\ Merged
-----------------------------------------------------------------------------
(***************************************************************************)
(* What the operations on segments do to the votes read from them.         *)
(***************************************************************************)
LEMMA Reads ==
    ASSUME NEW s \in Segment, NEW x \in Nat
    PROVE  /\ maxvote(s, x) = IF s.offset <= x /\ x < s.offset + Len(s.elems)
                              THEN s.elems[x - s.offset + 1] ELSE not_a_vote
           /\ maxvote(s, x) \in Vote
           /\ upper(s) = s.offset + Len(s.elems) /\ upper(s) \in Nat /\ s.offset <= upper(s)
  <1>1. s.offset \in Nat /\ s.elems \in Seq(Vote) /\ Len(s.elems) \in Nat
    BY DEF Segment
  <1>2. not_a_vote \in Vote
    BY DEF not_a_vote, Vote
  <1>3. maxvote(s, x) = IF s.offset <= x /\ x < s.offset + Len(s.elems)
                        THEN s.elems[x - s.offset + 1] ELSE not_a_vote
    BY <1>1 DEF maxvote, first, upper, value, votemap_value, offset_in
  <1>4. ASSUME s.offset <= x, x < s.offset + Len(s.elems)
        PROVE  s.elems[x - s.offset + 1] \in Vote
    <2>1. x - s.offset + 1 \in 1 .. Len(s.elems)
      BY <1>1, <1>4
    <2>. QED  BY <1>1, <2>1
  <1>. QED  BY <1>1, <1>2, <1>3, <1>4 DEF upper

LEMMA VotesRead ==
    ASSUME TypeOK, NEW a \in Acceptor, NEW x \in Nat
    PROVE  vote(a, x) \in Vote
  <1>1. my_votes[a] \in Seq(Vote) /\ not_a_vote \in Vote
    BY DEF TypeOK, not_a_vote, Vote
  <1>2. x < Len(my_votes[a]) => x + 1 \in 1 .. Len(my_votes[a])
    BY <1>1
  <1>. QED  BY <1>1, <1>2 DEF vote, votemap_value

\* Making a segment longer changes no vote.
LEMMA Resized ==
    ASSUME NEW s \in Segment, NEW n \in Nat, upper(s) <= n
    PROVE  LET r == resize(s, n, not_a_vote)
           IN  /\ r \in Segment /\ r.offset = s.offset /\ upper(r) = n
               /\ \A x \in Nat : maxvote(r, x) = maxvote(s, x)
  <1>. DEFINE r == resize(s, n, not_a_vote)
             len == n - s.offset
  <1>1. s.offset \in Nat /\ s.elems \in Seq(Vote) /\ Len(s.elems) \in Nat /\ not_a_vote \in Vote
    BY DEF Segment, not_a_vote, Vote
  <1>2. len \in Nat /\ offset_in(s, n) = len /\ Len(s.elems) <= len
    BY <1>1 DEF upper, offset_in
  <1>3. r = [offset |-> s.offset,
             elems |-> [k \in 1 .. len |-> IF k <= Len(s.elems) THEN s.elems[k] ELSE not_a_vote]]
    <2>. DEFINE e == votemap_resize(s.elems, offset_in(s, n), not_a_vote)
    <2>1. e = [k \in 1 .. len |-> IF k <= Len(s.elems) THEN s.elems[k] ELSE not_a_vote]
      BY <1>2 DEF votemap_resize
    <2>2. r = [s EXCEPT !.elems = e]
      BY DEF resize
    <2>. HIDE DEF e
    <2>3. r = [offset |-> s.offset, elems |-> e]
      BY <2>2 DEF Segment
    <2>. QED  BY <2>1, <2>3
  <1>4. r.elems \in Seq(Vote) /\ Len(r.elems) = len
    <2>1. \A k \in 1 .. len : (IF k <= Len(s.elems) THEN s.elems[k] ELSE not_a_vote) \in Vote
      BY <1>1
    <2>. QED  BY <1>2, <1>3, <2>1
  <1>5. r \in Segment /\ r.offset = s.offset
    BY <1>1, <1>3, <1>4 DEF Segment
  <1>6. upper(r) = n
    BY <1>1, <1>2, <1>4, <1>5 DEF upper
  <1>7. ASSUME NEW x \in Nat PROVE maxvote(r, x) = maxvote(s, x)
    <2>1. maxvote(r, x) = IF s.offset <= x /\ x < s.offset + len
                          THEN r.elems[x - s.offset + 1] ELSE not_a_vote
      BY <1>4, <1>5, Reads
    <2>2. maxvote(s, x) = IF s.offset <= x /\ x < s.offset + Len(s.elems)
                          THEN s.elems[x - s.offset + 1] ELSE not_a_vote
      BY Reads
    <2>3. ASSUME s.offset <= x, x < s.offset + len
          PROVE  r.elems[x - s.offset + 1] =
                    IF x < s.offset + Len(s.elems) THEN s.elems[x - s.offset + 1] ELSE not_a_vote
      <3>1. x - s.offset + 1 \in 1 .. len
        BY <1>1, <1>2, <2>3
      <3>. QED  BY <1>1, <1>2, <1>3, <3>1
    <2>. QED  BY <1>1, <1>2, <2>1, <2>2, <2>3
  <1>. QED  BY <1>5, <1>6, <1>7

\* A write inside a segment changes the vote of its instance only.
LEMMA Written ==
    ASSUME NEW s \in Segment, NEW n \in Nat, s.offset <= n, n < upper(s), NEW v \in Vote
    PROVE  LET r == set(s, n, v)
           IN  /\ r \in Segment /\ r.offset = s.offset /\ upper(r) = upper(s)
               /\ \A x \in Nat : maxvote(r, x) = IF x = n THEN v ELSE maxvote(s, x)
  <1>. DEFINE r == set(s, n, v)
             at == n - s.offset
  <1>1. s.offset \in Nat /\ s.elems \in Seq(Vote) /\ Len(s.elems) \in Nat
    BY DEF Segment
  <1>2. at \in Nat /\ offset_in(s, n) = at /\ at < Len(s.elems)
    BY <1>1 DEF upper, offset_in
  <1>3. r = [offset |-> s.offset, elems |-> [s.elems EXCEPT ![at + 1] = v]]
    <2>. DEFINE e == votemap_set(s.elems, offset_in(s, n), v)
    <2>1. e = [s.elems EXCEPT ![at + 1] = v]
      BY <1>2 DEF votemap_set
    <2>2. r = [s EXCEPT !.elems = e]
      BY DEF set
    <2>. HIDE DEF e
    <2>3. r = [offset |-> s.offset, elems |-> e]
      BY <2>2 DEF Segment
    <2>. QED  BY <2>1, <2>3
  <1>4. r.elems \in Seq(Vote) /\ Len(r.elems) = Len(s.elems)
    BY <1>1, <1>2, <1>3
  <1>5. r \in Segment /\ r.offset = s.offset /\ upper(r) = upper(s)
    BY <1>1, <1>3, <1>4 DEF Segment, upper
  <1>6. ASSUME NEW x \in Nat PROVE maxvote(r, x) = IF x = n THEN v ELSE maxvote(s, x)
    <2>1. maxvote(r, x) = IF s.offset <= x /\ x < s.offset + Len(s.elems)
                          THEN r.elems[x - s.offset + 1] ELSE not_a_vote
      BY <1>4, <1>5, Reads
    <2>2. maxvote(s, x) = IF s.offset <= x /\ x < s.offset + Len(s.elems)
                          THEN s.elems[x - s.offset + 1] ELSE not_a_vote
      BY Reads
    <2>3. ASSUME s.offset <= x, x < s.offset + Len(s.elems)
          PROVE  r.elems[x - s.offset + 1] = IF x = n THEN v ELSE s.elems[x - s.offset + 1]
      <3>1. x - s.offset + 1 \in 1 .. Len(s.elems) /\ (x - s.offset + 1 = at + 1 <=> x = n)
        BY <1>1, <1>2, <2>3
      <3>. QED  BY <1>1, <1>3, <3>1
    <2>. QED  BY <1>1, <1>2, <2>1, <2>2, <2>3 DEF upper
  <1>. QED  BY <1>5, <1>6
-----------------------------------------------------------------------------
(***************************************************************************)
(* Every step keeps the invariant.                                         *)
(***************************************************************************)
LEMMA Initially == Init => IInv
  <1>. SUFFICES ASSUME Init PROVE IInv
    OBVIOUS
  <1>1. TypeOK
    <2>1. <<>> \in Seq(Vote)
      OBVIOUS
    <2>. QED  BY <2>1, BoundsAssumption DEF Init, TypeOK, Segment
  <1>. QED  BY <1>1 DEF Init, IInv, Copied, Cut, Held, Merged

LEMMA Make ==
    ASSUME IInv, NEW a \in Acceptor, make(a)
    PROVE  IInv'
  <1>. DEFINE cut == [offset |-> begin, elems |-> <<>>]
  <1>1. TypeOK /\ Copied /\ Cut /\ Held /\ Merged
    BY DEF IInv
  <1>2. /\ pc = "idle" /\ who' = a /\ idx' = begin /\ seg' = cut
        /\ pc' = IF begin < Len(my_votes[a]) /\ end(a) <= Len(my_votes[a]) THEN "make" ELSE "made"
        /\ UNCHANGED <<my_votes, begin, joined, res, i>>
    BY DEF make
  <1>3. cut \in Segment /\ cut.offset = begin /\ Len(cut.elems) = 0
    BY <1>1 DEF TypeOK, Segment
  <1>4. my_votes[a] \in Seq(Vote) /\ Len(my_votes[a]) \in Nat /\ begin \in Nat
    BY <1>1 DEF TypeOK
  <1>5. TypeOK'
    BY <1>1, <1>2, <1>3 DEF TypeOK
  <1>6. Copied'
    BY <1>2, <1>3, <1>4 DEF Copied
  <1>7. Cut'
    <2>1. pc' = "made" => Len(my_votes[a]) <= begin
      BY <1>2, <1>4 DEF end
    <2>2. ASSUME pc' = "made", NEW x \in Nat, begin <= x
          PROVE  maxvote(cut, x) = vote(a, x)
      <3>1. maxvote(cut, x) = not_a_vote
        <4>1. ~(cut.offset <= x /\ x < cut.offset + Len(cut.elems))
          BY <1>3, <1>4, <2>2
        <4>. QED  BY <1>3, <4>1, Reads
      <3>. QED  BY <1>4, <2>1, <2>2, <3>1 DEF vote, votemap_value
    <2>3. pc' \in {"make", "made"}
      BY <1>2
    <2>4. ASSUME NEW x \in Nat PROVE maxvote(seg', x) = maxvote(cut, x) /\ vote(a, x)' = vote(a, x)
      BY <1>2 DEF vote
    <2>. QED  BY <1>2, <1>3, <2>2, <2>3, <2>4 DEF Cut, vote, maxvote, first, upper, value
  <1>8. Held' /\ Merged'
    BY <1>1, <1>2 DEF Held, Merged, is_highest, vote, maxvote, first, upper, value
  <1>. QED  BY <1>5, <1>6, <1>7, <1>8 DEF IInv

LEMMA AppendStep ==
    ASSUME IInv, append
    PROVE  IInv'
  <1>1. TypeOK /\ Copied /\ Cut /\ Held /\ Merged
    BY DEF IInv
  <1>. DEFINE votes == my_votes[who]
  <1>2. /\ pc = "make" /\ seg \in Segment /\ idx \in Nat /\ begin \in Nat
        /\ votes \in Seq(Vote) /\ Len(votes) \in Nat /\ seg.elems \in Seq(Vote)
        /\ UNCHANGED <<my_votes, begin, who, joined, res, i>>
    BY <1>1 DEF append, TypeOK, Segment
  <1>3. /\ seg.offset = begin /\ begin <= idx /\ idx <= Len(votes)
        /\ begin + Len(seg.elems) = idx
        /\ \A k \in 1 .. Len(seg.elems) : seg.elems[k] = votes[begin + k]
    BY <1>1, <1>2 DEF Copied
  <1>4. end(who) = Len(votes)
    BY <1>2, <1>3 DEF end
  <1>5. Held' /\ Merged'
    <2>1. pc' \in {"make", "made"}
      BY <1>2 DEF append
    <2>. QED  BY <1>1, <1>2, <2>1 DEF Held, Merged, is_highest, vote, maxvote, first, upper, value
  <1>6. CASE idx < end(who)
    <2>. DEFINE v == votemap_value(votes, idx)
    <2>1. pc' = pc /\ idx' = idx + 1 /\ seg' = [seg EXCEPT !.elems = Append(seg.elems, v)]
      BY <1>6 DEF append
    <2>2. v \in Vote /\ v = votes[idx + 1]
      <3>1. v = votes[idx + 1]
        BY <1>4, <1>6 DEF votemap_value
      <3>2. idx + 1 \in 1 .. Len(votes)
        BY <1>2, <1>4, <1>6
      <3>. QED  BY <1>2, <3>1, <3>2
    <2>. HIDE DEF v
    <2>3. seg'.offset = seg.offset /\ seg'.elems = Append(seg.elems, v) /\ seg' \in Segment
      <3>. DEFINE e == Append(seg.elems, v)
      <3>1. e \in Seq(Vote)
        BY <1>2, <2>2
      <3>2. seg' = [seg EXCEPT !.elems = e]
        BY <2>1
      <3>. HIDE DEF e
      <3>3. seg'.offset = seg.offset /\ seg'.elems = e /\ seg' \in Segment
        BY <1>2, <3>1, <3>2 DEF Segment
      <3>. QED  BY <3>3 DEF e
    <2>4. TypeOK'
      BY <1>1, <1>2, <2>1, <2>3 DEF TypeOK
    <2>5. Copied'
      <3>. DEFINE e == Append(seg.elems, v)
      <3>1. Len(e) = Len(seg.elems) + 1 /\ Len(seg.elems) \in Nat
        BY <1>2, <2>2
      <3>2. ASSUME NEW k \in 1 .. Len(e) PROVE e[k] = votes[begin + k]
        <4>1. CASE k \in 1 .. Len(seg.elems)
          BY <1>2, <1>3, <2>2, <4>1
        <4>2. CASE k = Len(seg.elems) + 1
          <5>1. e[k] = v /\ begin + k = idx + 1
            BY <1>2, <1>3, <2>2, <4>2
          <5>. QED  BY <2>2, <5>1
        <4>. QED  BY <3>1, <4>1, <4>2
      <3>. HIDE DEF e
      <3>3. seg'.elems = e
        BY <2>3 DEF e
      <3>4. /\ seg'.offset = begin' /\ begin' <= idx' /\ idx' <= Len(my_votes'[who'])
            /\ begin' + Len(seg'.elems) = idx'
        BY <1>2, <1>3, <1>4, <1>6, <2>1, <2>3, <3>1, <3>3
      <3>5. \A k \in 1 .. Len(seg'.elems) : seg'.elems[k] = my_votes'[who'][begin' + k]
        BY <1>2, <3>2, <3>3
      <3>. QED  BY <3>4, <3>5 DEF Copied
    <2>6. Cut'
      BY <1>2, <2>1 DEF Cut
    <2>. QED  BY <1>5, <2>4, <2>5, <2>6 DEF IInv
  <1>7. CASE ~(idx < end(who))
    <2>1. pc' = "made" /\ seg' = seg /\ idx' = idx /\ idx = Len(votes)
      BY <1>2, <1>3, <1>4, <1>7 DEF append
    <2>2. TypeOK' /\ Copied'
      BY <1>1, <1>2, <2>1 DEF TypeOK, Copied
    <2>3. ASSUME NEW x \in Nat, begin <= x PROVE maxvote(seg, x) = vote(who, x)
      <3>1. maxvote(seg, x) = IF seg.offset <= x /\ x < seg.offset + Len(seg.elems)
                              THEN seg.elems[x - seg.offset + 1] ELSE not_a_vote
        BY <1>2, Reads
      <3>2. CASE x < Len(votes)
        <4>1. x - begin + 1 \in 1 .. Len(seg.elems) /\ begin + (x - begin + 1) = x + 1
          BY <1>2, <1>3, <2>1, <2>3, <3>2
        <4>2. seg.elems[x - begin + 1] = votes[x + 1]
          BY <1>3, <4>1
        <4>. QED  BY <1>2, <1>3, <2>1, <2>3, <3>1, <3>2, <4>2 DEF vote, votemap_value
      <3>3. CASE ~(x < Len(votes))
        BY <1>2, <1>3, <2>1, <3>1, <3>3 DEF vote, votemap_value
      <3>. QED  BY <3>2, <3>3
    <2>4. Cut'
      BY <1>2, <1>3, <2>1, <2>3 DEF Cut, vote, maxvote, first, upper, value
    <2>. QED  BY <1>5, <2>2, <2>4 DEF IInv
  <1>. QED  BY <1>6, <1>7

LEMMA StartRound ==
    ASSUME IInv, start_round
    PROVE  IInv'
  <1>1. TypeOK /\ Copied /\ Cut /\ Held /\ Merged
    BY DEF IInv
  <1>2. /\ pc = "made" /\ pc' = "idle" /\ res' = seg /\ joined' = {who}
        /\ UNCHANGED <<my_votes, begin, who, seg, idx, i>>
    BY DEF start_round
  <1>3. TypeOK' /\ Copied' /\ Cut' /\ Merged'
    BY <1>1, <1>2 DEF TypeOK, Copied, Cut, Merged
  <1>4. ASSUME NEW x \in Nat, begin <= x PROVE is_highest(maxvote(seg, x), {who}, x)
    <2>1. maxvote(seg, x) = vote(who, x)
      BY <1>1, <1>2, <1>4 DEF Cut
    <2>2. vote(who, x) \in Vote
      <3>1. who \in Acceptor
        BY <1>1 DEF TypeOK
      <3>. QED  BY <1>1, <3>1, VotesRead
    <2>. QED  BY <2>1, <2>2 DEF is_highest, Vote
  <1>5. Held'
    BY <1>1, <1>2, <1>4 DEF Held, Cut, is_highest, vote, maxvote, first, upper, value
  <1>. QED  BY <1>3, <1>5 DEF IInv

LEMMA ZipMax ==
    ASSUME IInv, zip_max
    PROVE  IInv'
  <1>. DEFINE longer == resize(res, upper(seg), not_a_vote)
  <1>1. TypeOK /\ Copied /\ Cut /\ Held /\ Merged
    BY DEF IInv
  <1>2. /\ pc = "made" /\ joined # {} /\ pc' = "zip" /\ i' = res.offset
        /\ res' = IF upper(res) < upper(seg) THEN longer ELSE res
        /\ UNCHANGED <<my_votes, begin, who, seg, idx, joined>>
    BY DEF zip_max, first
  <1>3. /\ seg \in Segment /\ res \in Segment /\ begin \in Nat
        /\ seg.offset = begin /\ res.offset = begin
    BY <1>1, <1>2 DEF TypeOK, Cut, Held
  <1>4. /\ upper(seg) \in Nat /\ upper(res) \in Nat
        /\ begin <= upper(seg)
    BY <1>3, Reads
  <1>5. /\ res' \in Segment /\ res'.offset = begin /\ upper(seg) <= upper(res')
        /\ \A x \in Nat : maxvote(res', x) = maxvote(res, x)
    <2>1. CASE upper(res) < upper(seg)
      <3>1. longer \in Segment /\ longer.offset = res.offset /\ upper(longer) = upper(seg)
            /\ \A x \in Nat : maxvote(longer, x) = maxvote(res, x)
        BY <1>3, <1>4, <2>1, Resized
      <3>2. res' = longer
        BY <1>2, <2>1
      <3>. HIDE DEF longer
      <3>. QED  BY <1>3, <1>4, <3>1, <3>2
    <2>2. CASE ~(upper(res) < upper(seg))
      <3>1. res' = res
        BY <1>2, <2>2
      <3>. QED  BY <1>3, <1>4, <2>2, <3>1
    <2>. QED  BY <2>1, <2>2
  <1>6. TypeOK' /\ Copied' /\ Cut'
    <2>. HIDE DEF longer
    <2>1. TypeOK'
      BY <1>1, <1>2, <1>3, <1>5 DEF TypeOK
    <2>2. Copied' /\ Cut'
      BY <1>1, <1>2 DEF Copied, Cut, vote, maxvote, first, upper, value
    <2>. QED  BY <2>1, <2>2
  <1>7. Held' /\ Merged'
    <2>1. \A x \in Nat : begin <= x => is_highest(maxvote(res, x), joined, x)
      BY <1>1, <1>2 DEF Held
    <2>2. \A x \in Nat : begin <= x => is_highest(maxvote(res', x), joined, x)
      BY <1>5, <2>1
    <2>3. \A x \in Nat : begin <= x => ~(x < begin)
      BY <1>3
    <2>. QED  BY <1>2, <1>3, <1>4, <1>5, <2>2, <2>3 DEF Held, Merged, is_highest, vote
  <1>. QED  BY <1>6, <1>7 DEF IInv

\* One turn of the loop: the higher of the two votes, and the next instance.
LEMMA TakeHigher ==
    ASSUME IInv, take_higher
    PROVE  IInv'
  <1>. DEFINE merged == joined \cup {who}
  <1>1. TypeOK /\ Copied /\ Cut /\ Held /\ Merged
    BY DEF IInv
  <1>2. /\ pc = "zip" /\ joined # {} /\ UNCHANGED <<my_votes, begin, who, seg, idx>>
        /\ seg \in Segment /\ res \in Segment /\ begin \in Nat /\ i \in Nat
        /\ who \in Acceptor /\ joined \subseteq Acceptor
        /\ begin <= i /\ i <= upper(seg) /\ upper(seg) <= upper(res)
        /\ seg.offset = begin /\ res.offset = begin
    BY <1>1 DEF take_higher, TypeOK, Cut, Held, Merged
  <1>3. ASSUME NEW x \in Nat, begin <= x
        PROVE  /\ maxvote(seg, x) = vote(who, x)
               /\ maxvote(seg, x) \in Vote /\ maxvote(res, x) \in Vote
               /\ is_highest(maxvote(res, x), IF x < i THEN merged ELSE joined, x)
               /\ \A a \in merged : vote(a, x) \in Vote
    <2>1. maxvote(seg, x) \in Vote /\ maxvote(res, x) \in Vote
      BY <1>2, Reads
    <2>2. \A a \in merged : vote(a, x) \in Vote
      BY <1>1, <1>2, VotesRead
    <2>. QED  BY <1>1, <1>2, <1>3, <2>1, <2>2 DEF Cut, Merged
  <1>4. upper(seg) \in Nat /\ upper(res) \in Nat
    BY <1>2, Reads
  <1>5. CASE i # upper(seg)
    <2>. DEFINE higher == maxvote(res, i).maxr < maxvote(seg, i).maxr
                new == IF higher THEN maxvote(seg, i) ELSE maxvote(res, i)
    <2>1. /\ res' = IF higher THEN set(res, i, maxvote(seg, i)) ELSE res
          /\ i' = i + 1 /\ UNCHANGED <<pc, joined>>
      BY <1>5 DEF take_higher
    <2>2. i < upper(seg) /\ i < upper(res)
      BY <1>2, <1>4, <1>5
    <2>3. /\ res' \in Segment /\ res'.offset = begin /\ upper(res') = upper(res)
          /\ \A x \in Nat : maxvote(res', x) = IF x = i THEN new ELSE maxvote(res, x)
      <3>. DEFINE r == set(res, i, maxvote(seg, i))
      <3>1. CASE higher
        <4>1. r \in Segment /\ r.offset = res.offset /\ upper(r) = upper(res)
              /\ \A x \in Nat : maxvote(r, x) = IF x = i THEN maxvote(seg, i) ELSE maxvote(res, x)
          BY <1>2, <1>3, <2>2, Written
        <4>2. res' = r
          BY <2>1, <3>1
        <4>. HIDE DEF r
        <4>. QED  BY <1>2, <3>1, <4>1, <4>2
      <3>2. CASE ~higher
        BY <1>2, <2>1, <3>2
      <3>. QED  BY <3>1, <3>2
    <2>4. is_highest(new, merged, i)
      <3>1. /\ maxvote(res, i) \in Vote /\ maxvote(seg, i) \in Vote
            /\ maxvote(seg, i) = vote(who, i) /\ is_highest(maxvote(res, i), joined, i)
            /\ \A a \in merged : vote(a, i) \in Vote
        BY <1>2, <1>3
      <3>. QED  BY <3>1 DEF is_highest, Vote
    <2>5. ASSUME NEW x \in Nat, begin <= x
          PROVE  is_highest(maxvote(res', x), IF x < i + 1 THEN merged ELSE joined, x)
      <3>1. CASE x = i
        BY <1>2, <2>3, <2>4, <3>1
      <3>2. CASE x # i
        <4>1. x < i + 1 <=> x < i
          BY <1>2, <3>2
        <4>2. maxvote(res', x) = maxvote(res, x)
          BY <2>3, <3>2
        <4>. QED  BY <1>3, <2>5, <4>1, <4>2
      <3>. QED  BY <3>1, <3>2
    <2>6. TypeOK' /\ Copied' /\ Cut'
      <3>. HIDE DEF higher, new
      <3>1. i' \in Nat /\ res' \in Segment
        BY <1>2, <2>1, <2>3
      <3>2. TypeOK'
        BY <1>1, <1>2, <2>1, <3>1 DEF TypeOK
      <3>3. Copied' /\ Cut'
        BY <1>1, <1>2, <2>1 DEF Copied, Cut, vote, maxvote, first, upper, value
      <3>. QED  BY <3>2, <3>3
    <2>7. Held'
      BY <1>2, <2>1, <2>3 DEF Held
    <2>8. Merged'
      <3>1. begin <= i' /\ i' <= upper(seg) /\ upper(seg) <= upper(res')
        BY <1>2, <1>4, <2>1, <2>2, <2>3
      <3>. QED  BY <1>2, <2>1, <2>5, <3>1 DEF Merged, is_highest, vote
    <2>. QED  BY <2>6, <2>7, <2>8 DEF IInv
  <1>6. CASE i = upper(seg)
    <2>1. pc' = "idle" /\ joined' = merged /\ UNCHANGED <<res, i>>
      BY <1>6 DEF take_higher
    <2>2. ASSUME NEW x \in Nat, begin <= x PROVE is_highest(maxvote(res, x), merged, x)
      <3>1. CASE x < i
        BY <1>3, <2>2, <3>1
      <3>2. CASE ~(x < i)
        <4>1. maxvote(seg, x) = not_a_vote
          BY <1>2, <1>6, <3>2, Reads
        <4>2. vote(who, x).maxr = 0
          BY <1>3, <2>2, <4>1 DEF not_a_vote
        <4>3. is_highest(maxvote(res, x), joined, x) /\ maxvote(res, x) \in Vote
          BY <1>3, <2>2, <3>2
        <4>. QED  BY <4>2, <4>3 DEF is_highest, Vote
      <3>. QED  BY <3>1, <3>2
    <2>3. TypeOK' /\ Copied' /\ Cut'
      BY <1>1, <1>2, <2>1 DEF TypeOK, Copied, Cut
    <2>4. Held' /\ Merged'
      BY <1>2, <2>1, <2>2 DEF Held, Merged, is_highest, vote
    <2>. QED  BY <2>3, <2>4 DEF IInv
  <1>. QED  BY <1>5, <1>6

LEMMA Stutter ==
    ASSUME IInv, UNCHANGED vars
    PROVE  IInv'
  BY DEF IInv, vars, TypeOK, Copied, Cut, Held, Merged, is_highest, vote, maxvote, first, upper, value

LEMMA Step == IInv /\ [Next]_vars => IInv'
  <1>. SUFFICES ASSUME IInv, [Next]_vars PROVE IInv'
    OBVIOUS
  <1>1. ASSUME NEW a \in Acceptor, make(a) PROVE IInv'
    BY <1>1, Make
  <1>2. CASE append
    BY <1>2, AppendStep
  <1>3. CASE start_round
    BY <1>3, StartRound
  <1>4. CASE zip_max
    BY <1>4, ZipMax
  <1>5. CASE take_higher
    BY <1>5, TakeHigher
  <1>6. CASE UNCHANGED vars
    BY <1>6, Stutter
  <1>. QED  BY <1>1, <1>2, <1>3, <1>4, <1>5, <1>6 DEF Next

\* The merge of the votes keeps Copied, Cut, Held and Merged in every state.
THEOREM Invariance == Spec => []IInv
  BY Initially, Step, PTL DEF Spec
-----------------------------------------------------------------------------
(***************************************************************************)
(* What follows.                                                           *)
(***************************************************************************)
\* The arrays, segments and counters of make and zip_max keep their types.
THEOREM TypeCorrect == Spec => []TypeOK
  <1>1. IInv => TypeOK
    BY DEF IInv
  <1>. QED  BY Invariance, <1>1, PTL

\* Whatever the lengths of the arrays and the order of the reports, between
\* calls of zip_max the leader holds the highest vote of those who joined: in the
\* instances a run of TLC looks at, and in all from begin on (Held).
THEOREM HighestVotes == Spec => [](HighestVotesAreJoined /\ Held)
  <1>1. IInv => HighestVotesAreJoined /\ Held
    <2>1. IInv => Inst \subseteq Nat /\ \A x \in Inst : begin <= x
      BY DEF IInv, TypeOK, Inst
    <2>. QED  BY <2>1 DEF IInv, Held, HighestVotesAreJoined
  <1>. QED  BY Invariance, <1>1, PTL

\* The loop of zip_max writes inside the array it holds and reaches the end it
\* tests for equality only.
THEOREM ZipInside == Spec => []ZipStaysInside
  <1>1. IInv => ZipStaysInside
    <2>. SUFFICES ASSUME IInv, pc = "zip" PROVE ZipStaysInside
      BY DEF ZipStaysInside
    <2>1. /\ seg \in Segment /\ res \in Segment /\ begin \in Nat /\ i \in Nat
      BY DEF IInv, TypeOK
    <2>2. upper(seg) \in Nat
      BY <2>1, Reads
    <2>. QED  BY <2>1, <2>2 DEF IInv, Cut, Held, Merged, ZipStaysInside, first
  <1>. QED  BY Invariance, <1>1, PTL
-----------------------------------------------------------------------------
(***************************************************************************)
(* The thunks that count a set of nodes.                                   *)
(***************************************************************************)

\* The array of the first k nodes, and the thunks when it was built.
upto(k) == [j \in 1 .. k |-> j - 1]
counted(l) == IF l = 1 THEN Size ELSE l - 2
thunks(k) == [l \in 1 .. k + 1 |-> N!thunk(counted(l))]

\* What the thunk l of an array c counts of the array s.
members(s, l) == {n \in 0 .. l - 2 : N!member(n, s)}
count(s, l) == Cardinality(members(s, l))

\* Each thunk of c stands upon those of lower nodes and remembers what it counted.
Thunks(c) ==
    /\ c = [l \in 1 .. Size + 1 |-> c[l]]
    /\ \A l \in 1 .. Size + 1 :
          /\ c[l] = [counts |-> counted(l), memo |-> c[l].memo]
          /\ \A s \in DOMAIN c[l].memo : c[l].memo[s] = count(s, l)

LEMMA Lengths ==
  ASSUME NEW k \in Nat, NEW f, f = [l \in 1 .. k |-> f[l]]
  PROVE  Len(f) = k /\ f \in Seq({f[l] : l \in 1 .. k})
<1>1. PICK T : T = {f[l] : l \in 1 .. k}
  OBVIOUS
<1>2. f \in [1 .. k -> T]
  BY <1>1
<1> QED
  BY <1>1, <1>2

LEMMA Appended ==
  ASSUME NEW k \in Nat, NEW f, f = [l \in 1 .. k |-> f[l]], NEW e
  PROVE  Append(f, e) = [l \in 1 .. k + 1 |-> IF l <= k THEN f[l] ELSE e]
<1>1. PICK T : T = {f[l] : l \in 1 .. k} \cup {e}
  OBVIOUS
<1>2. f \in [1 .. k -> T] /\ e \in T
  BY <1>1
<1>3. f \in Seq(T) /\ Len(f) = k
  BY <1>2
<1>4. Append(f, e) \in Seq(T) /\ Len(Append(f, e)) = k + 1
  BY <1>2, <1>3
<1>5. Append(f, e) = [l \in 1 .. k + 1 |-> Append(f, e)[l]]
  <2>1. \A o \in Seq(T) : o = [l \in 1 .. Len(o) |-> o[l]]
    OBVIOUS
  <2> QED
    BY <1>4, <2>1
<1>6. \A l \in 1 .. k + 1 : Append(f, e)[l] = IF l <= k THEN f[l] ELSE e
  BY <1>2, <1>3
<1> QED
  BY <1>5, <1>6

\* Any set of numbers that is not empty has a least one.
Less == {ss \in Nat \X Nat : ss[1] < ss[2]}

LEMMA LeastNumber == \A T \in SUBSET Nat : T # {} => \E x \in T : \A y \in T : x <= y
<1> SUFFICES ASSUME NEW T \in SUBSET Nat, T # {}
             PROVE  \E x \in T : \A y \in T : x <= y
  OBVIOUS
<1>1. IsWellFoundedOn(Less, Nat)
  BY NatLessThanWellFounded DEF OpToRel, Less
<1>2. PICK x \in T : \A y \in T : ~(<<y, x>> \in Less)
  BY <1>1, WFMin
<1>3. \A y \in T : x <= y
  <2> SUFFICES ASSUME NEW y \in T, y < x
               PROVE  FALSE
    OBVIOUS
  <2>1. <<y, x>> \in Less
    BY DEF Less
  <2> QED
    BY <1>2, <2>1
<1> QED
  BY <1>3

\* A thunk counts its node upon what the thunk below it counts.
LEMMA CountOne ==
  ASSUME NEW s, NEW l \in 1 .. Size + 1
  PROVE  /\ count(s, l) \in Nat
         /\ l = 1 => count(s, l) = 0
         /\ l # 1 => count(s, l) = IF N!member(l - 2, s) THEN count(s, l - 1) + 1
                                   ELSE count(s, l - 1)
<1>0. l \in Nat /\ l >= 1 /\ l - 2 \in Int
  BY SizeAssumption
<1>1. \A k \in Int : IsFiniteSet(members(s, k))
  <2> SUFFICES ASSUME NEW k \in Int PROVE IsFiniteSet(members(s, k))
    OBVIOUS
  <2>1. IsFiniteSet(0 .. k - 2) /\ members(s, k) \subseteq 0 .. k - 2
    BY FS_Interval DEF members
  <2> QED
    BY <2>1, FS_Subset
<1>2. count(s, l) \in Nat
  BY <1>0, <1>1, FS_CardinalityType DEF count
<1>3. CASE l = 1
  <2>1. members(s, l) = {}
    BY <1>3 DEF members
  <2> QED
    BY <1>2, <1>3, <2>1, FS_EmptySet DEF count
<1>4. CASE l # 1
  <2>1. l - 2 \in Nat /\ l - 1 \in Int
    BY <1>0, <1>4
  <2>2. CASE N!member(l - 2, s)
    <3>1. /\ members(s, l) = members(s, l - 1) \cup {l - 2}
          /\ l - 2 \notin members(s, l - 1)
      BY <1>0, <2>1, <2>2 DEF members
    <3>2. Cardinality(members(s, l - 1) \cup {l - 2}) = Cardinality(members(s, l - 1)) + 1
      BY <1>1, <2>1, <3>1, FS_AddElement
    <3> QED
      BY <1>2, <1>4, <2>2, <3>1, <3>2 DEF count
  <2>3. CASE ~N!member(l - 2, s)
    <3>1. members(s, l) = members(s, l - 1)
      BY <1>0, <2>1, <2>3 DEF members
    <3> QED
      BY <1>2, <1>4, <2>3, <3>1 DEF count
  <2> QED
    BY <2>2, <2>3
<1> QED
  BY <1>3, <1>4

\* v answers for s what each thunk of card answers.
answers(v, s) ==
    v = [l \in 1 .. Len(card) |->
            IF s \in DOMAIN card[l].memo THEN card[l].memo[s]
            ELSE IF l = 1 THEN 0
            ELSE IF N!member(card[l].counts, s) THEN v[l - 1] + 1 ELSE v[l - 1]]

\* Whatever they remember, the thunks count the nodes that are in s.
LEMMA ValueIsCount ==
  ASSUME Thunks(card), NEW s
  PROVE  N!value(s) = [l \in 1 .. Size + 1 |-> count(s, l)]
<1>1. PICK w : w = [l \in 1 .. Size + 1 |-> count(s, l)]
  OBVIOUS
<1>2. Len(card) = Size + 1 /\ Size + 1 \in Nat
  BY Lengths, SizeAssumption DEF Thunks
<1>3. \A l \in 1 .. Size + 1 :
        /\ card[l].counts = counted(l)
        /\ s \in DOMAIN card[l].memo => card[l].memo[s] = count(s, l)
  BY DEF Thunks
<1>4. ASSUME NEW v, NEW l \in 1 .. Size + 1, l # 1 => v[l - 1] = count(s, l - 1)
      PROVE  (IF s \in DOMAIN card[l].memo THEN card[l].memo[s]
              ELSE IF l = 1 THEN 0
              ELSE IF N!member(card[l].counts, s) THEN v[l - 1] + 1 ELSE v[l - 1])
               = count(s, l)
  BY <1>3, <1>4, CountOne DEF counted
<1>5. answers(w, s)
  <2>1. \A l \in 1 .. Size + 1 : l # 1 => w[l - 1] = count(s, l - 1)
    <3> SUFFICES ASSUME NEW l \in 1 .. Size + 1, l # 1 PROVE w[l - 1] = count(s, l - 1)
      OBVIOUS
    <3>1. l - 1 \in 1 .. Size + 1
      BY <1>2
    <3> QED
      BY <1>1, <3>1
  <2> QED
    BY <1>1, <1>2, <1>4, <2>1 DEF answers
<1>6. ASSUME NEW v, answers(v, s) PROVE v = w
  <2>1. PICK Bad : Bad = {l \in 1 .. Size + 1 : v[l] # count(s, l)}
    OBVIOUS
  <2>2. \A l \in 1 .. Size + 1 :
          v[l] = IF s \in DOMAIN card[l].memo THEN card[l].memo[s]
                 ELSE IF l = 1 THEN 0
                 ELSE IF N!member(card[l].counts, s) THEN v[l - 1] + 1 ELSE v[l - 1]
    BY <1>2, <1>6 DEF answers
  <2>3. Bad = {}
    <3> SUFFICES ASSUME Bad # {} PROVE FALSE
      OBVIOUS
    <3>1. Bad \in SUBSET Nat
      BY <2>1
    <3>2. PICK l \in Bad : \A k \in Bad : l <= k
      BY <3>1, LeastNumber
    <3>3. l \in 1 .. Size + 1 /\ v[l] # count(s, l)
      BY <2>1, <3>2
    <3>4. l # 1 => v[l - 1] = count(s, l - 1)
      <4> SUFFICES ASSUME l # 1 PROVE v[l - 1] = count(s, l - 1)
        OBVIOUS
      <4>1. l - 1 \in 1 .. Size + 1 /\ ~(l <= l - 1)
        BY <1>2, <3>3
      <4> QED
        BY <2>1, <3>2, <4>1
    <3> QED
      BY <1>4, <2>2, <3>3, <3>4
  <2>4. v = [l \in 1 .. Size + 1 |-> v[l]]
    BY <1>2, <1>6 DEF answers
  <2> QED
    BY <1>1, <2>1, <2>3, <2>4
<1>7. N!value(s) = CHOOSE v : answers(v, s)
  BY DEF N!value, answers
<1> QED
  BY <1>1, <1>5, <1>6, <1>7

\* The thunks stay true whatever they are asked.
LEMMA RememberKeeps ==
  ASSUME Thunks(card), NEW c, Thunks(c), NEW s
  PROVE  Thunks(N!remember(c, s))
<1>1. PICK d : d = N!remember(c, s)
  OBVIOUS
<1>2. Len(c) = Size + 1 /\ Size + 1 \in Nat
  BY Lengths, SizeAssumption DEF Thunks
<1>3. N!value(s) = [l \in 1 .. Size + 1 |-> count(s, l)]
  BY ValueIsCount
<1>4. d = [l \in 1 .. Size + 1 |->
             IF \E k \in l .. Len(c) : s \in DOMAIN c[k].memo THEN c[l]
             ELSE [c[l] EXCEPT !.memo =
                     [a \in DOMAIN @ \cup {s} |-> IF a = s THEN N!value(s)[l] ELSE @[a]]]]
  BY <1>1, <1>2 DEF N!remember
<1>5. ASSUME NEW l \in 1 .. Size + 1
      PROVE  /\ d[l] = [counts |-> counted(l), memo |-> d[l].memo]
             /\ \A b \in DOMAIN d[l].memo : d[l].memo[b] = count(b, l)
  <2>1. /\ c[l] = [counts |-> counted(l), memo |-> c[l].memo]
        /\ \A b \in DOMAIN c[l].memo : c[l].memo[b] = count(b, l)
    BY DEF Thunks
  <2>2. PICK m, e : /\ m = c[l].memo
                    /\ e = [a \in DOMAIN m \cup {s} |-> IF a = s THEN N!value(s)[l] ELSE m[a]]
    OBVIOUS
  <2>3. d[l] = c[l] \/ d[l] = [counts |-> counted(l), memo |-> e]
    BY <1>4, <2>1, <2>2
  <2>4. \A b \in DOMAIN e : e[b] = count(b, l)
    BY <1>3, <2>1, <2>2
  <2>5. CASE d[l] = c[l]
    BY <2>1, <2>5
  <2>6. CASE d[l] = [counts |-> counted(l), memo |-> e]
    BY <2>4, <2>6
  <2> QED
    BY <2>3, <2>5, <2>6
<1>6. d = [l \in 1 .. Size + 1 |-> d[l]]
  BY <1>4
<1> QED
  BY <1>1, <1>5, <1>6 DEF Thunks

\* The test says yes when s holds more than half of the nodes.
LEMMA MajorityIsMajority ==
  ASSUME Thunks(card), all = upto(Size), NEW s
  PROVE  N!majority(s) <=> Size < 2 * Cardinality({n \in N!Node : N!member(n, s)})
<1>1. Size \in Nat /\ Size + 1 - 2 = Size - 1 /\ Size + 1 \in 1 .. Size + 1
  BY SizeAssumption
<1>2. Len(card) = Size + 1
  BY <1>1, Lengths DEF Thunks
<1>3. ASSUME NEW a PROVE N!nset_card(a) = Cardinality({n \in N!Node : N!member(n, a)})
  <2>1. N!nset_card(a) = count(a, Size + 1)
    BY <1>1, <1>2, ValueIsCount DEF N!nset_card
  <2>2. members(a, Size + 1) = {n \in N!Node : N!member(n, a)}
    BY <1>1 DEF members, N!Node
  <2> QED
    BY <2>1, <2>2 DEF count
<1>4. {n \in N!Node : N!member(n, all)} = 0 .. Size - 1
  <2>1. Len(all) = Size
    BY <1>1, Lengths DEF upto
  <2>2. ASSUME NEW n \in 0 .. Size - 1 PROVE N!member(n, all)
    <3>1. n + 1 \in 1 .. Size /\ n + 1 - 1 = n
      BY <1>1
    <3>2. all[n + 1] = n
      BY <3>1 DEF upto
    <3> QED
      BY <2>1, <3>1, <3>2 DEF N!member
  <2> QED
    BY <2>2 DEF N!Node
<1>5. Cardinality(0 .. Size - 1) = Size
  <2>1. 0 \in Int /\ Size - 1 \in Int /\ ~(0 > Size - 1) /\ Size - 1 - 0 + 1 = Size
    BY SizeAssumption
  <2> QED
    BY <2>1, FS_Interval
<1>6. PICK k : k = Cardinality({n \in N!Node : N!member(n, s)})
  OBVIOUS
<1>7. k \in Nat
  <2>1. IsFiniteSet(0 .. Size - 1)
    BY <1>1, FS_Interval
  <2>2. IsFiniteSet({n \in N!Node : N!member(n, s)})
    BY <2>1, FS_Subset DEF N!Node
  <2> QED
    BY <1>6, <2>2, FS_CardinalityType
<1>8. N!majority(s) <=> Size < k + k
  BY <1>3, <1>4, <1>5, <1>6 DEF N!majority
<1> QED
  BY <1>1, <1>6, <1>7, <1>8

-----------------------------------------------------------------------------
(***************************************************************************)
(* The iteration over the nodes.                                           *)
(***************************************************************************)

\* After k turns.
iter_at(k) == IF k < Size THEN N!create(k) ELSE N!end

LEMMA NextTurn ==
  ASSUME NEW k \in 0 .. Size - 1
  PROVE  /\ iter_at(k) = N!create(k) /\ ~iter_at(k).is_end /\ iter_at(k).val = k
         /\ N!next(iter_at(k)) = iter_at(k + 1)
         /\ Append(upto(k), k) = upto(k + 1)
<1>1. k \in Nat /\ k + 1 \in Nat /\ Size \in Nat /\ k < Size /\ (k + 1 < Size <=> k + 1 # Size)
  BY SizeAssumption
<1>2. iter_at(k) = N!create(k) /\ ~iter_at(k).is_end /\ iter_at(k).val = k
  BY <1>1 DEF iter_at, N!create
<1>3. N!next(iter_at(k)) = iter_at(k + 1)
  BY <1>1, <1>2 DEF iter_at, N!next, N!is_max
<1>4. Append(upto(k), k) = upto(k + 1)
  <2>1. upto(k) = [l \in 1 .. k |-> upto(k)[l]]
    BY DEF upto
  <2>2. Append(upto(k), k) = [l \in 1 .. k + 1 |-> IF l <= k THEN upto(k)[l] ELSE k]
    BY <1>1, <2>1, Appended
  <2>3. \A l \in 1 .. k + 1 : (IF l <= k THEN upto(k)[l] ELSE k) = l - 1
    <3> SUFFICES ASSUME NEW l \in 1 .. k + 1
                 PROVE  (IF l <= k THEN upto(k)[l] ELSE k) = l - 1
      OBVIOUS
    <3>1. CASE l <= k
      BY <1>1, <3>1 DEF upto
    <3>2. CASE ~(l <= k)
      BY <1>1, <3>2
    <3> QED
      BY <3>1, <3>2
  <2> QED
    BY <2>2, <2>3 DEF upto
<1> QED
  BY <1>2, <1>3, <1>4

\* d sends to what the iteration has visited.
visits(d) ==
    d = [n \in 0 .. Size |->
            IF n = 0 THEN [sent |-> <<>>, iter |-> N!create(0)]
            ELSE IF d[n - 1].iter.is_end THEN d[n - 1]
            ELSE [sent |-> Append(d[n - 1].sent, d[n - 1].iter.val),
                  iter |-> N!next(d[n - 1].iter)]]

visited(n) == [sent |-> upto(n), iter |-> iter_at(n)]

\* A broadcast goes to the nodes in order.
LEMMA DestinationsAreNodes == N!destinations = [n \in 0 .. Size |-> visited(n)]
<1>1. PICK w : w = [n \in 0 .. Size |-> visited(n)]
  OBVIOUS
<1>2. Size \in Nat /\ 0 \in 0 .. Size - 1
  BY SizeAssumption
<1>3. visited(0) = [sent |-> <<>>, iter |-> N!create(0)]
  <2>1. upto(0) = <<>>
    BY DEF upto
  <2> QED
    BY <1>2, <2>1, NextTurn DEF visited
<1>4. ASSUME NEW d, NEW n \in 0 .. Size, n # 0, d[n - 1] = visited(n - 1)
      PROVE  (IF d[n - 1].iter.is_end THEN d[n - 1]
              ELSE [sent |-> Append(d[n - 1].sent, d[n - 1].iter.val),
                    iter |-> N!next(d[n - 1].iter)]) = visited(n)
  <2>1. PICK k \in 0 .. Size - 1 : k = n - 1 /\ n = k + 1
    BY <1>2, <1>4
  <2>2. d[n - 1].sent = upto(k) /\ d[n - 1].iter = iter_at(k)
    BY <1>4, <2>1 DEF visited
  <2> QED
    BY <2>1, <2>2, NextTurn DEF visited
<1>5. visits(w)
  <2>1. \A n \in 0 .. Size : n # 0 => w[n - 1] = visited(n - 1)
    <3> SUFFICES ASSUME NEW n \in 0 .. Size, n # 0 PROVE w[n - 1] = visited(n - 1)
      OBVIOUS
    <3>1. n - 1 \in 0 .. Size
      BY <1>2
    <3> QED
      BY <1>1, <3>1
  <2> QED
    BY <1>1, <1>3, <1>4, <2>1 DEF visits
<1>6. ASSUME NEW d, visits(d) PROVE d = w
  <2>1. PICK Bad : Bad = {n \in 0 .. Size : d[n] # visited(n)}
    OBVIOUS
  <2>2. \A n \in 0 .. Size :
          d[n] = IF n = 0 THEN [sent |-> <<>>, iter |-> N!create(0)]
                 ELSE IF d[n - 1].iter.is_end THEN d[n - 1]
                 ELSE [sent |-> Append(d[n - 1].sent, d[n - 1].iter.val),
                       iter |-> N!next(d[n - 1].iter)]
    BY <1>6 DEF visits
  <2>3. Bad = {}
    <3> SUFFICES ASSUME Bad # {} PROVE FALSE
      OBVIOUS
    <3>1. Bad \in SUBSET Nat
      BY <1>2, <2>1
    <3>2. PICK n \in Bad : \A k \in Bad : n <= k
      BY <3>1, LeastNumber
    <3>3. n \in 0 .. Size /\ d[n] # visited(n)
      BY <2>1, <3>2
    <3>4. n # 0 => d[n - 1] = visited(n - 1)
      <4> SUFFICES ASSUME n # 0 PROVE d[n - 1] = visited(n - 1)
        OBVIOUS
      <4>1. n - 1 \in 0 .. Size /\ ~(n <= n - 1)
        BY <1>2, <3>3
      <4> QED
        BY <2>1, <3>2, <4>1
    <3> QED
      BY <1>3, <1>4, <2>2, <3>3, <3>4
  <2>4. d = [n \in 0 .. Size |-> d[n]]
    BY <1>6 DEF visits
  <2> QED
    BY <1>1, <2>1, <2>3, <2>4
<1>7. N!destinations = CHOOSE d : visits(d)
  BY DEF N!destinations, visits
<1> QED
  BY <1>1, <1>5, <1>6, <1>7

-----------------------------------------------------------------------------
(***************************************************************************)
(* The round.                                                              *)
(***************************************************************************)

\* While the set of all nodes is built nobody is asked; then the thunks are true.
Sets ==
    \/ \E k \in 0 .. Size - 1 : iter = iter_at(k) /\ all = upto(k) /\ card = thunks(k)
    \/ iter = N!end /\ all = upto(Size) /\ Thunks(card)

\* Those who joined are in the set once each, and the last answer was right.
Counted ==
    /\ joined_set \in Seq(N!Node)
    /\ joined # {} => N!ready
    /\ ActivatedByMajority

RoundInv == IInv /\ Sets /\ Counted

LEMMA ThunksBuilt == Thunks(thunks(Size))
<1>1. Size \in Nat /\ DOMAIN <<>> = {}
  BY SizeAssumption
<1>2. thunks(Size) = [l \in 1 .. Size + 1 |-> thunks(Size)[l]]
  BY DEF thunks
<1>3. ASSUME NEW l \in 1 .. Size + 1
      PROVE  thunks(Size)[l] = [counts |-> counted(l), memo |-> <<>>]
  BY <1>3 DEF thunks, N!thunk
<1>4. ASSUME NEW l \in 1 .. Size + 1
      PROVE  /\ thunks(Size)[l].memo = <<>>
             /\ thunks(Size)[l] = [counts |-> counted(l), memo |-> thunks(Size)[l].memo]
  <2>1. PICK r, c : r = thunks(Size)[l] /\ c = counted(l)
    OBVIOUS
  <2>2. r = [counts |-> c, memo |-> <<>>]
    BY <1>3, <2>1
  <2>3. r.memo = <<>>
    BY <2>2
  <2>4. r = [counts |-> c, memo |-> r.memo]
    BY <2>2, <2>3
  <2> QED
    BY <2>1, <2>3, <2>4
<1> QED
  BY <1>1, <1>2, <1>4 DEF Thunks

\* A turn of the loop of __init.
LEMMA BuildSets ==
  ASSUME Sets, N!build
  PROVE  Sets'
<1>1. ~iter.is_end
  BY DEF N!build
<1>2. ~(iter = N!end)
  BY <1>1 DEF N!end
<1>3. PICK k \in 0 .. Size - 1 : iter = iter_at(k) /\ all = upto(k) /\ card = thunks(k)
  BY <1>2 DEF Sets
<1>4. k \in Nat /\ k + 1 \in Nat /\ Size \in Nat
  BY SizeAssumption
<1>5. iter' = iter_at(k + 1) /\ all' = upto(k + 1)
  BY <1>3, NextTurn DEF N!build
<1>6. card' = thunks(k + 1)
  <2>1. card' = Append(thunks(k), N!thunk(k))
    BY <1>3, NextTurn DEF N!build
  <2>2. thunks(k) = [l \in 1 .. k + 1 |-> thunks(k)[l]]
    BY DEF thunks
  <2>3. Append(thunks(k), N!thunk(k))
          = [l \in 1 .. k + 1 + 1 |-> IF l <= k + 1 THEN thunks(k)[l] ELSE N!thunk(k)]
    BY <1>4, <2>2, Appended
  <2>4. ASSUME NEW l \in 1 .. k + 1 + 1
        PROVE  (IF l <= k + 1 THEN thunks(k)[l] ELSE N!thunk(k)) = N!thunk(counted(l))
    <3>1. CASE l <= k + 1
      <4>1. l \in 1 .. k + 1
        BY <1>4, <3>1
      <4> QED
        BY <3>1, <4>1 DEF thunks
    <3>2. CASE ~(l <= k + 1)
      <4>1. counted(l) = k
        BY <1>4, <3>2 DEF counted
      <4> QED
        BY <3>2, <4>1
    <3> QED
      BY <3>1, <3>2
  <2> QED
    BY <2>1, <2>3, <2>4 DEF thunks
<1>7. CASE k + 1 \in 0 .. Size - 1
  BY <1>5, <1>6, <1>7 DEF Sets
<1>8. CASE k + 1 = Size
  <2>1. iter' = N!end
    BY <1>4, <1>5, <1>8 DEF iter_at
  <2>2. Thunks(card)'
    BY <1>6, <1>8, ThunksBuilt DEF Thunks
  <2> QED
    BY <1>5, <1>8, <2>1, <2>2 DEF Sets
<1> QED
  BY <1>4, <1>7, <1>8

\* When the loop has ended.
LEMMA ReadySets ==
  ASSUME Sets, N!ready
  PROVE  iter = N!end /\ all = upto(Size) /\ Thunks(card)
  BY NextTurn DEF Sets, N!ready

\* A vote that is counted: the answer is about those in the set then.
LEMMA VoteCounts ==
  ASSUME Sets, N!ready, NEW n, N!vote(n)
  PROVE  /\ Sets'
         /\ answer' <=> Size < 2 * Cardinality({p \in N!Node : N!member(p, joined_set')})
<1>1. iter = N!end /\ all = upto(Size) /\ Thunks(card)
  BY ReadySets
<1>2. PICK s : s = joined_set'
  OBVIOUS
<1>3. /\ answer' = N!majority(s) /\ card' = N!remember(N!remember(card, all), s)
      /\ UNCHANGED <<iter, all>>
  BY <1>2 DEF N!vote
<1>4. PICK c : c = N!remember(N!remember(card, all), s)
  OBVIOUS
<1>5. Thunks(c)
  BY <1>1, <1>4, RememberKeeps
<1>6. Thunks(card')
  BY <1>3, <1>4, <1>5
<1>7. Sets'
  BY <1>1, <1>3, <1>6 DEF Sets, Thunks
<1>8. N!majority(s) <=> Size < 2 * Cardinality({p \in N!Node : N!member(p, s)})
  BY <1>1, MajorityIsMajority
<1> QED
  BY <1>2, <1>3, <1>7, <1>8

LEMMA RoundInitially == RoundInit => RoundInv
<1> SUFFICES ASSUME RoundInit PROVE RoundInv
  OBVIOUS
<1>1. IInv
  BY Initially DEF RoundInit
<1>2. Sets
  <2>1. 0 \in 0 .. Size - 1
    BY SizeAssumption
  <2>2. iter = iter_at(0) /\ all = upto(0)
    <3>1. upto(0) = <<>>
      BY DEF upto
    <3>2. iter_at(0) = N!create(0)
      BY <2>1, NextTurn
    <3> QED
      BY <3>1, <3>2 DEF RoundInit, N!Init, N!emptyset
  <2>3. card = thunks(0)
    <3>1. 1 .. 0 + 1 = {1} /\ counted(1) = Size
      BY DEF counted
    <3>2. thunks(0) = [l \in {1} |-> N!thunk(Size)]
      BY <3>1 DEF thunks
    <3>3. <<N!thunk(Size)>> = [l \in {1} |-> N!thunk(Size)]
      OBVIOUS
    <3> QED
      BY <3>2, <3>3 DEF RoundInit, N!Init, N!bottom
  <2> QED
    BY <2>1, <2>2, <2>3 DEF Sets
<1>3. Counted
  <2>1. joined_set = <<>> /\ joined = {}
    BY DEF RoundInit, N!Init, N!emptyset, Init
  <2>2. Cardinality({}) = 0
    BY FS_EmptySet
  <2> QED
    BY <2>1, <2>2 DEF Counted, ActivatedByMajority
<1> QED
  BY <1>1, <1>2, <1>3 DEF RoundInv

\* Who joins first is in the set alone.
LEMMA FirstJoins ==
  ASSUME RoundInv, IInv', joined' = {who}, who \in Acceptor, N!start(who)
  PROVE  Sets' /\ Counted'
<1>1. joined_set' = <<who>> /\ UNCHANGED <<iter, all, card>> /\ N!ready
  BY DEF N!start, N!add, N!emptyset, N!member
<1>2. Sets'
  BY <1>1 DEF RoundInv, Sets, Thunks
<1>3. Cardinality({who}) = 1
  BY FS_Singleton
<1>4. who \in N!Node
  BY AcceptorsAssumption DEF N!Node
<1>5. /\ joined_set' \in Seq(N!Node) /\ Len(joined_set') = 1
      /\ {joined_set'[k] : k \in DOMAIN joined_set'} = {who}
  BY <1>1, <1>4
<1>6. N!ready'
  BY <1>1 DEF N!ready
<1> QED
  BY <1>2, <1>3, <1>5, <1>6 DEF Counted, ActivatedByMajority, N!ToSet

\* Who joins later is added, and the test is about all who have joined.
LEMMA AnotherJoins ==
  ASSUME RoundInv, IInv', joined # {}, who \in Acceptor, who \notin joined,
         joined' = joined \cup {who}, N!vote(who)
  PROVE  Sets' /\ Counted'
<1>1. PICK s, t : s = joined_set /\ t = joined_set'
  OBVIOUS
<1>2. /\ s \in Seq(N!Node) /\ Len(s) = Cardinality(joined) /\ N!ready
      /\ {s[k] : k \in DOMAIN s} = joined
  BY <1>1 DEF RoundInv, Counted, ActivatedByMajority, N!ToSet
<1>3. Sets' /\ (answer' <=> Size < 2 * Cardinality({p \in N!Node : N!member(p, t)}))
  BY <1>1, <1>2, VoteCounts DEF RoundInv
<1>4. ~N!member(who, s)
  BY <1>2 DEF N!member
<1>5. t = Append(s, who)
  BY <1>1, <1>4 DEF N!vote, N!add
<1>6. who \in N!Node /\ joined \subseteq N!Node
  BY AcceptorsAssumption DEF RoundInv, IInv, TypeOK, N!Node
<1>7. t \in Seq(N!Node) /\ Len(t) = Len(s) + 1
  BY <1>2, <1>5, <1>6
<1>8. {t[k] : k \in DOMAIN t} = joined'
  <2>1. DOMAIN t = 1 .. Len(s) + 1 /\ DOMAIN s = 1 .. Len(s) /\ Len(s) \in Nat
    BY <1>2, <1>7
  <2>2. \A k \in 1 .. Len(s) : t[k] = s[k]
    BY <1>2, <1>5, <1>6
  <2>3. t[Len(s) + 1] = who
    BY <1>2, <1>5, <1>6
  <2>4. {t[k] : k \in 1 .. Len(s) + 1} = {s[k] : k \in 1 .. Len(s)} \cup {who}
    BY <2>1, <2>2, <2>3
  <2> QED
    BY <1>2, <2>1, <2>4
<1>9. IsFiniteSet(joined) /\ Cardinality(joined') = Cardinality(joined) + 1
  <2>1. IsFiniteSet(0 .. Size - 1)
    BY SizeAssumption, FS_Interval
  <2>2. IsFiniteSet(joined)
    BY <1>6, <2>1, FS_Subset DEF N!Node
  <2> QED
    BY <2>2, FS_AddElement
<1>10. {p \in N!Node : N!member(p, t)} = joined'
  <2>1. DOMAIN t = 1 .. Len(t)
    BY <1>7
  <2> QED
    BY <1>6, <1>8, <2>1 DEF N!member
<1>11. N!ready'
  BY <1>2 DEF N!vote, N!ready
<1>12. Cardinality(joined') \in Nat
  BY <1>9, FS_CardinalityType
<1>13. joined_set' \in Seq(N!Node) /\ Len(joined_set') = Cardinality(joined')
  BY <1>1, <1>2, <1>7, <1>9
<1>14. N!ToSet(joined_set') = joined'
  BY <1>1, <1>8 DEF N!ToSet
<1>15. answer' <=> 2 * Cardinality(joined') > Size
  <2>1. answer' <=> Size < 2 * Cardinality(joined')
    BY <1>3, <1>10
  <2> QED
    BY SizeAssumption, <1>12, <2>1
<1> QED
  BY <1>3, <1>11, <1>13, <1>14, <1>15 DEF Counted, ActivatedByMajority, N!ToSet

\* The part of a round's state that the merging of votes leaves alone.
LEMMA SetsUnchanged ==
  ASSUME Sets, UNCHANGED set_vars
  PROVE  Sets'
  BY DEF Sets, Thunks, set_vars

LEMMA CountedUnchanged ==
  ASSUME Counted, UNCHANGED set_vars, joined' = joined
  PROVE  Counted'
  BY DEF Counted, ActivatedByMajority, N!ToSet, N!ready, set_vars

\* Before the round nobody has joined: the program is initialised, and the set
\* holds whom an earlier round left in it.
LEMMA Earlier ==
  ASSUME RoundInv, earlier
  PROVE  Sets' /\ Counted'
<1>1. joined = {} /\ joined' = {} /\ joined_set \in Seq(N!Node) /\ Sets
  BY DEF earlier, vars, RoundInv, Counted
<1>2. Cardinality({}) = 0
  BY FS_EmptySet
<1>3. ASSUME joined_set' \in Seq(N!Node) PROVE Counted'
  BY <1>1, <1>2, <1>3 DEF Counted, ActivatedByMajority
<1>4. ASSUME NEW n \in N!Node, NEW s \in Seq(N!Node) PROVE N!add(s, n) \in Seq(N!Node)
  BY DEF N!add
<1>5. N!emptyset \in Seq(N!Node)
  BY DEF N!emptyset
<1>6. CASE N!build
  <2>1. joined_set' = joined_set
    BY <1>6 DEF N!build
  <2> QED
    BY <1>1, <1>3, <1>6, <2>1, BuildSets
<1>7. CASE N!clear
  <2>1. joined_set' = N!emptyset /\ UNCHANGED <<iter, all, card>>
    BY <1>7 DEF N!clear
  <2>2. Sets'
    BY <1>1, <2>1 DEF Sets, Thunks
  <2> QED
    BY <1>3, <1>5, <2>1, <2>2
<1>8. ASSUME NEW n \in N!Node, N!start(n) PROVE Sets' /\ Counted'
  <2>1. joined_set' = N!add(N!emptyset, n) /\ UNCHANGED <<iter, all, card>>
    BY <1>8 DEF N!start
  <2>2. Sets'
    BY <1>1, <2>1 DEF Sets, Thunks
  <2> QED
    BY <1>3, <1>4, <1>5, <2>1, <2>2
<1>9. ASSUME NEW n \in N!Node, N!vote(n) PROVE Sets' /\ Counted'
  <2>1. joined_set' = N!add(joined_set, n) /\ N!ready
    BY <1>9 DEF N!vote
  <2>2. Sets'
    BY <1>1, <1>9, <2>1, VoteCounts
  <2> QED
    BY <1>1, <1>3, <1>4, <2>1, <2>2
<1> QED
  BY <1>6, <1>7, <1>8, <1>9 DEF earlier

\* Who joins is the acceptor whose votes were merged: the first one by itself.
LEMMA WhoStarts ==
  ASSUME RoundInv, Next, joined = {}, joined' # {}
  PROVE  joined' = {who}
<1>1. ASSUME NEW a \in Acceptor, make(a) PROVE FALSE
  BY <1>1 DEF make
<1>2. CASE append
  BY <1>2 DEF append
<1>3. CASE start_round
  BY <1>3 DEF start_round
<1>4. CASE zip_max
  BY <1>4 DEF zip_max
<1>5. CASE take_higher
  BY <1>5 DEF take_higher, RoundInv, IInv, Merged
<1> QED
  BY <1>1, <1>2, <1>3, <1>4, <1>5 DEF Next

LEMMA WhoVotes ==
  ASSUME RoundInv, Next, joined # {}, joined' # joined
  PROVE  joined' = joined \cup {who} /\ who \notin joined
<1>1. ASSUME NEW a \in Acceptor, make(a) PROVE FALSE
  BY <1>1 DEF make
<1>2. CASE append
  BY <1>2 DEF append
<1>3. CASE start_round
  BY <1>3 DEF start_round
<1>4. CASE zip_max
  BY <1>4 DEF zip_max
<1>5. CASE take_higher
  <2>1. joined' = joined \cup {who}
    BY <1>5 DEF take_higher
  <2> QED
    BY <2>1
<1> QED
  BY <1>1, <1>2, <1>3, <1>4, <1>5 DEF Next

LEMMA RoundStep == RoundInv /\ [RoundNext]_round_vars => RoundInv'
<1> SUFFICES ASSUME RoundInv, [RoundNext]_round_vars PROVE RoundInv'
  OBVIOUS
<1>1. IInv /\ Sets /\ Counted /\ who \in Acceptor
  BY DEF RoundInv, IInv, TypeOK
<1>2. [Next]_vars
  BY DEF RoundNext, earlier, round_vars
<1>3. IInv'
  BY <1>1, <1>2, Step
<1>4. CASE earlier
  BY <1>3, <1>4, Earlier DEF RoundInv
<1>5. ASSUME Next, joins PROVE RoundInv'
  <2>1. CASE joined' = joined /\ UNCHANGED set_vars
    BY <1>1, <1>3, <2>1, SetsUnchanged, CountedUnchanged DEF RoundInv
  <2>2. CASE joined = {} /\ joined' # {} /\ N!start(who)
    <3>1. joined' = {who}
      BY <1>5, <2>2, WhoStarts
    <3> QED
      BY <1>1, <1>3, <2>2, <3>1, FirstJoins DEF RoundInv
  <2>3. CASE joined # {} /\ joined' # joined /\ N!vote(who)
    <3>1. joined' = joined \cup {who} /\ who \notin joined
      BY <1>5, <2>3, WhoVotes
    <3> QED
      BY <1>1, <1>3, <2>3, <3>1, AnotherJoins DEF RoundInv
  <2> QED
    BY <1>5, <2>1, <2>2, <2>3 DEF joins
<1>6. CASE UNCHANGED round_vars
  <2>1. UNCHANGED set_vars /\ joined' = joined
    BY <1>6 DEF round_vars, vars
  <2> QED
    BY <1>1, <1>3, <2>1, SetsUnchanged, CountedUnchanged DEF RoundInv
<1> QED
  BY <1>4, <1>5, <1>6 DEF RoundNext

\* The invariant of a round is inductive: the merged votes, the array of all
\* nodes, what the thunks remember and the set of those who joined.
THEOREM RoundInvariance == RoundSpec => []RoundInv
  BY RoundInitially, RoundStep, PTL DEF RoundSpec

\* The majority test of a round (nset__majority) says yes exactly when more than
\* half of the nodes have had their votes merged, whatever array of an earlier
\* round the thunks still remember.
THEOREM Activated == RoundSpec => []ActivatedByMajority
<1>1. RoundInv => ActivatedByMajority
  BY DEF RoundInv, Counted
<1> QED
  BY RoundInvariance, <1>1, PTL

\* __init builds the set of all nodes with each of them once, and a broadcast
\* goes to each of them once.
THEOREM NodesOnce == RoundSpec => []EachNodeOnce
<1>1. RoundInv => EachNodeOnce
  <2> SUFFICES ASSUME RoundInv, N!ready PROVE N!EachNodeOnce
    BY DEF EachNodeOnce, N!EachNodeOnce
  <2>1. all = upto(Size)
    BY ReadySets DEF RoundInv
  <2>2. N!destinations[Size].sent = upto(Size)
    <3>1. Size \in 0 .. Size
      BY SizeAssumption
    <3>2. N!destinations[Size] = visited(Size)
      BY <3>1, DestinationsAreNodes
    <3>3. PICK a, b : a = upto(Size) /\ b = iter_at(Size)
      OBVIOUS
    <3>4. N!destinations[Size] = [sent |-> a, iter |-> b]
      BY <3>2, <3>3 DEF visited
    <3> QED
      BY <3>3, <3>4
  <2>3. PICK u : u = upto(Size)
    OBVIOUS
  <2>4. Len(u) = Size /\ DOMAIN u = 1 .. Size
    BY <2>3, SizeAssumption, Lengths DEF upto
  <2>5. {u[k] : k \in DOMAIN u} = N!Node
    <3>1. \A k \in 1 .. Size : u[k] = k - 1 /\ k - 1 \in 0 .. Size - 1
      BY <2>3, SizeAssumption DEF upto
    <3>2. \A n \in 0 .. Size - 1 : n + 1 \in 1 .. Size /\ u[n + 1] = n
      <4> SUFFICES ASSUME NEW n \in 0 .. Size - 1
                   PROVE  n + 1 \in 1 .. Size /\ u[n + 1] = n
        OBVIOUS
      <4>1. n + 1 \in 1 .. Size /\ n + 1 - 1 = n
        BY SizeAssumption
      <4> QED
        BY <2>3, <4>1 DEF upto
    <3>3. {u[k] : k \in 1 .. Size} \subseteq 0 .. Size - 1
      BY <3>1
    <3>4. 0 .. Size - 1 \subseteq {u[k] : k \in 1 .. Size}
      <4> SUFFICES ASSUME NEW n \in 0 .. Size - 1 PROVE \E k \in 1 .. Size : u[k] = n
        OBVIOUS
      <4> QED
        BY <3>2
    <3> QED
      BY <2>4, <3>3, <3>4 DEF N!Node
  <2> QED
    BY <2>1, <2>2, <2>3, <2>4, <2>5 DEF N!EachNodeOnce, N!ToSet
<1> QED
  BY RoundInvariance, <1>1, PTL

\* The merged votes in the round: as Spec promises them.
THEOREM RoundHighestVotes ==
    RoundSpec => [](TypeOK /\ HighestVotesAreJoined /\ Held /\ ZipStaysInside)
<1>1. RoundSpec => Spec
  <2>1. RoundInit => Init
    BY DEF RoundInit
  <2>2. [RoundNext]_round_vars => [Next]_vars
    BY DEF RoundNext, earlier, round_vars
  <2> QED
    BY <2>1, <2>2, PTL DEF RoundSpec, Spec
<1> QED
  BY <1>1, TypeCorrect, HighestVotes, ZipInside, PTL
=============================================================================
