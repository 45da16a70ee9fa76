---------------------------- MODULE MCJoinedVotes ----------------------------
(* Small instance of JoinedVotes for TLC. *)
EXTENDS JoinedVotes, SequencesExt

\* A round has one value per instance: its number tells votes apart.
MCVotes == {not_a_vote} \cup {[maxr |-> r, maxv |-> r] : r \in {1, 2}}

\* An array ends with the last vote cast.
MCArrays == {a \in BoundedSeq(MCVotes, 2) :
                a # <<>> => IsInjective(a) /\ Last(a) # not_a_vote}
=============================================================================
