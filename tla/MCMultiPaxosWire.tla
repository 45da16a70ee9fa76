--------------------------- MODULE MCMultiPaxosWire ---------------------------
EXTENDS MultiPaxosWire

no_votes == [offset |-> 0, elems |-> <<>>]

\* A report of two votes, one of them for the empty string, and a two_a whose
\* round takes both bytes of a word.
one_b == [m_kind |-> 1, m_round |-> 2, m_inst |-> 0, m_node |-> 1, m_value |-> <<>>,
          m_votemap |-> [offset |-> 1, elems |-> <<[maxr |-> 1, maxv |-> <<2>>],
                                                   [maxr |-> 0, maxv |-> <<>>]>>]]
two_a == [m_kind |-> 2, m_round |-> 5, m_inst |-> 1, m_node |-> 0, m_value |-> <<1, 3>>,
          m_votemap |-> no_votes]

MCMessages == {one_b, two_a}
=============================================================================
