------------------------- MODULE PaxosAdapterProofs -------------------------
(***************************************************************************)
(* Proofs about PaxosAdapter, for any number of servers, instances and     *)
(* values.                                                                 *)
(***************************************************************************)
EXTENDS PaxosAdapter, TLAPS

\* No decision is told apart from every value, and instances are numbered.
Assumptions == none \notin Value /\ Inst \subseteq Nat /\ \A i \in Inst : 0 .. i \subseteq Inst

\* No instance has two decisions.
Functional ==
    \A i \in Inst, v, w \in Value : <<i, v>> \in decided /\ <<i, w>> \in decided => v = w

\* Logs hold decisions; what has been passed on is the start of the log.
LogsHoldDecisions ==
    \A n \in Node :
        /\ \A i \in Inst : my_log[n][i] # none => <<i, my_log[n][i]>> \in decided
        /\ Len(committed[n]) = m_applied_index[n]
        /\ \A k \in 1 .. m_applied_index[n] :
            my_log[n][k - 1] # none /\ committed[n][k] = my_log[n][k - 1]

\* The loop stopped at a hole, or behind the largest instance seen.
StoppedAtHole ==
    \A n \in Node :
        /\ 0 .. m_max_index[n] - 1 \subseteq Inst
        /\ m_applied_index[n] <= m_max_index[n]
        /\ \A i \in Inst : m_max_index[n] <= i => my_log[n][i] = none
        /\ m_applied_index[n] < m_max_index[n] => my_log[n][m_applied_index[n]] = none

IInv == TypeOK /\ Functional /\ LogsHoldDecisions /\ StoppedAtHole

LEMMA Initially == ASSUME Assumptions PROVE Init => IInv
  BY DEF Assumptions, Init, IInv, TypeOK, Functional, LogsHoldDecisions, StoppedAtHole, Service!Init

\* What a call of decide leaves behind, at the server that is called.
LEMMA Applied ==
    ASSUME NEW n \in Node, NEW i \in Inst, NEW v \in Value, Assumptions, IInv, decide(n, i, v)
    PROVE  /\ decided' = decided \cup {<<i, v>>}
           /\ my_log' = [my_log EXCEPT ![n][i] = v]
           /\ m_max_index'[n] \in Nat /\ m_max_index'[n] > i /\ m_max_index'[n] >= m_max_index[n]
           /\ m_applied_index'[n] \in m_applied_index[n] .. m_max_index'[n]
           /\ \A j \in m_applied_index[n] .. m_applied_index'[n] - 1 : my_log'[n][j] # none
           /\ m_applied_index'[n] < m_max_index'[n] => my_log'[n][m_applied_index'[n]] = none
           /\ committed'[n] = [k \in 1 .. m_applied_index'[n] |->
                  IF k <= m_applied_index[n] THEN committed[n][k] ELSE my_log'[n][k - 1]]
           /\ \A p \in Node \ {n} : /\ my_log'[p] = my_log[p]
                                    /\ m_max_index'[p] = m_max_index[p]
                                    /\ m_applied_index'[p] = m_applied_index[p]
                                    /\ committed'[p] = committed[p]
  <1>. USE DEF Assumptions
  <1>1. my_log' = [my_log EXCEPT ![n][i] = v] /\ my_log \in [Node -> [Inst -> Value \cup {none}]]
    BY DEF decide, IInv, TypeOK
  <1>0. m_max_index' \in [Node -> Nat]
    BY DEF decide, pass_on, new_max, IInv, TypeOK
  <1>2. PICK last \in m_applied_index[n] .. m_max_index'[n] :
           /\ applies_to(n, last)
           /\ m_applied_index' = [m_applied_index EXCEPT ![n] = last]
           /\ apply(n, i, v, last)
    BY DEF decide, pass_on
  <1>12. last \in Nat
    BY <1>0 DEF IInv, TypeOK
  <1>3. m_applied_index'[n] = last
    BY <1>2 DEF IInv, TypeOK
  <1>4. my_log'[n][i] = v
    BY <1>1
  <1>5. committed'[n] = [k \in 1 .. last |->
            IF k <= m_applied_index[n] THEN committed[n][k]
            ELSE IF k = i + 1 THEN v ELSE my_log'[n][k - 1]]
    BY <1>2 DEF apply, IInv, TypeOK
  <1>6. \A k \in 1 .. last : k = i + 1 => my_log'[n][k - 1] = v
    BY <1>4
  <1>7. committed'[n] = [k \in 1 .. last |->
            IF k <= m_applied_index[n] THEN committed[n][k] ELSE my_log'[n][k - 1]]
    BY <1>5, <1>6
  <1>8. m_max_index'[n] = IF i < m_max_index[n] THEN m_max_index[n] ELSE i + 1
    BY DEF decide, pass_on, new_max, IInv, TypeOK
  <1>9. m_max_index'[n] \in Nat /\ m_max_index'[n] > i /\ m_max_index'[n] >= m_max_index[n]
    BY <1>8 DEF IInv, TypeOK
  <1>10. \A p \in Node \ {n} : /\ my_log'[p] = my_log[p]
                               /\ m_max_index'[p] = m_max_index[p]
                               /\ m_applied_index'[p] = m_applied_index[p]
                               /\ committed'[p] = committed[p]
    BY <1>1, <1>2 DEF decide, pass_on, new_max, apply, IInv, TypeOK
  <1>11. decided' = decided \cup {<<i, v>>}
    BY DEF decide, Service!decide
  <1> QED BY <1>1, <1>2, <1>3, <1>7, <1>9, <1>10, <1>11, <1>12 DEF applies_to

LEMMA DecidePreserves ==
    ASSUME NEW n \in Node, NEW i \in Inst, NEW v \in Value, Assumptions, IInv, decide(n, i, v)
    PROVE  IInv'
  <1>a. /\ decided' = decided \cup {<<i, v>>}
        /\ my_log' = [my_log EXCEPT ![n][i] = v]
        /\ m_max_index'[n] \in Nat /\ m_max_index'[n] > i /\ m_max_index'[n] >= m_max_index[n]
        /\ m_applied_index'[n] \in m_applied_index[n] .. m_max_index'[n]
        /\ \A j \in m_applied_index[n] .. m_applied_index'[n] - 1 : my_log'[n][j] # none
        /\ m_applied_index'[n] < m_max_index'[n] => my_log'[n][m_applied_index'[n]] = none
        /\ committed'[n] = [k \in 1 .. m_applied_index'[n] |->
               IF k <= m_applied_index[n] THEN committed[n][k] ELSE my_log'[n][k - 1]]
    BY Applied
  <1>b. \A p \in Node \ {n} : /\ my_log'[p] = my_log[p]
                              /\ m_max_index'[p] = m_max_index[p]
                              /\ m_applied_index'[p] = m_applied_index[p]
                              /\ committed'[p] = committed[p]
    BY Applied
  <1>. USE DEF Assumptions
  <1>1. my_log \in [Node -> [Inst -> Value \cup {none}]] /\ my_log' \in [Node -> [Inst -> Value \cup {none}]]
    BY <1>a DEF IInv, TypeOK
  <1>2. \A j \in Inst : my_log'[n][j] = IF j = i THEN v ELSE my_log[n][j]
    BY <1>1, <1>a
  <1>3. my_log[n][i] = none
    BY DEF decide
  <1>4. Functional'
    BY <1>a DEF IInv, Functional, decide, Service!decide
  <1>5. m_applied_index' \in [Node -> Nat] /\ m_max_index' \in [Node -> Nat]
    BY DEF decide, pass_on, new_max, IInv, TypeOK
  <1>c. 0 .. m_max_index'[n] - 1 \subseteq Inst
    <2>1. m_max_index'[n] = IF i < m_max_index[n] THEN m_max_index[n] ELSE i + 1
      BY DEF decide, pass_on, new_max, IInv, TypeOK
    <2>2. m_max_index[n] \in Nat /\ 0 .. m_max_index[n] - 1 \subseteq Inst /\ 0 .. i \subseteq Inst
      BY DEF IInv, TypeOK, StoppedAtHole
    <2> QED BY <2>1, <2>2
  <1>6. \A k \in 1 .. m_applied_index'[n] : /\ k - 1 \in Inst
                                            /\ my_log'[n][k - 1] # none
                                            /\ committed'[n][k] = my_log'[n][k - 1]
    <2> SUFFICES ASSUME NEW k \in 1 .. m_applied_index'[n]
                 PROVE  /\ k - 1 \in Inst
                        /\ my_log'[n][k - 1] # none
                        /\ committed'[n][k] = my_log'[n][k - 1]
      OBVIOUS
    <2>0. m_applied_index'[n] \in Nat /\ m_max_index'[n] \in Nat /\ m_applied_index[n] \in Nat
      BY <1>5 DEF IInv, TypeOK
    <2>1. m_applied_index'[n] \in Nat /\ m_applied_index[n] \in Nat /\ k - 1 \in Inst
      BY <1>a, <1>c, <2>0
    <2>2. CASE k <= m_applied_index[n]
      <3>1. my_log[n][k - 1] # none /\ committed[n][k] = my_log[n][k - 1]
        BY <2>1, <2>2 DEF IInv, LogsHoldDecisions
      <3>2. my_log'[n][k - 1] = my_log[n][k - 1]
        BY <3>1, <2>1, <1>2, <1>3
      <3>3. committed'[n][k] = committed[n][k]
        BY <1>a, <2>1, <2>2
      <3> QED BY <2>1, <3>1, <3>2, <3>3
    <2>3. CASE ~(k <= m_applied_index[n])
      <3>1. k - 1 \in m_applied_index[n] .. m_applied_index'[n] - 1
        BY <2>1, <2>3
      <3>2. committed'[n][k] = my_log'[n][k - 1]
        BY <1>a, <2>1, <2>3
      <3> QED BY <1>a, <2>1, <3>1, <3>2
    <2> QED BY <2>2, <2>3
  <1>7. /\ committed'[n] = [k \in 1 .. m_applied_index'[n] |-> committed'[n][k]]
        /\ \A k \in 1 .. m_applied_index'[n] : committed'[n][k] \in Value
    <2>1. committed'[n] = [k \in 1 .. m_applied_index'[n] |-> committed'[n][k]]
      BY <1>a
    <2>2. \A j \in Inst : my_log'[n][j] # none => my_log'[n][j] \in Value
      BY <1>1
    <2>3. \A k \in 1 .. m_applied_index'[n] : committed'[n][k] \in Value
      BY <1>6, <2>2
    <2> QED BY <2>1, <2>3
  <1>8. committed'[n] \in Seq(Value) /\ Len(committed'[n]) = m_applied_index'[n]
    BY <1>5, <1>7
  <1>9. TypeOK'
    <2>1. committed' \in [Node -> Seq(Value)]
      <3>1. committed' = [committed EXCEPT ![n] = committed'[n]]
        BY DEF decide, pass_on, apply, IInv, TypeOK
      <3> QED BY <3>1, <1>8 DEF IInv, TypeOK
    <2>2. decided' \in SUBSET (Inst \X Value)
      BY <1>a DEF IInv, TypeOK
    <2> QED BY <1>1, <1>5, <2>1, <2>2 DEF TypeOK
  <1>10. LogsHoldDecisions'
    <2> SUFFICES ASSUME NEW p \in Node
                 PROVE  /\ \A j \in Inst : my_log'[p][j] # none => <<j, my_log'[p][j]>> \in decided'
                        /\ Len(committed'[p]) = m_applied_index'[p]
                        /\ \A k \in 1 .. m_applied_index'[p] :
                              my_log'[p][k - 1] # none /\ committed'[p][k] = my_log'[p][k - 1]
      BY DEF LogsHoldDecisions
    <2>1. CASE p = n
      <3>1. \A j \in Inst : my_log'[n][j] # none => <<j, my_log'[n][j]>> \in decided'
        BY <1>2, <1>a DEF IInv, LogsHoldDecisions
      <3> QED BY <2>1, <3>1, <1>6, <1>8
    <2>2. CASE p # n
      <3>1. decided \subseteq decided'
        BY <1>a
      <3> QED BY <2>2, <3>1, <1>b DEF IInv, LogsHoldDecisions
    <2> QED BY <2>1, <2>2
  <1>11. StoppedAtHole'
    <2> SUFFICES ASSUME NEW p \in Node
                 PROVE  /\ 0 .. m_max_index'[p] - 1 \subseteq Inst
                        /\ m_applied_index'[p] <= m_max_index'[p]
                        /\ \A j \in Inst : m_max_index'[p] <= j => my_log'[p][j] = none
                        /\ m_applied_index'[p] < m_max_index'[p] => my_log'[p][m_applied_index'[p]] = none
      BY DEF StoppedAtHole
    <2>1. CASE p = n
      <3>1. \A j \in Inst : m_max_index'[n] <= j => my_log'[n][j] = none
        <4>1. m_max_index[n] \in Nat /\ m_max_index'[n] \in Nat
          BY <1>5 DEF IInv, TypeOK
        <4>2. \A j \in Inst : m_max_index[n] <= j => my_log[n][j] = none
          BY DEF IInv, StoppedAtHole
        <4> QED BY <1>2, <1>a, <4>1, <4>2
      <3>2. m_applied_index'[n] <= m_max_index'[n]
        BY <1>a, <1>5 DEF IInv, TypeOK
      <3> QED BY <2>1, <3>1, <3>2, <1>a, <1>c
    <2>2. CASE p # n
      BY <2>2, <1>b DEF IInv, StoppedAtHole
    <2> QED BY <2>1, <2>2
  <1> QED BY <1>4, <1>9, <1>10, <1>11 DEF IInv

\* The invariant of the adapter: the start of every log has been passed on, up
\* to its first hole.
THEOREM Invariance == ASSUME Assumptions PROVE Spec => []IInv
  <1>1. IInv /\ [Next]_vars => IInv'
    <2> SUFFICES ASSUME IInv, [Next]_vars PROVE IInv'
      OBVIOUS
    <2>1. CASE Next
      BY <2>1, DecidePreserves DEF Next
    <2>2. CASE UNCHANGED vars
      BY <2>2 DEF vars, IInv, TypeOK, Functional, LogsHoldDecisions, StoppedAtHole
    <2> QED BY <2>1, <2>2
  <1> QED BY Initially, <1>1, PTL DEF Spec

\* The adapter never leaves a decision behind that could be passed on
\* (multipaxos-consensus.h, the loop of ext__system__server__decide).
THEOREM NothingIsLeftWaiting == ASSUME Assumptions PROVE Spec => []NothingWaits
  <1>1. IInv => NothingWaits
    <2> SUFFICES ASSUME IInv, NEW n \in Node, NEW i \in Inst,
                        \A j \in 0..i : my_log[n][j] # none
                 PROVE  i < m_applied_index[n]
      BY DEF NothingWaits
    <2>1. m_applied_index[n] \in Nat /\ m_max_index[n] \in Nat /\ i \in Nat
      BY DEF Assumptions, IInv, TypeOK
    <2>2. i < m_max_index[n]
      BY <2>1 DEF IInv, StoppedAtHole
    <2>3. m_applied_index[n] < m_max_index[n] => m_applied_index[n] \notin 0..i
      BY DEF IInv, StoppedAtHole
    <2> QED BY <2>1, <2>2, <2>3
  <1> QED BY Invariance, <1>1, PTL

\* Applied instances are decided for good.
THEOREM AppliedStaysDecided == ASSUME Assumptions PROVE Spec => []AppliedIsDecided
  <1>1. IInv => AppliedIsDecided
    <2> SUFFICES ASSUME IInv, NEW n \in Node, NEW i \in 0 .. m_applied_index[n] - 1
                 PROVE  (\E v \in Value : <<i, v>> \in decided) /\ my_log[n][i] # none
      BY DEF AppliedIsDecided
    <2>0. m_applied_index[n] \in Nat /\ m_max_index[n] \in Nat
      BY DEF IInv, TypeOK
    <2>1. i \in Inst /\ i + 1 \in 1 .. m_applied_index[n] /\ (i + 1) - 1 = i
      BY <2>0 DEF IInv, StoppedAtHole
    <2>2. my_log[n][i] # none
      BY <2>1 DEF IInv, LogsHoldDecisions
    <2>3. my_log[n][i] \in Value
      BY <2>1, <2>2 DEF IInv, TypeOK
    <2> QED BY <2>1, <2>2, <2>3 DEF IInv, LogsHoldDecisions
  <1> QED BY Invariance, <1>1, PTL
-----------------------------------------------------------------------------
(***************************************************************************)
(* The adapter implements CommittedLog.                                    *)
(***************************************************************************)
\* Two servers passed on the same values, as far as both have come.
LEMMA SamePrefix ==
    ASSUME Assumptions, IInv, NEW n \in Node, NEW p \in Node
    PROVE  \A k \in 1 .. m_applied_index[n] :
               k <= m_applied_index[p] => committed[n][k] = committed[p][k]
  <1> SUFFICES ASSUME NEW k \in 1 .. m_applied_index[n], k <= m_applied_index[p]
               PROVE  committed[n][k] = committed[p][k]
    OBVIOUS
  <1>0. m_applied_index[n] \in Nat /\ m_max_index[n] \in Nat /\ m_applied_index[p] \in Nat
    BY DEF IInv, TypeOK
  <1>1. k - 1 \in Inst /\ k \in 1 .. m_applied_index[p]
    BY <1>0 DEF IInv, StoppedAtHole
  <1>2. /\ my_log[n][k - 1] # none /\ committed[n][k] = my_log[n][k - 1]
        /\ my_log[p][k - 1] # none /\ committed[p][k] = my_log[p][k - 1]
    BY <1>1 DEF IInv, LogsHoldDecisions
  <1>3. /\ <<k - 1, my_log[n][k - 1]>> \in decided /\ my_log[n][k - 1] \in Value
        /\ <<k - 1, my_log[p][k - 1]>> \in decided /\ my_log[p][k - 1] \in Value
    BY <1>1, <1>2 DEF IInv, LogsHoldDecisions, TypeOK
  <1> QED BY <1>1, <1>2, <1>3 DEF IInv, Functional

AllComparable ==
    \A n, p \in Node : \/ Log!begins_with(committed[n], committed[p])
                       \/ Log!begins_with(committed[p], committed[n])

LEMMA Comparable == ASSUME Assumptions PROVE IInv => AllComparable
  <1> SUFFICES ASSUME IInv, NEW n \in Node, NEW p \in Node
               PROVE  \/ Log!begins_with(committed[n], committed[p])
                      \/ Log!begins_with(committed[p], committed[n])
    BY DEF AllComparable
  <1>1. /\ m_applied_index[n] \in Nat /\ m_applied_index[p] \in Nat
        /\ Len(committed[n]) = m_applied_index[n] /\ Len(committed[p]) = m_applied_index[p]
    BY DEF Assumptions, IInv, TypeOK, LogsHoldDecisions
  <1>2. /\ \A k \in 1 .. m_applied_index[n] :
               k <= m_applied_index[p] => committed[n][k] = committed[p][k]
        /\ \A k \in 1 .. m_applied_index[p] :
               k <= m_applied_index[n] => committed[p][k] = committed[n][k]
    BY SamePrefix
  <1> QED BY <1>1, <1>2 DEF Log!begins_with

LEMMA ReportsOnly ==
    ASSUME NEW n \in Node, NEW i \in Inst, NEW v \in Value, Assumptions, IInv, IInv', AllComparable',
           decide(n, i, v)
    PROVE  Log!report_commits(n)
  <1>1. /\ m_applied_index'[n] \in m_applied_index[n] .. m_max_index'[n]
        /\ m_max_index'[n] \in Nat
        /\ committed'[n] = [k \in 1 .. m_applied_index'[n] |->
               IF k <= m_applied_index[n] THEN committed[n][k] ELSE my_log'[n][k - 1]]
        /\ \A p \in Node \ {n} : committed'[p] = committed[p]
    BY Applied
  <1>2. m_applied_index[n] \in Nat /\ m_applied_index'[n] \in Nat
    BY <1>1 DEF Assumptions, IInv, TypeOK
  <1>3. committed'[n] \in Seq(Value) /\ committed' = [committed EXCEPT ![n] = committed'[n]]
    BY DEF decide, pass_on, apply, IInv, TypeOK
  <1>4. Len(committed[n]) = m_applied_index[n] /\ Len(committed'[n]) = m_applied_index'[n]
    BY DEF IInv, LogsHoldDecisions
  <1>5. Log!begins_with(committed'[n], committed[n])
    BY <1>1, <1>2, <1>4 DEF Log!begins_with
  <1>6. \A p \in Node : \/ Log!begins_with(committed'[n], committed[p])
                        \/ Log!begins_with(committed[p], committed'[n])
    <2> SUFFICES ASSUME NEW p \in Node
                 PROVE  \/ Log!begins_with(committed'[n], committed[p])
                        \/ Log!begins_with(committed[p], committed'[n])
      OBVIOUS
    <2>1. CASE p = n
      BY <2>1, <1>5
    <2>2. CASE p # n
      BY <2>2, <1>1 DEF AllComparable
    <2> QED BY <2>1, <2>2
  <1> QED BY <1>3, <1>5, <1>6 DEF Log!report_commits

\* A server that counts the votes for an instance it holds already reports it
\* again; the adapter, which is called then too, does nothing
\* (multipaxos-consensus.h: the hole it stopped at is still one).
THEOREM RepeatsAreIgnored ==
    ASSUME Assumptions, IInv, NEW n \in Node, NEW i \in Inst, NEW v \in Value,
           my_log[n][i] = v, UNCHANGED my_log, pass_on(n, i, v)
    PROVE  UNCHANGED <<m_applied_index, m_max_index, committed>>
  <1>1. /\ i \in Nat /\ m_applied_index[n] \in Nat /\ m_max_index[n] \in Nat
        /\ m_applied_index[n] <= m_max_index[n]
        /\ v # none
    BY DEF Assumptions, IInv, TypeOK, StoppedAtHole
  <1>2. i < m_max_index[n]
    BY <1>1 DEF IInv, StoppedAtHole
  <1>3. m_max_index' = m_max_index
    BY <1>2 DEF pass_on, new_max, IInv, TypeOK
  <1>4. PICK last \in m_applied_index[n] .. m_max_index[n] :
           /\ applies_to(n, last)
           /\ m_applied_index' = [m_applied_index EXCEPT ![n] = last]
           /\ apply(n, i, v, last)
    BY <1>3 DEF pass_on
  <1>5. last = m_applied_index[n]
    <2>1. CASE last > m_applied_index[n]
      <3>1. m_applied_index[n] \in m_applied_index[n] .. last - 1
        BY <1>1, <2>1
      <3>2. my_log[n][m_applied_index[n]] # none
        BY <3>1, <1>4 DEF applies_to
      <3>3. m_applied_index[n] < m_max_index[n]
        BY <1>1, <2>1
      <3> QED BY <3>2, <3>3 DEF IInv, StoppedAtHole
    <2> QED BY <2>1, <1>1
  <1>6. m_applied_index' = m_applied_index
    BY <1>4, <1>5 DEF IInv, TypeOK
  <1>7. committed' = committed
    <2>1. committed[n] \in Seq(Value) /\ Len(committed[n]) = m_applied_index[n]
      BY DEF IInv, TypeOK, LogsHoldDecisions
    <2>2. committed[n] = [k \in 1 .. last |-> committed[n][k]]
      BY <2>1, <1>5
    <2>3. [k \in 1 .. last |-> IF k <= m_applied_index[n] THEN committed[n][k]
             ELSE IF k = i + 1 THEN v ELSE my_log'[n][k - 1]] = [k \in 1 .. last |-> committed[n][k]]
      BY <1>1, <1>5
    <2>4. committed' = [committed EXCEPT ![n] = committed[n]]
      BY <1>4, <2>2, <2>3 DEF apply
    <2> QED BY <2>4 DEF IInv, TypeOK
  <1> QED BY <1>3, <1>6, <1>7

\* Through the adapter the decisions of Multi-Paxos become one log that every
\* server reads from its start, each entry once.
THEOREM ImplementsCommittedLog == ASSUME Assumptions PROVE Spec => PassedOnAsOneLog
  <1>1. Init => Log!Init
    BY DEF Init, Log!Init
  <1>2. IInv /\ IInv' /\ AllComparable' /\ [Next]_vars => [Log!Next]_committed
    <2> SUFFICES ASSUME IInv, IInv', AllComparable', [Next]_vars
                 PROVE  [Log!Next]_committed
      OBVIOUS
    <2>1. CASE Next
      BY <2>1, ReportsOnly DEF Next, Log!Next
    <2>2. CASE UNCHANGED vars
      BY <2>2 DEF vars
    <2> QED BY <2>1, <2>2
  <1> QED BY <1>1, <1>2, Invariance, Comparable, PTL DEF Spec, PassedOnAsOneLog, Log!Spec
=============================================================================
