------------------------------ MODULE Serializer ------------------------------
(***************************************************************************)
(* ivy_binary_ser: the bytes of numbers, strings and lists.                *)
(***************************************************************************)
EXTENDS Integers, Sequences, SequencesExt

CONSTANTS Base, Word    \* 256 values of a byte, 8 bytes of a long long

ASSUME WidthAssumption == Base \in Nat \ {0, 1} /\ Word \in Nat \ {0}

\* How many values k bytes have.
power[k \in 0 .. Word] == IF k = 0 THEN 1 ELSE power[k - 1] * Base

Byte == 0 .. Base - 1
Number == {x \in Nat : 2 * x < power[Word]}    \* the top bit is the sign

\* Most significant byte first, in two's complement.
setn(x, n) == [i \in 1 .. n |-> (x \div power[n - i]) % Base]

\* Every type of number and bool is sent as a long long.
ser_int(x) == setn(x, Word)

\* Strings hold no zero byte: they come from a zero-terminated buffer.
String == Seq(Byte \ {0})
ser_string(s) == Append(s, 0)

\* The number of elements, then the bytes of each.
ser_list(elems) == ser_int(Len(elems)) \o FlattenSeq(elems)
=============================================================================
