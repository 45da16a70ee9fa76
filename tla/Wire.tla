--------------------------------- MODULE Wire ---------------------------------
(***************************************************************************)
(* A connection as bytes: what the writer sends, in the format of          *)
(* Serializer, and the reader task that cuts it into messages again.       *)
(*                                                                         *)
(* read() returns as many bytes as happen to be there, so the reader asks  *)
(* for more whenever the field at hand is not complete, usually gets too   *)
(* many, and keeps what is left over for the next message.  A message has  *)
(* no length in front of it: its end is where its last field ends.         *)
(***************************************************************************)
EXTENDS Integers, Sequences, SequencesExt, FiniteSetsExt

CONSTANTS
    Base, Word,     \* 256 values of a byte, 8 bytes of a long long
    power,          \* how many values so many bytes have
    Chunk,          \* what the reader asks for at least: 1024 bytes
    \* The program's messages: the set a run sends, their bytes, the types of
    \* their fields in order, of a list's elements, and the message read.
    Messages, ser_msg(_), deser_msg, deser_elem, msg_of(_),
    MaxSent         \* bound of the exploration: messages sent

VARIABLES
    sent,           \* the messages written in full
    stream,         \* bytes on their way
    closed,         \* the peer has closed, or failed in the middle of a message
    inp, pos,       \* bytes read, how many of them are used
    todo, got,      \* types of the fields to come, values of those read
    delivered,      \* what the recv callback has been called with
    failed,         \* the reader has called the failed callback
    exited          \* the server's process has ended

vars == <<sent, stream, closed, inp, pos, todo, got, delivered, failed, exited>>
reader_vars == <<inp, pos, todo, got, delivered, failed, exited>>
-----------------------------------------------------------------------------
\* Shifted in one by one; the result is signed.
getn(bytes) ==
    LET n == Len(bytes)
        x[k \in 0 .. n] == IF k = 0 THEN 0 ELSE x[k - 1] * Base + bytes[k]
    IN  IF 2 * x[n] >= power[n] THEN x[n] - power[n] ELSE x[n]
-----------------------------------------------------------------------------
Init ==
    /\ sent = <<>> /\ stream = <<>> /\ closed = FALSE
    /\ inp = <<>> /\ pos = 0
    /\ todo = deser_msg /\ got = <<>>
    /\ delivered = <<>> /\ failed = FALSE /\ exited = FALSE

\* The writer sends one message from its queue.
send(m) ==
    /\ ~closed /\ Len(sent) < MaxSent
    /\ sent' = Append(sent, m)
    /\ stream' = stream \o ser_msg(m)
    /\ UNCHANGED <<closed, reader_vars>>

\* The connection breaks while part of a message has been sent, or none.
break(m) ==
    /\ ~closed
    /\ closed' = TRUE
    /\ \E n \in 0 .. Len(ser_msg(m)) - 1 : stream' = stream \o SubSeq(ser_msg(m), 1, n)
    /\ UNCHANGED <<sent, reader_vars>>
-----------------------------------------------------------------------------
(***************************************************************************)
(* The reader.                                                             *)
(***************************************************************************)
running == ~failed /\ ~exited

reading(type) == running /\ todo # <<>> /\ Head(todo) = type

\* The end of the zero-terminated string at pos, if it is there.
string_ends == {i \in pos + 1 .. Len(inp) : inp[i] = 0}

\* Fault: more than the next field is asked for.
needed_and_one ==
    IF reading("str") THEN IF string_ends = {} THEN 1 ELSE 0
    ELSE pos + Word + 1 - Len(inp)

\* How many bytes the next field lacks; a string is read byte by byte.
needed ==
    IF reading("str") THEN IF string_ends = {} THEN 1 ELSE 0
    ELSE pos + Word - Len(inp)

\* Blocks until something arrives; whatever has arrived is taken, up to a limit.
more ==
    /\ running /\ todo # <<>> /\ needed > 0
    /\ \E n \in 1 .. Min({Len(stream), Max({Chunk, needed})}) :
        /\ inp' = inp \o SubSeq(stream, 1, n)
        /\ stream' = SubSeq(stream, n + 1, Len(stream))
    /\ UNCHANGED <<sent, closed, pos, todo, got, delivered, failed, exited>>

\* An error of read() ends the process, whatever else is on its way.
recvfrom_failed ==
    /\ running /\ todo # <<>> /\ needed > 0
    /\ closed
    /\ exited' = TRUE
    /\ UNCHANGED <<sent, stream, closed, inp, pos, todo, got, delivered, failed>>

\* Fault: the end of the stream counts only in the middle of a message.
deser_err_inside ==
    /\ running /\ todo # <<>> /\ needed > 0
    /\ stream = <<>> /\ closed /\ pos > 0
    /\ failed' = TRUE
    /\ UNCHANGED <<sent, stream, closed, inp, pos, todo, got, delivered, exited>>

\* The end of the stream in the middle of a field: deser_err, the connection is
\* given up.
deser_err ==
    /\ running /\ todo # <<>> /\ needed > 0
    /\ stream = <<>> /\ closed
    /\ failed' = TRUE
    /\ UNCHANGED <<sent, stream, closed, inp, pos, todo, got, delivered, exited>>

take(n, x, types) ==
    /\ pos' = pos + n
    /\ got' = Append(got, x)
    /\ todo' = types
    /\ UNCHANGED <<sent, stream, closed, inp, delivered, failed, exited>>

word == getn(SubSeq(inp, pos + 1, pos + Word))

get_int ==
    /\ reading("int") /\ needed <= 0
    /\ take(Word, word, Tail(todo))

get_string ==
    /\ reading("str") /\ needed <= 0
    /\ LET end == Min(string_ends)
       IN  take(end - pos, SubSeq(inp, pos + 1, end - 1), Tail(todo))

\* The number of elements, then the elements.
get_list ==
    /\ reading("list") /\ needed <= 0
    /\ take(Word, word, FlattenSeq([i \in 1..word |-> deser_elem]) \o Tail(todo))

\* The message is complete: keep the bytes left over and call back.
recv ==
    /\ running /\ todo = <<>>
    /\ delivered' = Append(delivered, msg_of(got))
    /\ inp' = SubSeq(inp, pos + 1, Len(inp)) /\ pos' = 0
    /\ todo' = deser_msg /\ got' = <<>>
    /\ UNCHANGED <<sent, stream, closed, failed, exited>>

proceed == more \/ deser_err \/ get_int \/ get_string \/ get_list \/ recv

read == proceed \/ recvfrom_failed

Next ==
    \/ \E m \in Messages : send(m) \/ break(m)
    \/ read

\* The reader's thread runs.
Spec == Init /\ [][Next]_vars /\ WF_vars(proceed)
-----------------------------------------------------------------------------
\* However the stream is cut into reads and wherever it breaks, the callback
\* gets the messages that were sent, in order, and no others.
DeliveredAsSent == IsPrefix(delivered, sent)

\* The reader never waits for the bytes of the next message to hand over this
\* one: when it blocks, all that was sent in full has been delivered.
NothingWaits ==
    running /\ stream = <<>> /\ todo # <<>> /\ needed > 0 => delivered = sent

\* All that was sent before the connection broke is delivered, and the failure
\* is reported after it, unless read() itself fails.
EndIsReported == closed ~> exited \/ (failed /\ delivered = sent)
=============================================================================
