---------------------------- MODULE MultiPaxosWire ----------------------------
(***************************************************************************)
(* The bytes of a Multi-Paxos message and the reader's way back.           *)
(***************************************************************************)
EXTENDS Serializer

CONSTANTS Chunk, Messages, MaxSent     \* see Wire

Votes == [offset : Number, elems : Seq([maxr : Number, maxv : String])]

\* What the servers send: numbers that are not negative, strings as the reader ends them.
Message ==
    {m \in [m_kind : Number, m_round : Number, m_inst : Number, m_node : Number,
            m_value : String, m_votemap : Votes] : Len(m.m_votemap.elems) \in Number}

ASSUME ChunkAssumption == Chunk \in Nat \ {0}
ASSUME MessagesAssumption == Messages \subseteq Message

VARIABLES sent, stream, closed, inp, pos, todo, got, delivered, failed, exited

ser_vote_struct(v) == ser_int(v.maxr) \o ser_string(v.maxv)

ser_votemap(elems) == ser_list([i \in DOMAIN elems |-> ser_vote_struct(elems[i])])

ser_votemap_seg(seg) == ser_int(seg.offset) \o ser_votemap(seg.elems)

\* Fault: a field that two kinds of messages do not use is left out.
ser_msg_short(m) ==
    ser_int(m.m_kind) \o ser_int(m.m_round) \o ser_int(m.m_inst) \o ser_int(m.m_node)
        \o (IF m.m_value = <<>> THEN <<>> ELSE ser_string(m.m_value))
        \o ser_votemap_seg(m.m_votemap)

\* A msg_kind goes as an int; every kind of message has all six fields.
ser_msg(m) ==
    ser_int(m.m_kind) \o ser_int(m.m_round) \o ser_int(m.m_inst) \o ser_int(m.m_node)
        \o ser_string(m.m_value) \o ser_votemap_seg(m.m_votemap)

deser_vote_struct == <<"int", "str">>

deser_votemap == <<"list">>

deser_votemap_seg == <<"int">> \o deser_votemap

deser_msg == <<"int", "int", "int", "int", "str">> \o deser_votemap_seg

\* The message whose fields have been read in this order.
msg_of(g) ==
    [m_kind |-> g[1], m_round |-> g[2], m_inst |-> g[3], m_node |-> g[4], m_value |-> g[5],
     m_votemap |-> [offset |-> g[6],
                    elems |-> [i \in 1 .. g[7] |-> [maxr |-> g[6 + 2 * i], maxv |-> g[7 + 2 * i]]]]]

INSTANCE Wire WITH deser_elem <- deser_vote_struct
=============================================================================
