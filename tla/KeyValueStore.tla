---------------------------- MODULE KeyValueStore ----------------------------
(***************************************************************************)
(* kvstore.cpp: what a request means and what it does to the store of a    *)
(* server and to the cache of last responses.                              *)
(*                                                                         *)
(* Values are opaque.  Null is the null pointer, a key that is absent; a   *)
(* client's None travels as the string Dash.                               *)
(***************************************************************************)
EXTENDS Naturals

CONSTANTS Client, Key, Value, Null, Dash

Tag == {"GET", "PUT", "DEL", "CAS", "CAD"}

Stored == Value \cup {Dash}

\* A call as the client writes it: two arguments after the key, Dash for None.
Call == [tag : Tag, key : Key, arg2 : Stored, arg3 : Stored]

Response == [client : Client, seqnum : Nat, key : Key,
             value : Stored \cup {Null}, old_value : Stored \cup {Null}]

ASSUME NullAssumption == Null \notin Stored \cup Response

\* The second argument is the value, of CAS too, whose third is the expected one.
parse_request(l) ==
    [client |-> l.client, seqnum |-> l.seqnum, tag |-> l.tag, key |-> l.key,
     value |-> IF l.tag \in {"GET", "DEL"} THEN Null ELSE l.arg2,
     expected_value |-> IF l.tag = "CAS" /\ l.arg3 # Dash THEN l.arg3 ELSE Null]

\* shared_ptr's ==, on two strings made apart: equal only if both are null.
same_pointer(a, b) == a = Null /\ b = Null

\* What key r.key holds after r if it held old before.
value_after(r, old) ==
    LET expected == same_pointer(old, r.expected_value)
    IN  CASE r.tag = "GET" -> old
          [] r.tag = "PUT" -> r.value
          [] r.tag = "DEL" -> Null
          [] r.tag = "CAS" -> IF expected THEN r.value ELSE old
          [] r.tag = "CAD" -> IF expected THEN Null ELSE old

response(r, old) ==
    [client |-> r.client, seqnum |-> r.seqnum, key |-> r.key,
     value |-> value_after(r, old), old_value |-> old]

\* The cache has no response of this client, or one to an earlier request.
is_new(cache, r) == cache[r.client] # Null => cache[r.client].seqnum < r.seqnum

is_repeated(cache, r) == cache[r.client] # Null /\ cache[r.client].seqnum = r.seqnum
=============================================================================
