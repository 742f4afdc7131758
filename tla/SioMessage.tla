---------------------------- MODULE SioMessage ----------------------------
(***************************************************************************)
(* Messages of socket.io and their JSON values                             *)
(* (libs/socket.io/src/internal/sio_packet.cpp): accept_message, which     *)
(* takes the binary data out of a message, and from_json, which puts it    *)
(* back.  Both are trees; a leaf is a message without parts.               *)
(***************************************************************************)
EXTENDS Integers, Sequences, SequencesExt

Null == [kind |-> "none"]
Leaf(value) == [kind |-> "leaf", leaf |-> value]
Number(n) == [kind |-> "int", num |-> n]
Binary(data) == [kind |-> "binary", data |-> data]
Array(items) == [kind |-> "array", items |-> items]
Object(members) == [kind |-> "object", members |-> members]

\* Binary data is written as an object of two members that stands in its place.
PlaceHolder(n) == Object(<< <<"_placeholder", Leaf("true")>>, <<"num", Number(n)>> >>)

\* The JSON value of a message, and the parts that follow the n found before it.
RECURSIVE accept_message(_, _)
accept_message(msg, n) ==
  LET Next(acc, m) ==
        LET r == accept_message(m, n + Len(acc.parts))
        IN [vals |-> Append(acc.vals, r.val), parts |-> acc.parts \o r.parts]
      All(msgs) == FoldLeft(Next, [vals |-> <<>>, parts |-> <<>>], msgs)
  IN CASE msg.kind = "binary" -> [val |-> PlaceHolder(n), parts |-> <<msg.data>>]
       [] msg.kind = "array"  -> LET a == All(msg.items)
                                 IN [val |-> Array(a.vals), parts |-> a.parts]
       [] msg.kind = "object" ->
            LET names == [i \in DOMAIN msg.members |-> msg.members[i][1]]
                a == All([i \in DOMAIN msg.members |-> msg.members[i][2]])
            IN [val |-> Object([i \in DOMAIN names |-> <<names[i], a.vals[i]>>]),
                parts |-> a.parts]
       [] OTHER -> [val |-> msg, parts |-> <<>>]

\* The message of a packet: no part comes before those of its message.
accept_root(msg) == accept_message(msg, 0)

Member(val, name) == SelectSeq(val.members, LAMBDA m : m[1] = name)

\* An object that says it is a placeholder is one, whoever wrote it.
RECURSIVE from_json(_, _)
from_json(val, buffers) ==
  CASE val.kind = "array" ->
         Array([i \in DOMAIN val.items |-> from_json(val.items[i], buffers)])
    [] val.kind = "object" /\ Member(val, "_placeholder") # <<>> ->
         LET num == Member(val, "num")[1][2].num
         IN IF num \in 0 .. Len(buffers) - 1 THEN Binary(buffers[num + 1]) ELSE Null
    [] val.kind = "object" ->
         Object([i \in DOMAIN val.members |->
                   <<val.members[i][1], from_json(val.members[i][2], buffers)>>])
    [] OTHER -> val
=============================================================================
