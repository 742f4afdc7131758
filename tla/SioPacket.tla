----------------------------- MODULE SioPacket -----------------------------
(***************************************************************************)
(* The packets of socket.io (libs/socket.io/src/internal/sio_packet.cpp):  *)
(* how packet_manager::encode turns a packet into a text and the binary    *)
(* parts of its message, and put_payload makes packets of payloads.        *)
(*                                                                         *)
(* A payload is a sequence of tokens: a character or a number of the       *)
(* protocol, the name of a namespace, a JSON value, or raw data.  What     *)
(* accept_message and from_json make of a message is a parameter; it is    *)
(* SioMessage in the runs.  The peer that is not this program, and the     *)
(* connection between the two, are external: it is taken to encode and     *)
(* to decode as this code does.                                            *)
(***************************************************************************)
EXTENDS Integers, Sequences, FiniteSetsExt, Functions

CONSTANTS
  Emitters,        \* threads that encode
  Sendable,        \* for each of them, the packets it may encode, each once
  MaxLosses,       \* bound on connections lost
  NoMessage,       \* the null pointer to a message
  AcceptMessage(_),  \* the JSON value of a message, and the parts taken out of it
  FromJson(_, _)     \* the message of a JSON value and of the parts for it

VARIABLES
  emitted,           \* per emitter, the packets it has begun to encode  (history)
  encoding,          \* per emitter, the payload of the last that it hands over next, 0 if none
  open,              \* is the connection open ?
  wire,              \* payloads on their way: the k-th of the i-th packet of e is <<e, i, k>>
  m_partial_packet,  \* the packet that waits for binary parts
  decoded,           \* packets given to m_decode_callback  (history)
  losses

vars == <<emitted, encoding, open, wire, m_partial_packet, decoded, losses>>

Token(kind, value) == [is |-> kind, val |-> value]

-----------------------------------------------------------------------------
(***************************************************************************)
(* Packets.                                                                *)
(***************************************************************************)
NoId == -1
HasParts == {"binary_event", "binary_ack"}

Packet(frame, type, nsp, id, message) ==
  [frame |-> frame, type |-> type, nsp |-> nsp, id |-> id, message |-> message,
   buffers |-> <<>>, pending |-> 0]

BinaryType(type) == CASE type = "event" -> "binary_event"
                      [] type = "ack"   -> "binary_ack"
                      [] OTHER          -> type

\* The parts of a packet's message.
Parts(p) == IF p.frame = "4" THEN AcceptMessage(p.message).parts ELSE <<>>

\* The text of a message packet.
accept(p) ==
  LET parts == Parts(p)
      type == IF parts = <<>> THEN p.type ELSE BinaryType(p.type)
      comma == p.message # NoMessage \/ p.id # NoId
  IN <<Token("4", ""), Token("type", type)>>
     \o (IF parts = <<>> THEN <<>> ELSE <<Token("count", Len(parts)), Token("-", "")>>)
     \o (IF p.nsp = "/" THEN <<>> ELSE <<Token("nsp", p.nsp)>>)
     \o (IF p.nsp # "/" /\ comma THEN <<Token("comma", "")>> ELSE <<>>)
     \o (IF p.id = NoId THEN <<>> ELSE <<Token("id", p.id)>>)
     \o (IF p.message = NoMessage THEN <<>>
         ELSE <<Token("json", AcceptMessage(p.message).val)>>)

\* What encode hands over, in its order: the text, and the parts.
Text(p) == IF p.frame = "4" THEN accept(p) ELSE <<Token(p.frame, "")>>
Part(data) == <<Token("0x04", ""), Token("data", data)>>

Payload(p, k) == IF k = 1 THEN Text(p) ELSE Part(Parts(p)[k - 1])
PayloadCount(p) == 1 + Len(Parts(p))

is_text_message(payload) == payload[1].is = "4"
is_binary_message(payload) == payload[1].is = "0x04"

\* The first place from pos on that holds one of these tokens, 0 if none does.
FindFirstOf(payload, kinds, pos) ==
  LET at == {i \in pos .. Len(payload) : payload[i].is \in kinds}
  IN IF at = {} THEN 0 ELSE Min(at)

\* The packet that parse makes of a text; it waits for parts if it has a buffer.
parse(payload) ==
  LET type   == IF is_text_message(payload) THEN payload[2].val ELSE "undetermined"
      binary == type \in HasParts
      first  == CASE ~is_text_message(payload) -> 2 [] binary -> 5 [] OTHER -> 3
      at     == FindFirstOf(payload, {"json", "nsp"}, first)
      named  == at # 0 /\ payload[at].is = "nsp"
      comma  == FindFirstOf(payload, {"comma"}, 1)
      pos    == IF named THEN comma + 1 ELSE first
      json   == IF named /\ comma = 0 THEN 0 ELSE FindFirstOf(payload, {"json"}, pos)
      bare   == [Packet(payload[1].is, type, IF named THEN payload[at].val ELSE "/", NoId, NoMessage)
                   EXCEPT !.pending = IF binary THEN payload[3].val ELSE 0]
      numbered == [bare EXCEPT !.id = IF pos < json THEN payload[pos].val ELSE NoId]
  IN IF json = 0 THEN bare
     ELSE IF binary THEN [numbered EXCEPT !.buffers = <<payload[json].val>>]
     ELSE [numbered EXCEPT !.message = FromJson(payload[json].val, <<>>)]

\* A slip: one part too many is waited for.
ParseBufferLate(p, data) ==
  LET q == [p EXCEPT !.buffers = Append(@, data), !.pending = @ - 1]
  IN IF q.pending >= 0 THEN q
     ELSE [q EXCEPT !.message = FromJson(Head(q.buffers), Tail(q.buffers)), !.buffers = <<>>]

\* parse_buffer: the packet with one part more, whole when none is pending.
parse_buffer(p, data) ==
  LET q == [p EXCEPT !.buffers = Append(@, data), !.pending = @ - 1]
  IN IF q.pending > 0 THEN q
     ELSE [q EXCEPT !.message = FromJson(Head(q.buffers), Tail(q.buffers)), !.buffers = <<>>]

(***************************************************************************)
(* The packets that client and socket encode.  A frame that is no message  *)
(* is bare; only events and acks have parts, and only with a message is    *)
(* there an id, and a message is an array, in whose JSON parse finds a     *)
(* bracket.  from_json undoes accept_message on what is sent.              *)
(***************************************************************************)
Encodable(p) ==
  /\ p = Packet(p.frame, p.type, p.nsp, p.id, p.message)
  /\ p.frame # "0x04"
  /\ p.frame # "4" => p = Packet(p.frame, "undetermined", "/", NoId, NoMessage)
  /\ p.frame = "4" => p.type \in {"connect", "disconnect", "event", "ack", "error"}
  /\ p.id # NoId => p.message # NoMessage
  /\ LET acc == AcceptMessage(p.message)
     IN /\ acc.parts \in Seq(Range(acc.parts))
        /\ acc.parts # <<>> => p.message # NoMessage /\ p.type \in {"event", "ack"}
        /\ p.message # NoMessage => FromJson(acc.val, acc.parts) = p.message

ASSUME PacketAssumption ==
  /\ MaxLosses \in Nat
  /\ DOMAIN Sendable = Emitters
  /\ \A e \in Emitters : \A p \in Sendable[e] : Encodable(p)
  /\ \A e, f \in Emitters : e # f => Sendable[e] \cap Sendable[f] = {}

-----------------------------------------------------------------------------
(***************************************************************************)
(* Encoding, on the threads that emit.                                     *)
(***************************************************************************)
NoPacket == Packet("none", "none", "/", NoId, NoMessage)

Init ==
  /\ emitted = [e \in Emitters |-> <<>>]
  /\ encoding = [e \in Emitters |-> 0]
  /\ open = TRUE
  /\ wire = <<>>
  /\ m_partial_packet = NoPacket
  /\ decoded = <<>>
  /\ losses = 0

Encode(e, p) ==
  /\ encoding[e] = 0
  /\ p \notin Range(emitted[e])
  /\ emitted' = [emitted EXCEPT ![e] = Append(@, p)]
  /\ encoding' = [encoding EXCEPT ![e] = 1]
  /\ UNCHANGED <<open, wire, m_partial_packet, decoded, losses>>

\* The packet of a payload.
Source(x) == emitted[x[1]][x[2]]

\* The payload that e hands over next, and the one after it in the same packet.
NextOut(e) == <<e, Len(emitted[e]), encoding[e]>>
After(x) == IF x[3] = PayloadCount(Source(x)) THEN 0 ELSE x[3] + 1

\* A slip: a payload goes ahead of those that wait to be sent.
HandOverAhead(e) ==
  /\ encoding[e] # 0
  /\ encoding' = [encoding EXCEPT ![e] = After(NextOut(e))]
  /\ wire' = IF open THEN <<NextOut(e)>> \o wire ELSE wire
  /\ UNCHANGED <<emitted, open, m_partial_packet, decoded, losses>>

\* The encode callback, once per payload: no lock is held from one to the next.
HandOver(e) ==
  /\ encoding[e] # 0
  /\ encoding' = [encoding EXCEPT ![e] = After(NextOut(e))]
  /\ wire' = IF open THEN Append(wire, NextOut(e)) ELSE wire
  /\ UNCHANGED <<emitted, open, m_partial_packet, decoded, losses>>

-----------------------------------------------------------------------------
(***************************************************************************)
(* Decoding, on the network thread.                                        *)
(***************************************************************************)
Receive ==
  /\ wire # <<>>
  /\ wire' = Tail(wire)
  /\ UNCHANGED <<emitted, encoding, open, losses>>

Received == Payload(Source(Head(wire)), Head(wire)[3])

Decode(p) == decoded' = Append(decoded, [p EXCEPT !.pending = 0])

\* A slip: any text ends the wait for binary parts.
PutTextForgets ==
  /\ Receive
  /\ ~is_binary_message(Received)
  /\ LET p == parse(Received)
     IN IF p.buffers # <<>>
        THEN m_partial_packet' = p /\ UNCHANGED decoded
        ELSE m_partial_packet' = NoPacket /\ Decode(p)

\* put_payload of a text, or of a frame that is not a message.
PutText ==
  /\ Receive
  /\ ~is_binary_message(Received)
  /\ LET p == parse(Received)
     IN IF p.buffers # <<>>
        THEN m_partial_packet' = p /\ UNCHANGED decoded
        ELSE Decode(p) /\ UNCHANGED m_partial_packet

\* put_payload of a binary part; it is dropped if no packet waits for it.
PutBinary ==
  /\ Receive
  /\ is_binary_message(Received)
  /\ IF m_partial_packet = NoPacket
     THEN UNCHANGED <<m_partial_packet, decoded>>
     ELSE LET p == parse_buffer(m_partial_packet, Received[2].val)
          IN IF p.buffers # <<>>
             THEN m_partial_packet' = p /\ UNCHANGED decoded
             ELSE m_partial_packet' = NoPacket /\ Decode(p)

put_payload == PutText \/ PutBinary

-----------------------------------------------------------------------------
(***************************************************************************)
(* The connection.                                                         *)
(***************************************************************************)
Lose ==
  /\ open
  /\ losses < MaxLosses
  /\ losses' = losses + 1
  /\ open' = FALSE
  /\ wire' = <<>>
  /\ UNCHANGED <<emitted, encoding, m_partial_packet, decoded>>

\* A slip: the new connection finds the packet of the old one.
ResetKeepsPartial ==
  /\ ~open
  /\ open' = TRUE
  /\ UNCHANGED <<emitted, encoding, wire, m_partial_packet, decoded, losses>>

\* reset_states, before the next connection is made.
Reset ==
  /\ ~open
  /\ open' = TRUE
  /\ m_partial_packet' = NoPacket
  /\ UNCHANGED <<emitted, encoding, wire, decoded, losses>>

\* Everything has been encoded and decoded.
Finished ==
  /\ \A e \in Emitters : encoding[e] = 0 /\ Range(emitted[e]) = Sendable[e]
  /\ wire = <<>> /\ open

Next ==
  \/ \E e \in Emitters : HandOver(e) \/ \E p \in Sendable[e] : Encode(e, p)
  \/ put_payload
  \/ Lose \/ Reset
  \/ Finished /\ UNCHANGED vars

Spec == Init /\ [][Next]_vars

-----------------------------------------------------------------------------
\* Properties.

TypeOK ==
  /\ DOMAIN emitted = Emitters
  /\ \A e \in Emitters : emitted[e] \in Seq(Sendable[e])
  /\ encoding \in [Emitters -> Nat]
  /\ wire \in Seq(Emitters \X Nat \X Nat)
  /\ open \in BOOLEAN
  /\ losses \in 0 .. MaxLosses
  /\ m_partial_packet # NoPacket =>
       m_partial_packet.type \in HasParts /\ m_partial_packet.pending > 0

\* Does q, which was decoded, say what p, which was emitted, says ?
Says(q, p) == q = p \/ q = [p EXCEPT !.type = BinaryType(p.type)]

(***************************************************************************)
(* What put_payload makes is what some encode was given: every member of a *)
(* message, the namespace, the id, and each part in its place.  Parts of   *)
(* two packets are never put together, whichever payloads a lost           *)
(* connection took away and whatever texts come between the parts.         *)
(***************************************************************************)
DecodedWasEmitted ==
  \A i \in DOMAIN decoded :
    \E e \in Emitters : \E p \in Range(emitted[e]) : Says(decoded[i], p)

(***************************************************************************)
(* The packets of one emitter are decoded in the order in which it encoded *)
(* them, and none of them twice, although packets without parts go around  *)
(* one that waits for its parts.                                           *)
(***************************************************************************)
DecodedInOrder ==
  \A e \in Emitters : \A i, j \in DOMAIN decoded : \A k, l \in DOMAIN emitted[e] :
    i < j /\ Says(decoded[i], emitted[e][k]) /\ Says(decoded[j], emitted[e][l]) => k < l

(***************************************************************************)
(* While no connection was lost, nothing is: when all payloads are handed  *)
(* over and taken, every packet that was encoded has been decoded.         *)
(***************************************************************************)
NothingMissing ==
  losses = 0 /\ wire = <<>> /\ (\A e \in Emitters : encoding[e] = 0) =>
    \A e \in Emitters : \A k \in DOMAIN emitted[e] :
      \E i \in DOMAIN decoded : Says(decoded[i], emitted[e][k])

-----------------------------------------------------------------------------
(***************************************************************************)
(* What the proofs are about.  Two threads that send parts would mix them. *)
(***************************************************************************)
OneSendsParts ==
  \A e, f \in Emitters : \A p \in Sendable[e], q \in Sendable[f] :
    Parts(p) # <<>> /\ Parts(q) # <<>> => e = f

\* The payloads of the packets emitted.
Payloads ==
  UNION {UNION {{<<e, i, k>> : k \in 1 .. PayloadCount(emitted[e][i])} :
                  i \in DOMAIN emitted[e]} : e \in Emitters}

\* x was, or will be, handed over before y by the same thread.
Earlier(x, y) == x[1] = y[1] /\ (x[2] < y[2] \/ (x[2] = y[2] /\ x[3] < y[3]))

\* x is handed over and not taken, or will be handed over next.
Coming(x) == x \in Range(wire) \/ (encoding[x[1]] # 0 /\ x = NextOut(x[1]))

\* All that comes of x's thread comes after x.
Gone(x) == \A y \in Payloads : y[1] = x[1] /\ Coming(y) => Earlier(x, y)

Succ(x) == <<x[1], x[2], x[3] + 1>>

\* p when its text and the first k - 1 parts are there.
Partial(p, k) ==
  [Packet("4", BinaryType(p.type), p.nsp, p.id, NoMessage) EXCEPT
     !.buffers = <<AcceptMessage(p.message).val>> \o SubSeq(Parts(p), 1, k - 1),
     !.pending = Len(Parts(p)) - (k - 1)]

\* m_partial_packet has x and waits for what comes after x.
Waits(x) ==
  /\ x[3] < PayloadCount(Source(x))
  /\ m_partial_packet = Partial(Source(x), x[3])
  /\ Gone(x)
  /\ open => Coming(Succ(x))

\* Payloads come in the order of their encoding, and without gaps.
WireInv ==
  /\ ~open => wire = <<>>
  /\ Range(wire) \subseteq Payloads
  /\ \A e \in Emitters : encoding[e] # 0 => NextOut(e) \in Payloads
  /\ \A i, j \in DOMAIN wire :
       i < j /\ wire[i][1] = wire[j][1] => Earlier(wire[i], wire[j])
  /\ \A x \in Range(wire) : encoding[x[1]] # 0 => Earlier(x, NextOut(x[1]))
  /\ \A x \in Range(wire) : x[3] < PayloadCount(Source(x)) => Coming(Succ(x))

PartialInv == m_partial_packet = NoPacket \/ \E x \in Payloads : Waits(x)

\* Each packet that was decoded has nothing left on its way.
DecodedInv ==
  \A j \in DOMAIN decoded : \E x \in Payloads :
    x[3] = PayloadCount(Source(x)) /\ Says(decoded[j], Source(x)) /\ Gone(x)

\* Without a loss no part comes alone, and what is not decoded has its end to come.
NoLossInv ==
  losses = 0 =>
    /\ open
    /\ \A y \in Payloads : Coming(y) /\ y[3] > 1 =>
         \E x \in Payloads : y = Succ(x) /\ (Coming(x) \/ Waits(x))
    /\ \A e \in Emitters : \A k \in DOMAIN emitted[e] :
         \/ \E i \in DOMAIN decoded : Says(decoded[i], emitted[e][k])
         \/ \E x \in Payloads : x[1] = e /\ x[2] = k /\ Coming(x)

EmittedInv ==
  \A e \in Emitters :
    \A i, j \in DOMAIN emitted[e] : emitted[e][i] = emitted[e][j] => i = j
=============================================================================
