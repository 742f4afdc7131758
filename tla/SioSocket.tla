------------------------------ MODULE SioSocket ------------------------------
(***************************************************************************)
(* The socket of the namespace "/" of the socket.io client                 *)
(* (libs/socket.io/src/sio_socket.cpp), which every thread of the module   *)
(* emits through.  A packet goes to the client when the socket reads       *)
(* m_connected true, and into m_packet_queue otherwise; the packets of the *)
(* queue are taken along by the next emit that reads true, or by the       *)
(* network thread when the server's CONNECT arrives.  The flag and the     *)
(* pointer m_client are read and written without a lock, the queue under   *)
(* m_packet_mutex.                                                         *)
(*                                                                         *)
(* For "/" the socket sends no CONNECT and starts no timer.  Of the client *)
(* (internal/sio_client_impl.cpp) the module has what a packet meets:      *)
(* send() runs send_impl at once on the network thread and posts it from   *)
(* any other; send_impl drops what it finds no open connection for.        *)
(***************************************************************************)
EXTENDS Naturals, Sequences, FiniteSets, Functions

CONSTANTS
  Early,        \* the packet emitted by start(): REGISTRATION
  Late,         \* packets of the threads the brain's events create: ACTION_FINISHED
  NetPackets,   \* packets a handler emits on the network thread: the replies
  MaxLosses,    \* bound on lost connections
  MayClose,     \* may the server disconnect the namespace ?
  NoPacket

Packets == Early \cup Late \cup NetPackets

ASSUME SocketAssumption ==
  /\ Early \cap Late = {} /\ Early \cap NetPackets = {} /\ Late \cap NetPackets = {}
  /\ Cardinality(Early) = 1
  /\ MaxLosses \in Nat
  /\ MayClose \in BOOLEAN
  /\ NoPacket \notin Packets

VARIABLES
  m_client,        \* FALSE once the pointer is NULL
  m_connected,
  m_packet_queue,
  pc,              \* per packet: how far its emit is
  front,           \* per packet: the front_pack its emit has in hand
  net,             \* what the network thread does
  netFront,        \* the front_pack of on_connected
  posted,          \* send_impl calls waiting for the network thread
  opened,          \* m_con_state = con_opened
  wire,            \* packets given to the connection, oldest first
  lost,            \* packets dropped without a word
  begun,           \* packets in the order their emit began (history)
  losses,          \* connections lost so far
  fault            \* "none", "null client" once a member of NULL was called, or "exit"

socketVars == <<m_client, m_connected, m_packet_queue>>
emitVars == <<pc, front, begun>>
netVars == <<net, netFront, opened, losses>>
clientVars == <<posted, wire, lost>>
allSocketVars == <<socketVars, emitVars, netVars, clientVars, fault>>

SocketInit ==
  /\ m_client = TRUE
  /\ m_connected = FALSE
  /\ m_packet_queue = <<>>
  /\ pc = [p \in Packets |-> "none"]
  /\ front = [p \in Packets |-> NoPacket]
  /\ net = "idle"
  /\ netFront = NoPacket
  /\ posted = <<>>
  /\ opened = FALSE
  /\ wire = <<>>
  /\ lost = {}
  /\ begun = <<>>
  /\ losses = 0
  /\ fault = "none"

Running == fault = "none"

Busy(p) == pc[p] \notin {"none", "done"}

-----------------------------------------------------------------------------
\* client_impl::send and send_impl.

\* send_impl of one packet.
send_impl(p) ==
  IF opened THEN wire' = Append(wire, p) /\ UNCHANGED lost
            ELSE lost' = lost \cup {p} /\ UNCHANGED wire

\* Slip: post in place of dispatch.
SendPosts(sender, p) == posted' = Append(posted, p) /\ UNCHANGED <<wire, lost>>

\* dispatch: at once on the network thread, after what is posted from another one.
send(sender, p) ==
  IF sender \in NetPackets
  THEN send_impl(p) /\ UNCHANGED posted
  ELSE posted' = Append(posted, p) /\ UNCHANGED <<wire, lost>>

NetSendPosted ==
  /\ Running
  /\ net = "idle"
  /\ posted # <<>>
  /\ send_impl(Head(posted))
  /\ posted' = Tail(posted)
  /\ UNCHANGED <<socketVars, emitVars, netVars, fault>>

-----------------------------------------------------------------------------
(***************************************************************************)
(* emit and send_packet.  The brain sends the first event after it got     *)
(* REGISTRATION, and events are handled on a connected socket.  Emits may  *)
(* overlap: the socket does not rely on the mutex of CommunicationChannel. *)
(***************************************************************************)
MayEmit(p) ==
  /\ p \notin Early => Early \subseteq Range(wire)
  /\ p \in NetPackets => net = "idle" /\ opened /\ m_connected

\* The end of an emit, which lets the network thread go on if it was its own.
EmitDone(p) ==
  /\ pc' = [pc EXCEPT ![p] = "done"]
  /\ net' = IF p \in NetPackets THEN "idle" ELSE net

netRest == <<netFront, opened, losses>>

\* emit up to send_packet: a socket without a client drops the packet.
Emit(p) ==
  /\ Running
  /\ pc[p] = "none"
  /\ MayEmit(p)
  /\ begun' = Append(begun, p)
  /\ IF m_client
     THEN /\ pc' = [pc EXCEPT ![p] = "test"]
          /\ net' = IF p \in NetPackets THEN "handler" ELSE net
          /\ UNCHANGED lost
     ELSE /\ pc' = [pc EXCEPT ![p] = "done"]
          /\ lost' = lost \cup {p}
          /\ UNCHANGED net
  /\ UNCHANGED <<socketVars, front, netRest, posted, wire, fault>>

\* send_packet: NULL_GUARD, and the flag read without a lock.
TestConnected(p) ==
  /\ Running
  /\ pc[p] = "test"
  /\ IF m_client
     THEN /\ pc' = [pc EXCEPT ![p] = IF m_connected THEN "drain" ELSE "push"]
          /\ UNCHANGED <<net, lost>>
     ELSE EmitDone(p) /\ lost' = lost \cup {p}
  /\ UNCHANGED <<socketVars, front, begun, netRest, posted, wire, fault>>

\* Slip: the packet is copied and never popped.
TakeQueuedNoPop(p) ==
  /\ Running
  /\ pc[p] = "drain"
  /\ pc' = [pc EXCEPT ![p] = IF m_packet_queue = <<>> THEN "own" ELSE "front"]
  /\ front' = [front EXCEPT ![p] = IF m_packet_queue = <<>> THEN @ ELSE Head(m_packet_queue)]
  /\ UNCHANGED <<socketVars, begun, netVars, clientVars, fault>>

\* One turn of the loop under m_packet_mutex: take a packet, or leave.
TakeQueued(p) ==
  /\ Running
  /\ pc[p] = "drain"
  /\ IF m_packet_queue = <<>>
     THEN /\ pc' = [pc EXCEPT ![p] = "own"]
          /\ UNCHANGED <<front, m_packet_queue>>
     ELSE /\ pc' = [pc EXCEPT ![p] = "front"]
          /\ front' = [front EXCEPT ![p] = Head(m_packet_queue)]
          /\ m_packet_queue' = Tail(m_packet_queue)
  /\ UNCHANGED <<m_client, m_connected, begun, netVars, clientVars, fault>>

\* Slip: the loop is an if, one packet being taken along.
SendQueuedOnce(p) ==
  /\ Running
  /\ pc[p] = "front"
  /\ IF m_client
     THEN /\ send(p, front[p])
          /\ pc' = [pc EXCEPT ![p] = "own"]
          /\ front' = [front EXCEPT ![p] = NoPacket]
          /\ UNCHANGED fault
     ELSE fault' = "null client" /\ UNCHANGED <<clientVars, pc, front>>
  /\ UNCHANGED <<socketVars, begun, netVars>>

\* m_client->send without the mutex, the pointer being read again.
SendQueued(p) ==
  /\ Running
  /\ pc[p] = "front"
  /\ IF m_client
     THEN /\ send(p, front[p])
          /\ pc' = [pc EXCEPT ![p] = "drain"]
          /\ front' = [front EXCEPT ![p] = NoPacket]
          /\ UNCHANGED fault
     ELSE fault' = "null client" /\ UNCHANGED <<clientVars, pc, front>>
  /\ UNCHANGED <<socketVars, begun, netVars>>

SendOwn(p) ==
  /\ Running
  /\ pc[p] = "own"
  /\ IF m_client
     THEN send(p, p) /\ EmitDone(p) /\ UNCHANGED fault
     ELSE fault' = "null client" /\ UNCHANGED <<clientVars, pc, net>>
  /\ UNCHANGED <<socketVars, front, begun, netRest>>

PushPacket(p) ==
  /\ Running
  /\ pc[p] = "push"
  /\ m_packet_queue' = Append(m_packet_queue, p)
  /\ EmitDone(p)
  /\ UNCHANGED <<m_client, m_connected, front, begun, netRest, clientVars, fault>>

EmitStep(p) ==
  \/ TestConnected(p) \/ TakeQueued(p) \/ SendQueued(p) \/ SendOwn(p) \/ PushPacket(p)

-----------------------------------------------------------------------------
(***************************************************************************)
(* The network thread: one callback at a time.                             *)
(***************************************************************************)

\* client_impl::on_open up to its listener: on_open of this socket does nothing.
OnOpen ==
  /\ Running
  /\ net = "idle"
  /\ ~opened
  /\ opened' = TRUE
  /\ UNCHANGED <<socketVars, emitVars, net, netFront, losses, clientVars, fault>>

\* Slip: on_connected only sets the flag.
OnConnectedNoDrain ==
  /\ Running
  /\ net = "idle"
  /\ opened /\ m_client /\ ~m_connected
  /\ m_connected' = TRUE
  /\ UNCHANGED <<m_client, m_packet_queue, emitVars, netVars, clientVars, fault>>

\* CONNECT arrives: on_connected up to its loop.
OnConnected ==
  /\ Running
  /\ net = "idle"
  /\ opened /\ m_client /\ ~m_connected
  /\ m_connected' = TRUE
  /\ net' = "drain"
  /\ UNCHANGED <<m_client, m_packet_queue, emitVars, netRest, clientVars, fault>>

\* One turn of on_connected's loop under m_packet_mutex.
NetTakeQueued ==
  /\ Running
  /\ net = "drain"
  /\ IF m_packet_queue = <<>>
     THEN net' = "idle" /\ UNCHANGED <<netFront, m_packet_queue>>
     ELSE /\ net' = "front"
          /\ netFront' = Head(m_packet_queue)
          /\ m_packet_queue' = Tail(m_packet_queue)
  /\ UNCHANGED <<m_client, m_connected, emitVars, opened, losses, clientVars, fault>>

NetSendQueued ==
  /\ Running
  /\ net = "front"
  /\ send_impl(netFront)
  /\ net' = "drain"
  /\ netFront' = NoPacket
  /\ UNCHANGED <<socketVars, emitVars, opened, losses, posted, fault>>

\* The connection is lost: client_impl::on_close, and on_disconnect up to its lock.
OnDisconnect ==
  /\ Running
  /\ net = "idle"
  /\ opened
  /\ losses < MaxLosses
  /\ losses' = losses + 1
  /\ opened' = FALSE
  /\ m_connected' = FALSE
  /\ net' = IF m_client /\ m_connected THEN "clear" ELSE "idle"
  /\ UNCHANGED <<m_client, m_packet_queue, emitVars, netFront, clientVars, fault>>

\* DISCONNECT arrives: on_close up to the flag; m_client is NULL from here on.
OnClose ==
  /\ Running
  /\ MayClose
  /\ net = "idle"
  /\ opened /\ m_client
  /\ m_client' = FALSE
  /\ net' = "unflag"
  /\ UNCHANGED <<m_connected, m_packet_queue, emitVars, netRest, clientVars, fault>>

ClearFlag ==
  /\ Running
  /\ net = "unflag"
  /\ m_connected' = FALSE
  /\ net' = "clear"
  /\ UNCHANGED <<m_client, m_packet_queue, emitVars, netRest, clientVars, fault>>

\* Under m_packet_mutex: what waited for the connection is dropped.
ClearQueue ==
  /\ Running
  /\ net = "clear"
  /\ lost' = lost \cup Range(m_packet_queue)
  /\ m_packet_queue' = <<>>
  /\ net' = "idle"
  /\ UNCHANGED <<m_client, m_connected, emitVars, netRest, posted, wire, fault>>

\* What the network thread does by itself, and the server's CONNECT that it waits for.
SocketNetStep ==
  \/ NetSendPosted \/ OnConnected \/ NetTakeQueued \/ NetSendQueued
  \/ ClearFlag \/ ClearQueue

SocketQuiescent == net = "idle" /\ posted = <<>> /\ \A p \in Packets : ~Busy(p)

-----------------------------------------------------------------------------
\* Properties.

\* The values of the socket's variables.
SocketTypeOK ==
  /\ m_client \in BOOLEAN
  /\ m_connected \in BOOLEAN
  /\ m_packet_queue \in Seq(Packets)
  /\ pc \in [Packets -> {"none", "test", "drain", "front", "own", "push", "done"}]
  /\ front \in [Packets -> Packets \cup {NoPacket}]
  /\ \A p \in Packets : pc[p] = "front" => front[p] \in Packets
  /\ net \in {"idle", "handler", "drain", "front", "unflag", "clear"}
  /\ netFront \in Packets \cup {NoPacket}
  /\ net = "front" => netFront \in Packets
  /\ posted \in Seq(Packets)
  /\ opened \in BOOLEAN
  /\ wire \in Seq(Packets)
  /\ lost \subseteq Packets
  /\ begun \in Seq(Packets)
  /\ losses \in 0 .. MaxLosses
  /\ fault \in {"none", "null client", "exit"}

Occurrences(p, s) == Cardinality({i \in DOMAIN s : s[i] = p})

\* The places where a packet may be, with a count of it in each.
Places(p) ==
  (IF pc[p] \in {"none", "done"} THEN 0 ELSE 1)
  + Occurrences(p, m_packet_queue) + Occurrences(p, posted) + Occurrences(p, wire)
  + Cardinality({q \in Packets : front[q] = p})
  + (IF netFront = p THEN 1 ELSE 0)
  + (IF p \in lost THEN 1 ELSE 0)

(***************************************************************************)
(* However many threads take packets from the queue, and whatever happens  *)
(* to the connection, a packet whose emit has begun is in exactly one      *)
(* place: none is sent twice, none disappears except where it is dropped.  *)
(***************************************************************************)
EachPacketOnce == \A p \in Packets : Places(p) = IF pc[p] = "none" THEN 0 ELSE 1

Before(p, q, s) == \E i, k \in DOMAIN s : s[i] = p /\ s[k] = q /\ i < k

(***************************************************************************)
(* A reply emitted by a handler is on the wire before any packet whose     *)
(* emit began later, even if the connection is lost and opened again: this *)
(* carries the order that CommunicationChannel's mutex gives (ACCEPTED     *)
(* before ACTION_FINISHED) through to the server.                          *)
(***************************************************************************)
RepliesFirst ==
  \A p \in NetPackets, q \in Packets :
    Before(p, q, begun) /\ p \in Range(wire) => ~Before(q, p, wire)

Settled(p) == p \in Range(wire) \cup lost \/ ~Running

(***************************************************************************)
(* What waits in the queue of an open socket that is not connected leaves  *)
(* it when CONNECT arrives, or is dropped with the queue, however pushes,  *)
(* drains and lost connections interleave.                                 *)
(***************************************************************************)
QueuedIsDrained ==
  \A p \in Packets :
    (p \in Range(m_packet_queue) /\ ~m_connected /\ m_client) ~> Settled(p)

(***************************************************************************)
(* An emit that reads m_connected true takes along everything that was     *)
(* left in the queue before it, whatever other threads take and push.      *)
(***************************************************************************)
TakenAlong ==
  \A p \in Packets :
    (p \in Range(m_packet_queue) /\ \E q \in Packets : pc[q] = "drain") ~> Settled(p)

(***************************************************************************)
(* API.md says the socket open listener is called when the socket is ready *)
(* to send: once it is, what was emitted is sent or dropped.               *)
(***************************************************************************)
ReadySocketSends ==
  \A p \in Packets : (m_connected /\ pc[p] = "done") ~> Settled(p)

-----------------------------------------------------------------------------
(***************************************************************************)
(* The parts of the inductive invariants that the proofs use.              *)
(***************************************************************************)

\* The handler of a reply has the network thread to itself.
HandlerAlone ==
  /\ \A p \in NetPackets : Busy(p) => net = "handler"
  /\ \A p, q \in NetPackets : Busy(p) /\ Busy(q) => p = q

\* A thread has a front_pack only from taking it until sending it.
FrontInv ==
  /\ \A p \in Packets :
       /\ pc[p] # "front" => front[p] = NoPacket
       /\ IsFiniteSet({q \in Packets : front[q] = p})
  /\ net # "front" => netFront = NoPacket

OnceInv == FrontInv /\ EachPacketOnce

\* begun lists each packet whose emit has begun, once.
BegunInv ==
  /\ \A p \in Packets : p \in Range(begun) <=> pc[p] # "none"
  /\ \A i, k \in DOMAIN begun : begun[i] = begun[k] => i = k

\* Where a packet is that some thread may yet send, or that is sent.
Taken(p) ==
  \/ p \in Range(m_packet_queue) \cup Range(wire)
  \/ pc[p] = "push"
  \/ \E q \in Packets : front[q] = p
  \/ netFront = p

\* A reply goes from its handler to the wire, on a socket that stays connected.
ReplyDirect ==
  /\ \A p \in NetPackets : Busy(p) => m_connected
  /\ \A p \in NetPackets : p \in Range(wire) \/ (p \notin Range(posted) /\ ~Taken(p))

\* What began after a reply is not on its way to the wire before the reply is.
AfterReply ==
  \A p \in NetPackets, q \in Packets :
    Busy(p) /\ Before(p, q, begun) => ~Taken(q)

ReplyInv == BegunInv /\ ReplyDirect /\ AfterReply /\ RepliesFirst
=============================================================================
