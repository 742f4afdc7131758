---------------------------- MODULE SioNamespace ----------------------------
(***************************************************************************)
(* A socket of a namespace other than "/" (libs/socket.io/src/             *)
(* sio_socket.cpp): how it is opened, closed and given up, and the         *)
(* callbacks of acknowledged emits.  The socket has one timer, that waits  *)
(* 20 s for the server's CONNECT and, once close() is called, 3 s for its  *)
(* DISCONNECT.  close() and emit() run on the user's threads, the rest on  *)
(* the network thread, which takes the handlers of ready one at a time.    *)
(*                                                                         *)
(* A wait that is cancelled is not undone: its handler becomes ready, with *)
(* an error code that timeout_connection looks at, and that the wait of    *)
(* close(), bound to on_close itself, does not.  How packets get to the    *)
(* server is left to SioSocket; the server is external.  The user keeps    *)
(* its pointer to the socket, so that no handler meets a deleted one.      *)
(***************************************************************************)
EXTENDS Naturals, Sequences, FiniteSets, SequencesExt

CONSTANTS
  Emitters,   \* threads that each emit one packet with an acknowledgement
  MaxLosses,  \* bound on lost connections
  MaxCalls    \* bound on calls of close() and of emit() together

ASSUME NamespaceAssumption ==
  IsFiniteSet(Emitters) /\ MaxLosses \in Nat /\ MaxCalls \in Nat

VARIABLES
  m_client,           \* FALSE once the pointer is NULL
  m_connected,
  timer,              \* m_connection_timer: "null", "idle", or what it waits for
  ready,              \* what the network thread has to do, oldest first
  closer,             \* where a call of close() is
  link,               \* "up", or "down" from a loss to the next connection
  owed,               \* CONNECT packets the server has not answered
  joined,             \* has the server the client in the namespace ?
  emitPc, emitId,     \* per emitter: where its emit is, its pack_id
  s_global_event_id,
  m_acks,             \* <<pack_id, emitter whose callback it is>>
  unacked,            \* packets the server may acknowledge, by their emitter
  fault               \* "none", or the NULL pointer that was used

\* History.
VARIABLES
  closed,      \* calls of the client's socket close listener
  asked,       \* has close() armed the timer ?
  late,        \* has a wait for CONNECT run out ?
  overlapped,  \* have two threads been in s_global_event_id++ at once ?
  called,      \* <<callback, packet whose ack called it>>
  losses, closes

socketVars == <<m_client, m_connected, timer, ready, closed>>
serverVars == <<link, owed, joined, losses>>
closeVars == <<closer, closes, asked>>
ackVars == <<emitPc, emitId, s_global_event_id, m_acks, unacked, overlapped, called>>
vars == <<socketVars, serverVars, closeVars, ackVars, late, fault>>

Running == fault = "none"

MoreCalls == closes + Cardinality({e \in Emitters : emitPc[e] # "none"}) < MaxCalls

Ack(e) == <<"ack", e, emitId[e]>>

\* The handler of a wait that is cancelled.
Cancelled ==
  CASE timer = "connect" -> << <<"timeout_aborted">> >>
    [] timer = "close" -> << <<"closed_aborted">> >>
    [] OTHER -> <<>>

(***************************************************************************)
(* socket() was called while the client was open, or before it was; or     *)
(* when on_open had set m_con_state and not yet looked for the sockets, so *)
(* that both the constructor and on_open send a CONNECT.                   *)
(***************************************************************************)
Init ==
  /\ m_client = TRUE
  /\ m_connected = FALSE
  /\ \/ timer = "connect" /\ owed = 1 /\ ready = <<>>
     \/ timer = "null" /\ owed = 0 /\ ready = << <<"open">> >>
     \/ timer = "connect" /\ owed = 1 /\ ready = << <<"open">> >>
  /\ closer = "idle"
  /\ link = "up"
  /\ joined = FALSE
  /\ emitPc = [e \in Emitters |-> "none"]
  /\ emitId = [e \in Emitters |-> 0]
  /\ s_global_event_id = 1
  /\ m_acks = {}
  /\ unacked = {}
  /\ fault = "none"
  /\ closed = 0
  /\ asked = FALSE
  /\ late = FALSE
  /\ overlapped = FALSE
  /\ called = {}
  /\ losses = 0
  /\ closes = 0

-----------------------------------------------------------------------------
\* The network thread.

Handles(h) == Running /\ ready # <<>> /\ Head(ready)[1] = h

\* Slip: on_close does not forget its client.
CloseSocketKeepsClient(rest) ==
  /\ m_connected' = FALSE
  /\ timer' = "null"
  /\ ready' = rest \o Cancelled
  /\ closed' = closed + 1
  /\ UNCHANGED m_client

\* on_close past its guard; rest is what was ready behind the handler.
CloseSocket(rest) ==
  /\ m_client' = FALSE
  /\ m_connected' = FALSE
  /\ timer' = "null"
  /\ ready' = rest \o Cancelled
  /\ closed' = closed + 1

\* Slip: send_connect starts no timer.
SendConnectUntimed(rest) ==
  /\ timer' = "null"
  /\ ready' = rest \o Cancelled
  /\ owed' = IF link = "up" THEN owed + 1 ELSE owed

\* send_connect: a new timer takes the place of the one there is.  Without a connection
\* the packet is dropped.
SendConnect(rest) ==
  /\ timer' = "connect"
  /\ ready' = rest \o Cancelled
  /\ owed' = IF link = "up" THEN owed + 1 ELSE owed

Nothing(rest) == ready' = rest /\ UNCHANGED <<m_client, m_connected, timer, closed>>

\* client_impl::on_open, for a socket the client still has.
OnOpen ==
  /\ Handles("open")
  /\ IF m_client
     THEN SendConnect(Tail(ready)) /\ UNCHANGED <<m_client, m_connected, closed>>
     ELSE Nothing(Tail(ready)) /\ UNCHANGED owed
  /\ UNCHANGED <<link, joined, losses, closeVars, ackVars, late, fault>>

\* client_impl::on_close: on_disconnect.
OnDisconnect ==
  /\ Handles("lost")
  /\ m_connected' = FALSE
  /\ ready' = Tail(ready)
  /\ UNCHANGED <<m_client, timer, closed, serverVars, closeVars, ackVars, late, fault>>

\* on_message_packet with CONNECT: on_connected.
OnConnected ==
  /\ Handles("CONNECT")
  /\ IF m_client
     THEN /\ m_connected' = TRUE
          /\ timer' = "null"
          /\ ready' = Tail(ready) \o Cancelled
          /\ UNCHANGED <<m_client, closed>>
     ELSE Nothing(Tail(ready))
  /\ UNCHANGED <<serverVars, closeVars, ackVars, late, fault>>

\* on_message_packet with DISCONNECT.
OnMessageDisconnect ==
  /\ Handles("DISCONNECT")
  /\ IF m_client THEN CloseSocket(Tail(ready)) ELSE Nothing(Tail(ready))
  /\ UNCHANGED <<serverVars, closeVars, ackVars, late, fault>>

\* Slip: the error code is not looked at.
TimeoutIgnoresCode ==
  /\ Handles("timeout") \/ Handles("timeout_aborted")
  /\ IF m_client THEN CloseSocket(Tail(ready)) ELSE Nothing(Tail(ready))
  /\ UNCHANGED <<serverVars, closeVars, ackVars, late, fault>>

\* timeout_connection; a wait that began meanwhile is cancelled with the timer.
TimeoutConnection ==
  /\ Handles("timeout") \/ Handles("timeout_aborted")
  /\ IF m_client /\ Handles("timeout") THEN CloseSocket(Tail(ready)) ELSE Nothing(Tail(ready))
  /\ UNCHANGED <<serverVars, closeVars, ackVars, late, fault>>

\* Slip: on_close is not run for a wait of close() that was cancelled.
TimeoutCloseIfDue ==
  /\ Handles("closed") \/ Handles("closed_aborted")
  /\ IF m_client /\ Handles("closed") THEN CloseSocket(Tail(ready)) ELSE Nothing(Tail(ready))
  /\ UNCHANGED <<serverVars, closeVars, ackVars, late, fault>>

\* on_close as the handler of close()'s wait, due or cancelled.
TimeoutClose ==
  /\ Handles("closed") \/ Handles("closed_aborted")
  /\ IF m_client THEN CloseSocket(Tail(ready)) ELSE Nothing(Tail(ready))
  /\ UNCHANGED <<serverVars, closeVars, ackVars, late, fault>>

\* on_socketio_ack: the callback of the id is taken out of m_acks and called.
OnSocketioAck ==
  /\ Handles("ack")
  /\ ready' = Tail(ready)
  /\ LET packet == Head(ready)[2]
         found == {a \in m_acks : m_client /\ a[1] = Head(ready)[3]}
     IN  /\ m_acks' = m_acks \ found
         /\ called' = called \cup {<<a[2], packet>> : a \in found}
  /\ UNCHANGED <<m_client, m_connected, timer, closed, emitPc, emitId, s_global_event_id, unacked,
                 overlapped, serverVars, closeVars, late, fault>>

NetStep ==
  \/ OnOpen \/ OnDisconnect \/ OnConnected \/ OnMessageDisconnect
  \/ TimeoutConnection \/ TimeoutClose \/ OnSocketioAck

\* The time of the wait is over.
TimerExpires ==
  /\ Running
  /\ timer \in {"connect", "close"}
  /\ ready' = Append(ready, IF timer = "connect" THEN <<"timeout">> ELSE <<"closed">>)
  /\ late' = (late \/ timer = "connect")
  /\ timer' = "idle"
  /\ UNCHANGED <<m_client, m_connected, closed, serverVars, closeVars, ackVars, fault>>

-----------------------------------------------------------------------------
\* socket::close on a thread of the user.

closeFrame == <<m_client, m_connected, closed, serverVars, ackVars, late>>

\* Up to the timer: DISCONNECT, to which the server may answer, is given to send_packet.
Close ==
  /\ Running
  /\ closer = "idle"
  /\ MoreCalls
  /\ closes' = closes + 1
  /\ closer' = IF m_client /\ m_connected THEN "timer" ELSE "idle"
  /\ UNCHANGED <<closeFrame, timer, ready, asked, fault>>

\* A timer if there is none, for which the client is asked.
CloseTimer ==
  /\ Running
  /\ closer = "timer"
  /\ closer' = "arm"
  /\ IF timer # "null" THEN UNCHANGED <<timer, fault>>
     ELSE IF m_client THEN timer' = "idle" /\ UNCHANGED fault
     ELSE fault' = "null_client" /\ UNCHANGED timer
  /\ UNCHANGED <<closeFrame, ready, closes, asked>>

\* expires_from_now and async_wait.
CloseArm ==
  /\ Running
  /\ closer = "arm"
  /\ closer' = "idle"
  /\ IF timer = "null"
     THEN fault' = "null_timer" /\ UNCHANGED <<timer, ready, asked>>
     ELSE /\ timer' = "close"
          /\ ready' = ready \o Cancelled
          /\ asked' = TRUE
          /\ UNCHANGED fault
  /\ UNCHANGED <<closeFrame, closes>>

CloseStep == CloseTimer \/ CloseArm

-----------------------------------------------------------------------------
\* socket::emit with a callback.

emitFrame == <<socketVars, serverVars, closeVars, late, fault, called>>

\* s_global_event_id++ is a read and a write, which no mutex covers.
ReadEventId(e) ==
  /\ Running
  /\ m_client
  /\ emitPc[e] = "none"
  /\ MoreCalls
  /\ emitPc' = [emitPc EXCEPT ![e] = "write"]
  /\ emitId' = [emitId EXCEPT ![e] = s_global_event_id]
  /\ overlapped' = (overlapped \/ \E d \in Emitters : emitPc[d] = "write")
  /\ UNCHANGED <<emitFrame, s_global_event_id, m_acks, unacked>>

\* The callback overwrites one of the same id, and send_packet takes the packet.
Store(e) ==
  /\ emitPc[e] = "write"
  /\ emitPc' = [emitPc EXCEPT ![e] = "done"]
  /\ m_acks' = {a \in m_acks : a[1] # emitId[e]} \cup {<<emitId[e], e>>}
  /\ unacked' = unacked \cup {e}
  /\ UNCHANGED <<emitFrame, emitId, overlapped>>

\* Slip: the id is not counted on.
WriteEventIdSame(e) == Running /\ Store(e) /\ UNCHANGED s_global_event_id

\* Slip: the id is counted on a second time where the callback is stored.
WriteEventIdTwice(e) == Running /\ Store(e) /\ s_global_event_id' = emitId[e] + 2

\* The write, and the callback stored under m_event_mutex.
WriteEventId(e) == Running /\ Store(e) /\ s_global_event_id' = emitId[e] + 1

EmitStep(e) == ReadEventId(e) \/ WriteEventId(e)

-----------------------------------------------------------------------------
\* The connection and the server.

serverFrame == <<m_client, m_connected, timer, closed, closeVars, late, fault>>

Arrives(h) == ready' = Append(ready, h)

ServerConnects ==
  /\ Running
  /\ link = "up" /\ owed > 0
  /\ owed' = owed - 1
  /\ joined' = TRUE
  /\ Arrives(<<"CONNECT">>)
  /\ UNCHANGED <<serverFrame, link, losses, ackVars>>

ServerDisconnects ==
  /\ Running
  /\ link = "up" /\ joined
  /\ joined' = FALSE
  /\ Arrives(<<"DISCONNECT">>)
  /\ UNCHANGED <<serverFrame, link, owed, losses, ackVars>>

ServerAcks(e) ==
  /\ Running
  /\ link = "up" /\ joined /\ m_connected
  /\ e \in unacked
  /\ unacked' = unacked \ {e}
  /\ Arrives(Ack(e))
  /\ UNCHANGED <<serverFrame, serverVars, emitPc, emitId, s_global_event_id, m_acks, overlapped,
                 called>>

Lose ==
  /\ Running
  /\ link = "up"
  /\ losses < MaxLosses
  /\ losses' = losses + 1
  /\ link' = "down"
  /\ owed' = 0
  /\ joined' = FALSE
  /\ Arrives(<<"lost">>)
  /\ UNCHANGED <<serverFrame, ackVars>>

Reconnect ==
  /\ Running
  /\ link = "down"
  /\ <<"lost">> \notin ToSet(ready)
  /\ link' = "up"
  /\ Arrives(<<"open">>)
  /\ UNCHANGED <<serverFrame, owed, joined, losses, ackVars>>

Server ==
  \/ ServerConnects \/ ServerDisconnects \/ \E e \in Emitters : ServerAcks(e)
  \/ Lose \/ Reconnect

Quiescent ==
  \/ ~Running
  \/ ready = <<>> /\ timer \in {"null", "idle"} /\ closer = "idle" /\ link = "up"

Next ==
  \/ NetStep \/ TimerExpires
  \/ Close \/ CloseStep
  \/ \E e \in Emitters : EmitStep(e)
  \/ Server
  \/ Quiescent /\ UNCHANGED vars

Spec == Init /\ [][Next]_vars

(***************************************************************************)
(* Threads are scheduled, time passes, and the client reconnects.  The     *)
(* server need not answer anything.                                        *)
(***************************************************************************)
FairSpec ==
  /\ Spec
  /\ WF_vars(NetStep)
  /\ WF_vars(TimerExpires)
  /\ WF_vars(CloseStep)
  /\ WF_vars(Reconnect)

-----------------------------------------------------------------------------
\* Properties.

Handlers ==
  { <<h>> : h \in {"open", "lost", "CONNECT", "DISCONNECT", "timeout", "timeout_aborted",
                   "closed", "closed_aborted"} }
    \cup {"ack"} \X Emitters \X (1 .. Cardinality(Emitters))

\* The values of the variables.
TypeOK ==
  /\ m_client \in BOOLEAN /\ m_connected \in BOOLEAN
  /\ timer \in {"null", "idle", "connect", "close"}
  /\ ready \in Seq(Handlers)
  /\ closer \in {"idle", "timer", "arm"}
  /\ link \in {"up", "down"} /\ owed \in Nat /\ joined \in BOOLEAN
  /\ emitPc \in [Emitters -> {"none", "write", "done"}]
  /\ emitId \in [Emitters -> 0 .. Cardinality(Emitters)]
  /\ m_acks \subseteq (1 .. Cardinality(Emitters)) \X Emitters
  /\ unacked \subseteq Emitters
  /\ fault \in {"none", "null_client", "null_timer"}

(***************************************************************************)
(* The close listener hears of the socket once, although the handler of    *)
(* close(), that of the connection's time-out and DISCONNECT may all be    *)
(* ready at the same time, and cancel each other.                          *)
(***************************************************************************)
ClosedOnce == closed <= 1

(***************************************************************************)
(* The socket is only given up for a reason: the server's DISCONNECT, a    *)
(* close() of the user, or 20 s without CONNECT.  That a CONNECT was       *)
(* handled after the 20 s does not save it (see late).                     *)
(***************************************************************************)
ClosedForAReason ==
  [][m_client /\ ~m_client' => Handles("DISCONNECT") \/ asked \/ late]_vars

(***************************************************************************)
(* close() of a connected socket ends with the socket closed, whether the  *)
(* server answers, the connection is lost and made again, or a CONNECT     *)
(* that was on its way cancels the timer.                                  *)
(***************************************************************************)
CloseCloses == asked ~> ~m_client \/ ~Running

\* A socket that is not connected does not stay so: it gets its CONNECT or is closed.
OpensOrCloses == (m_client /\ ~m_connected) ~> (m_connected \/ ~m_client \/ ~Running)

(***************************************************************************)
(* The ack of a packet calls the callback that its emit was given, and no  *)
(* other; unless two emits were at once in the unlocked increment of the   *)
(* id.                                                                     *)
(***************************************************************************)
AckToItsEmitter == overlapped \/ \A c \in called : c[1] = c[2]

-----------------------------------------------------------------------------
(***************************************************************************)
(* The parts of the inductive invariants that the proofs use.              *)
(***************************************************************************)
Pending(h) == h \in Range(ready)

\* What is ready, or the timer waits for, has its reason.
ReasonInv ==
  /\ timer = "close" => asked
  /\ Pending(<<"closed">>) \/ Pending(<<"closed_aborted">>) => asked
  /\ Pending(<<"timeout">>) => late

\* The listener is told by the step that sets m_client to NULL, and that happens once.
OnceInv == closed \in {0, 1} /\ (m_client => closed = 0)

\* What an ack finds its way back by: the id of the emit that the server saw.
SeenInv ==
  /\ \A e \in unacked : emitPc[e] = "done"
  /\ \A e \in Emitters, n \in Nat : Pending(<<"ack", e, n>>) => emitPc[e] = "done" /\ n = emitId[e]

\* Emits that do not meet in the increment have ids of their own.
IdsInv ==
  /\ \A e \in Emitters : emitPc[e] = "write" => emitId[e] = s_global_event_id
  /\ \A e \in Emitters : emitPc[e] = "done" => emitId[e] < s_global_event_id
  /\ \A d, e \in Emitters :
       emitPc[d] # "none" /\ emitPc[e] # "none" /\ emitId[d] = emitId[e] => d = e
  /\ \A a \in m_acks : emitPc[a[2]] = "done" /\ a[1] = emitId[a[2]]
  /\ \A c \in called : c[1] = c[2]

AckInv == SeenInv /\ (overlapped \/ IdsInv)

Stored == {e \in Emitters : emitPc[e] = "done"}

\* An id counts no further than the emits done when it was read, even if emits overlap.
CountInv ==
  /\ s_global_event_id \in 1 .. Cardinality(Stored) + 1
  /\ \A e \in Emitters :
       /\ emitPc[e] = "none" => emitId[e] = 0
       /\ emitPc[e] = "write" => emitId[e] \in 1 .. Cardinality(Stored) + 1
       /\ emitPc[e] = "done" => emitId[e] \in 1 .. Cardinality(Emitters)
  /\ \A a \in m_acks : a[1] \in 1 .. Cardinality(Emitters)
=============================================================================
