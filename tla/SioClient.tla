----------------------------- MODULE SioClient -----------------------------
(***************************************************************************)
(* The connection of the socket.io client                                  *)
(* (libs/socket.io/src/internal/sio_client_impl.cpp): a thread of the user *)
(* calls connect, close and sync_close, and a network thread, which lives  *)
(* as long as the io_service has work, runs handlers one at a time.  Both  *)
(* write m_con_state, and no lock protects it.                             *)
(*                                                                         *)
(* The io_service and the websocket library are external: a queue of       *)
(* handlers that are ready to run, and a connection that opens, is         *)
(* refused, is dropped, or is closed with a code.  A connection that is    *)
(* dropped has the code 1006 even if this side had begun to close it.      *)
(***************************************************************************)
EXTENDS Naturals, Sequences, Functions

CONSTANTS
  m_reconn_attempts,  \* reconnections tried one after the other
  MaxCalls,           \* bound on the calls of the user
  MaxDrops,           \* bound on connections lost or closed by the server
  MaxRefusals         \* bound on connections refused

ASSUME ClientAssumption ==
  {m_reconn_attempts, MaxCalls, MaxDrops, MaxRefusals} \subseteq Nat

VARIABLES
  m_con_state,   \* written by both threads
  network,       \* m_network_thread: "none", "running", "ended" when run() is over, "crashed"
  m_con,         \* does the handle m_con refer to a connection ?
  m_reconn_made,
  m_base_url,    \* "good", or "bad" when no connection can be made of it
  m_reconn_timer, \* is the pointer m_reconn_timer set ?
  reconn,        \* is there a wait on the timer ?
  pong,          \* m_ping_timeout_timer: "none", "set", or "expired"
  ready,         \* handlers ready to run, in their order
  link,          \* the connection in the websocket library
  code,          \* its local close code: "normal" or "other"
  user,          \* where the user's thread is, or "crashed" when the process is no more
  closed,        \* has the user called close since connect ?  (history)
  heard,         \* was the fail or the close listener called since then ?  (history)
  tries,         \* connections begun since then, or since one opened  (history)
  calls, drops, refusals,
  beside         \* was a connection ever begun beside another ?  (history)

reconnVars == <<m_reconn_timer, reconn>>
netVars == <<network, m_con, m_reconn_made, reconnVars, pong>>
linkVars == <<link, code>>
userVars == <<user, closed, m_base_url>>
history == <<heard, tries>>
bounds == <<calls, drops, refusals>>
vars == <<m_con_state, netVars, linkVars, userVars, history, bounds, ready, beside>>

Handlers ==
  {"connect_impl", "close_impl", "on_open", "on_fail", "on_close", "timeout_reconnect",
   "timeout_pong", "on_message", "on_pong", "frame_close"}

Init ==
  /\ m_con_state = "closed"
  /\ network = "none"
  /\ m_con = FALSE
  /\ m_reconn_made = 0
  /\ m_base_url = "good"
  /\ m_reconn_timer = FALSE
  /\ reconn = FALSE
  /\ pong = "none"
  /\ ready = <<>>
  /\ link = "none"
  /\ code = "other"
  /\ user = "idle"
  /\ closed = FALSE
  /\ heard = FALSE
  /\ tries = 0
  /\ calls = 0 /\ drops = 0 /\ refusals = 0
  /\ beside = FALSE

-----------------------------------------------------------------------------
(***************************************************************************)
(* The user's thread.                                                      *)
(***************************************************************************)
Calls(pc) ==
  /\ user = "idle"
  /\ calls < MaxCalls
  /\ calls' = calls + 1
  /\ user' = pc

\* connect, which tests the pointer of the timer first.
ConnectCall ==
  /\ Calls(IF m_reconn_timer THEN "cancel" ELSE "connect")
  /\ UNCHANGED <<m_con_state, netVars, linkVars, closed, m_base_url, history, drops, refusals,
                 ready, beside>>

(***************************************************************************)
(* m_reconn_timer->cancel(), which does not undo a wait that is over.  The *)
(* network thread may have reset the pointer since it was tested: the      *)
(* process ends.                                                           *)
(***************************************************************************)
ConnectCancel ==
  /\ user = "cancel"
  /\ IF m_reconn_timer
     THEN user' = "reset" /\ reconn' = FALSE /\ UNCHANGED network
     ELSE user' = "crashed" /\ network' = "crashed" /\ UNCHANGED reconn
  /\ UNCHANGED <<m_con_state, m_con, m_reconn_made, m_reconn_timer, pong, linkVars, closed,
                 m_base_url, history, bounds, ready, beside>>

\* m_reconn_timer.reset(): a timer made since then goes with its wait.
ConnectReset ==
  /\ user = "reset"
  /\ user' = "connect"
  /\ m_reconn_timer' = FALSE
  /\ reconn' = FALSE
  /\ UNCHANGED <<m_con_state, network, m_con, m_reconn_made, pong, linkVars, closed,
                 m_base_url, history, bounds, ready, beside>>

\* A slip: connect goes on beside a thread that is closing.
ConnectNoJoin ==
  /\ user = "connect"
  /\ user' = IF network # "none" /\ m_con_state \in {"opening", "opened"} THEN "idle"
             ELSE "start"
  /\ UNCHANGED <<m_con_state, netVars, linkVars, closed, m_base_url, history, bounds, ready,
                 beside>>

\* The tests of connect: nothing to do, wait for the thread of a closing client, or go on.
ConnectTest ==
  /\ user = "connect"
  /\ user' = IF network = "none" THEN "start"
             ELSE IF m_con_state \in {"closing", "closed"} THEN "join_connect"
             ELSE "idle"
  /\ UNCHANGED <<m_con_state, netVars, linkVars, closed, m_base_url, history, bounds, ready,
                 beside>>

\* The end of connect: connect_impl is posted and a thread started.
ConnectStart ==
  /\ user = "start"
  /\ user' = "idle"
  /\ m_con_state' = "opening"
  /\ m_base_url' \in {"good", "bad"}
  /\ m_reconn_made' = 0
  /\ ready' = Append(ready, "connect_impl")
  /\ network' = "running"
  /\ closed' = FALSE
  /\ heard' = FALSE
  /\ tries' = 0
  /\ UNCHANGED <<m_con, reconnVars, pong, linkVars, bounds, beside>>

\* close and sync_close: the state first, then close_impl is posted.
Close(pc) ==
  /\ Calls(pc)
  /\ m_con_state' = "closing"
  /\ closed' = TRUE
  /\ UNCHANGED <<netVars, linkVars, m_base_url, history, drops, refusals, ready, beside>>

PostClose ==
  /\ user \in {"close", "sync_close"}
  /\ ready' = Append(ready, "close_impl")
  /\ user' = IF user = "sync_close" /\ network # "none" THEN "join_close" ELSE "idle"
  /\ UNCHANGED <<m_con_state, netVars, linkVars, closed, m_base_url, history, bounds, beside>>

\* join() returns once run() is over, and the thread object is deleted.
Join ==
  /\ user \in {"join_connect", "join_close"}
  /\ network = "ended"
  /\ network' = "none"
  /\ user' = IF user = "join_connect" THEN "start" ELSE "idle"
  /\ UNCHANGED <<m_con_state, m_con, m_reconn_made, reconnVars, pong, linkVars, closed,
                 m_base_url, history, bounds, ready, beside>>

UserStep ==
  ConnectCancel \/ ConnectReset \/ ConnectTest \/ ConnectStart \/ PostClose \/ Join

-----------------------------------------------------------------------------
(***************************************************************************)
(* The handlers of the network thread.                                     *)
(***************************************************************************)
Handles(h) ==
  /\ network = "running"
  /\ ready # <<>>
  /\ Head(ready) = h
  /\ ready' = Tail(ready)
  /\ UNCHANGED <<network, userVars, bounds>>

\* connect_impl begins a connection, or calls the fail listener.
connect_impl ==
  IF m_base_url = "bad"
  THEN heard' = TRUE /\ UNCHANGED <<link, tries, beside>>
  ELSE /\ tries' = tries + 1
       /\ link' = "connecting"
       /\ beside' = (beside \/ link # "none")
       /\ UNCHANGED heard

Connect ==
  /\ Handles("connect_impl")
  /\ connect_impl
  /\ UNCHANGED <<m_con_state, m_con, m_reconn_made, reconnVars, pong, code>>

\* The timer is cancelled and reset.
NoTimer == m_reconn_timer' = FALSE /\ reconn' = FALSE

\* close_impl: no reconnection, and a connection that is open begins to close.
close_impl(c) ==
  /\ NoTimer
  /\ IF m_con /\ link = "open"
     THEN link' = "closing" /\ code' = c
     ELSE UNCHANGED linkVars

CloseByUser ==
  /\ Handles("close_impl")
  /\ close_impl("normal")
  /\ UNCHANGED <<m_con_state, m_con, m_reconn_made, pong, history, beside>>

(***************************************************************************)
(* on_open.  Only this thread looks at m_con (close_impl, ping,            *)
(* send_impl), so that no one can tell that the state is written before    *)
(* it.                                                                     *)
(***************************************************************************)
on_open ==
  /\ Handles("on_open")
  /\ m_con_state' = "opened"
  /\ m_con' = TRUE
  /\ m_reconn_made' = 0
  /\ tries' = 0
  /\ UNCHANGED <<reconnVars, pong, linkVars, heard, beside>>

\* A slip: one reconnection too many.
MayReconnectOnce == m_reconn_made <= m_reconn_attempts

MayReconnect == m_reconn_made < m_reconn_attempts

\* A slip: the listener is called whether or not there is another attempt.
TellAnyhow(again) ==
  /\ m_reconn_timer' = (m_reconn_timer \/ again)
  /\ reconn' = again
  /\ heard' = TRUE

\* The end of on_fail and of on_close: wait for the next attempt, or tell the listener.
ReconnectOrTell(again) ==
  /\ m_reconn_timer' = (m_reconn_timer \/ again)
  /\ reconn' = again
  /\ heard' = (heard \/ ~again)

\* A slip: the client takes itself to be opening still.
OnFailStillOpening ==
  /\ Handles("on_fail")
  /\ m_con' = FALSE
  /\ link' = "none"
  /\ ReconnectOrTell(MayReconnect)
  /\ UNCHANGED <<m_con_state, m_reconn_made, pong, code, tries, beside>>

on_fail ==
  /\ Handles("on_fail")
  /\ m_con' = FALSE
  /\ m_con_state' = "closed"
  /\ link' = "none"
  /\ ReconnectOrTell(MayReconnect)
  /\ UNCHANGED <<m_reconn_made, pong, code, tries, beside>>

\* A slip: the timers of the connection are not cleared.
OnCloseKeepsTimers ==
  /\ Handles("on_close")
  /\ m_con_state' = "closed"
  /\ m_con' = FALSE
  /\ link' = "none"
  /\ ReconnectOrTell(code # "normal" /\ MayReconnect)
  /\ UNCHANGED <<m_reconn_made, pong, code, tries, beside>>

\* A slip: the state is left to the listeners.
OnCloseStillOpened ==
  /\ Handles("on_close")
  /\ m_con' = FALSE
  /\ pong' = "none"
  /\ link' = "none"
  /\ ReconnectOrTell(code # "normal" /\ MayReconnect)
  /\ UNCHANGED <<m_con_state, m_reconn_made, code, tries, beside>>

\* on_close: after a normal close there is no reconnection.
on_close ==
  /\ Handles("on_close")
  /\ m_con_state' = "closed"
  /\ m_con' = FALSE
  /\ pong' = "none"
  /\ link' = "none"
  /\ ReconnectOrTell(code # "normal" /\ MayReconnect)
  /\ UNCHANGED <<m_reconn_made, code, tries, beside>>

\* timeout_reconnect dispatches connect_impl, which runs at once on this thread.
timeout_reconnect ==
  /\ Handles("timeout_reconnect")
  /\ IF m_con_state = "closed"
     THEN /\ m_con_state' = "opening"
          /\ m_reconn_made' = m_reconn_made + 1
          /\ connect_impl
     ELSE UNCHANGED <<m_con_state, m_reconn_made, link, tries, heard, beside>>
  /\ UNCHANGED <<m_con, reconnVars, pong, code>>

timeout_pong ==
  /\ Handles("timeout_pong")
  /\ close_impl("other")
  /\ UNCHANGED <<m_con_state, m_con, m_reconn_made, pong, history, beside>>

(***************************************************************************)
(* on_decode of a close frame calls close_impl with abnormal_close, a code *)
(* that the websocket library does not send: its close() fails, and the    *)
(* connection stays.                                                       *)
(***************************************************************************)
CloseByServer ==
  /\ Handles("frame_close")
  /\ NoTimer
  /\ UNCHANGED <<m_con_state, m_con, m_reconn_made, pong, linkVars, history, beside>>

\* on_message starts the timer anew; a timeout_pong that is ready is not undone.
on_message ==
  /\ Handles("on_message")
  /\ pong' = IF pong = "expired" THEN "set" ELSE pong
  /\ UNCHANGED <<m_con_state, m_con, m_reconn_made, reconnVars, linkVars, history, beside>>

on_pong ==
  /\ Handles("on_pong")
  /\ pong' = "none"
  /\ UNCHANGED <<m_con_state, m_con, m_reconn_made, reconnVars, linkVars, history, beside>>

\* The ping timer expires: a ping is sent, and its answer waited for unless one is already.
ping ==
  /\ network = "running"
  /\ m_con
  /\ pong = "none"
  /\ pong' = "set"
  /\ UNCHANGED <<m_con_state, network, m_con, m_reconn_made, reconnVars, linkVars, userVars,
                 history, bounds, ready, beside>>

\* run_loop: run() is over when there is nothing left to wait for.
run_loop ==
  /\ network = "running"
  /\ ready = <<>>
  /\ link = "none"
  /\ ~reconn
  /\ pong # "set"
  /\ network' = "ended"
  /\ UNCHANGED <<m_con_state, m_con, m_reconn_made, reconnVars, pong, linkVars, userVars,
                 history, bounds, ready, beside>>

NetStep ==
  \/ Connect \/ CloseByUser \/ on_open \/ on_fail \/ on_close
  \/ timeout_reconnect \/ timeout_pong \/ on_message \/ on_pong \/ CloseByServer
  \/ run_loop

-----------------------------------------------------------------------------
(***************************************************************************)
(* The connection and the timers.                                          *)
(***************************************************************************)
Becomes(l, c, h) ==
  /\ network = "running"
  /\ link' = l
  /\ code' = c
  /\ ready' = Append(ready, h)
  /\ UNCHANGED <<m_con_state, netVars, userVars, history, calls, beside>>

Opens ==
  /\ link = "connecting"
  /\ Becomes("open", "other", "on_open")
  /\ UNCHANGED <<drops, refusals>>

Refused ==
  /\ link = "connecting"
  /\ refusals < MaxRefusals
  /\ refusals' = refusals + 1
  /\ Becomes("gone", "other", "on_fail")
  /\ UNCHANGED drops

\* The connection breaks, or the server closes it, with a code that is given back to it.
Dropped ==
  /\ link \in {"open", "closing"}
  /\ drops < MaxDrops
  /\ drops' = drops + 1
  /\ \/ Becomes("gone", "other", "on_close")
     \/ link = "open" /\ Becomes("gone", "normal", "on_close")
  /\ UNCHANGED refusals

\* The server asks for the end of the session.
ServerEnds ==
  /\ network = "running"
  /\ link = "open"
  /\ drops < MaxDrops
  /\ drops' = drops + 1
  /\ ready' = Append(ready, "frame_close")
  /\ UNCHANGED <<m_con_state, netVars, linkVars, userVars, history, calls, refusals, beside>>

\* The server answers the close.
CloseAnswered ==
  /\ link = "closing"
  /\ Becomes("gone", code, "on_close")
  /\ UNCHANGED <<drops, refusals>>

\* A message or a pong arrives; one at a time is enough.
Arrives(h) ==
  /\ network = "running"
  /\ link = "open" /\ m_con
  /\ h \notin Range(ready)
  /\ ready' = Append(ready, h)
  /\ UNCHANGED <<m_con_state, netVars, linkVars, userVars, history, bounds, beside>>

ReconnExpires ==
  /\ network = "running"
  /\ reconn
  /\ reconn' = FALSE
  /\ ready' = Append(ready, "timeout_reconnect")
  /\ UNCHANGED <<m_con_state, network, m_con, m_reconn_made, m_reconn_timer, pong, linkVars, userVars,
                 history, bounds, beside>>

PongExpires ==
  /\ network = "running"
  /\ pong = "set"
  /\ "timeout_pong" \notin Range(ready)
  /\ pong' = "expired"
  /\ ready' = Append(ready, "timeout_pong")
  /\ UNCHANGED <<m_con_state, network, m_con, m_reconn_made, reconnVars, linkVars, userVars,
                 history, bounds, beside>>

Environment ==
  \/ Opens \/ Refused \/ Dropped \/ ServerEnds \/ CloseAnswered
  \/ Arrives("on_message") \/ Arrives("on_pong")
  \/ ReconnExpires \/ PongExpires

\* Nothing runs, and the user calls nothing more.
Quiescent == user \in {"idle", "crashed"} /\ network # "running"

Next ==
  \/ ConnectCall \/ Close("close") \/ Close("sync_close") \/ UserStep
  \/ NetStep \/ ping
  \/ Environment
  \/ Quiescent /\ UNCHANGED vars

Spec == Init /\ [][Next]_vars

(***************************************************************************)
(* Both threads are scheduled, timers expire, a connection that is being   *)
(* made opens or is refused, and the server answers a close (the library   *)
(* has a timeout for both).  Drops and calls are not forced.               *)
(***************************************************************************)
FairSpec ==
  /\ Spec
  /\ WF_vars(UserStep)
  /\ WF_vars(NetStep)
  /\ WF_vars(Opens \/ Refused)
  /\ WF_vars(CloseAnswered)
  /\ WF_vars(ReconnExpires)

-----------------------------------------------------------------------------
\* Properties.

ValuesOK ==
  /\ m_con_state \in {"opening", "opened", "closing", "closed"}
  /\ network \in {"none", "running", "ended", "crashed"}
  /\ m_reconn_made \in 0 .. m_reconn_attempts
  /\ m_base_url \in {"good", "bad"}
  /\ pong \in {"none", "set", "expired"}
  /\ link \in {"none", "connecting", "open", "closing", "gone"}
  /\ code \in {"normal", "other"}
  /\ user \in {"idle", "cancel", "reset", "connect", "join_connect", "start", "close",
               "sync_close", "join_close", "crashed"}
  /\ tries \in Nat
  /\ calls \in 0 .. MaxCalls /\ drops \in 0 .. MaxDrops /\ refusals \in 0 .. MaxRefusals

FlagsOK ==
  /\ m_con \in BOOLEAN /\ m_reconn_timer \in BOOLEAN /\ reconn \in BOOLEAN
  /\ closed \in BOOLEAN /\ heard \in BOOLEAN /\ beside \in BOOLEAN

\* The values of the variables.
TypeOK == ValuesOK /\ FlagsOK /\ ready \in Seq(Handlers)

(***************************************************************************)
(* send_impl relies on m_con_state alone, which both threads write: when   *)
(* it runs, between two handlers, and the state says opened, m_con is a    *)
(* connection to send on.                                                  *)
(***************************************************************************)
OpenedHasConnection == m_con_state = "opened" => m_con

(***************************************************************************)
(* No connection is begun beside another one, whichever of connect and the *)
(* reconnect timer comes first: m_con would name only the later of them.   *)
(***************************************************************************)
OneConnection == ~beside

(***************************************************************************)
(* Between two connections that open, no more reconnections are tried than *)
(* m_reconn_attempts: API.md's "max reconnect attempts".                   *)
(***************************************************************************)
AttemptsBounded == tries <= m_reconn_attempts + 1

(***************************************************************************)
(* The wait for a pong belongs to a connection: a connection made later is *)
(* never closed because the previous one did not answer.                   *)
(***************************************************************************)
NoStalePongTimer == pong # "none" => m_con

(***************************************************************************)
(* A connection that is refused or lost is followed by one that opens, or  *)
(* a listener is told, or the user closes, whatever calls of connect come  *)
(* in between. Two things excepted: a wait for a pong that is over, whose  *)
(* handler still waits to run when on_close has let the connection go and  *)
(* will cancel the reconnection; and the end of the process                *)
(* (ConnectCancel).                                                        *)
(***************************************************************************)
LostConnectionReturns ==
  link = "gone" ~>
    \/ link = "open" \/ heard \/ closed
    \/ ~m_con /\ "timeout_pong" \in Range(ready)
    \/ user = "crashed"

(***************************************************************************)
(* API.md says of the close listener: "Call when closed or drop."  So a    *)
(* client that its user did not close does not stop in silence: when the   *)
(* network thread has ended, a listener was called.                        *)
(***************************************************************************)
EndIsHeard == network = "ended" /\ user = "idle" /\ ~closed => heard

(***************************************************************************)
(* API.md says of sync_close: "return until it is really closed."  So it   *)
(* does return.                                                            *)
(***************************************************************************)
SyncCloseReturns == user = "join_close" ~> user # "join_close"

-----------------------------------------------------------------------------
(***************************************************************************)
(* The parts of the inductive invariant that the proofs use.               *)
(***************************************************************************)
Pending(h) == \E i \in DOMAIN ready : ready[i] = h

\* The handlers of a connection and of its reconnection are never ready twice.
OnceReady == {"connect_impl", "on_open", "on_fail", "on_close", "timeout_reconnect"}

ReadyInv ==
  /\ \A i, k \in DOMAIN ready : ready[i] = ready[k] /\ ready[i] \in OnceReady => i = k
  /\ \A i, k \in DOMAIN ready : ready[i] = "on_open" /\ ready[k] = "on_close" => i < k

\* m_con, the state and the handlers that are ready agree on the connection there is.
LinkInv ==
  /\ m_con \/ Pending("on_open") => link \in {"open", "closing", "gone"}
  /\ ~(m_con /\ Pending("on_open"))
  /\ link = "open" => m_con \/ Pending("on_open")
  /\ link = "closing" => m_con
  /\ Pending("on_fail") =>
       link = "gone" /\ ~m_con /\ ~Pending("on_open") /\ ~Pending("on_close")
  /\ Pending("on_close") => link = "gone" /\ (m_con \/ Pending("on_open"))
  /\ Pending("connect_impl") => link = "none" /\ m_con_state \in {"opening", "closing"}
  /\ m_con_state = "closed" => link = "none" /\ ~Pending("connect_impl")

\* Without a network thread there is nothing but calls of close_impl; connect makes sure of that.
ThreadInv ==
  /\ network \in {"none", "ended"} =>
       link = "none" /\ ~reconn /\ \A h \in Handlers : Pending(h) => h = "close_impl"
  /\ user = "start" => network = "none"

\* One reconnection at a time, and none while there is a connection or more were made than allowed.
RetryInv ==
  /\ reconn \/ Pending("timeout_reconnect") =>
       /\ link = "none" /\ ~Pending("connect_impl")
       /\ m_con_state \in {"closed", "closing"}
       /\ m_reconn_made < m_reconn_attempts
  /\ ~(reconn /\ Pending("timeout_reconnect"))
  /\ tries <= m_reconn_made + 1
  /\ Pending("connect_impl") => tries = 0

\* A listener is called when nothing else is left to happen.
HeardInv ==
  heard => link = "none" /\ ~reconn /\ ~Pending("connect_impl") /\ ~Pending("timeout_reconnect")

ClientInv ==
  /\ LinkInv /\ ThreadInv /\ RetryInv /\ HeardInv
  /\ OpenedHasConnection /\ OneConnection /\ NoStalePongTimer

-----------------------------------------------------------------------------
(***************************************************************************)
(* What whoever calls connect can rely on: an attempt is arranged when     *)
(* connect_impl is ready or the reconnect timer waits or is over.          *)
(***************************************************************************)
Arranged == reconn \/ Pending("connect_impl") \/ Pending("timeout_reconnect")

Connection == IF link = "none" THEN "none" ELSE IF m_con THEN "open" ELSE "attempt"

CS == INSTANCE ClientSession WITH
  Limit <- m_reconn_attempts + 1,
  conn <- Connection,
  arranged <- Arranged,
  told <- heard,
  attempts <- tries

(***************************************************************************)
(* The client keeps the promises of ClientSession, whatever its two        *)
(* threads interleave: what ends is followed by one more attempt or by one *)
(* call of a listener, and a listener is called at most once per connect,  *)
(* when nothing is left that could connect.                                *)
(***************************************************************************)
ImplementsClientSession == CS!Spec
=============================================================================
