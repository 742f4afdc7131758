--------------------------- MODULE SioClient_proofs ---------------------------
(***************************************************************************)
(* Theorems about SioClient, for any number of attempts, calls, lost and   *)
(* refused connections.                                                    *)
(***************************************************************************)
EXTENDS SioClient, SequenceTheorems, TLAPS

-----------------------------------------------------------------------------
\* What becomes of the handlers that are ready.

LEMMA SeqParts ==
  ASSUME NEW S, NEW s \in Seq(S)
  PROVE  /\ Len(s) \in Nat /\ DOMAIN s = 1 .. Len(s)
         /\ s # <<>> => /\ 1 \in DOMAIN s /\ Head(s) = s[1]
                        /\ Tail(s) \in Seq(S)
                        /\ DOMAIN Tail(s) = 1 .. (Len(s) - 1)
                        /\ \A i \in DOMAIN Tail(s) : i + 1 \in DOMAIN s /\ Tail(s)[i] = s[i + 1]
                        /\ \A i \in DOMAIN s : i = 1 \/ i - 1 \in DOMAIN Tail(s)
<1>1. Len(s) \in Nat /\ DOMAIN s = 1 .. Len(s)
  BY LenProperties
<1>2. ASSUME s # <<>>
      PROVE  /\ Head(s) = s[1] /\ Tail(s) \in Seq(S)
             /\ Len(s) # 0 /\ Len(Tail(s)) = Len(s) - 1
             /\ \A i \in 1 .. Len(Tail(s)) : Tail(s)[i] = s[i + 1]
  BY <1>1, <1>2, HeadTailProperties, EmptySeq
<1>3. ASSUME s # <<>> PROVE DOMAIN Tail(s) = 1 .. (Len(s) - 1)
  BY <1>2, <1>3, LenProperties
<1> QED
  BY <1>1, <1>2, <1>3

\* A handler that runs leaves the others.
LEMMA Handled ==
  ASSUME TypeOK, ReadyInv, NEW h \in Handlers, Handles(h)
  PROVE  /\ ready' \in Seq(Handlers)
         /\ Pending(h)
         /\ \A g : Pending(g)' => Pending(g)
         /\ \A g : g # h => (Pending(g)' <=> Pending(g))
         /\ h \in OnceReady => ~Pending(h)'
         /\ h = "on_close" => ~Pending("on_open")
         /\ ReadyInv'
<1> DEFINE n == Len(ready)
           t == Tail(ready)
<1>1. /\ ready \in Seq(Handlers) /\ ready # <<>> /\ Head(ready) = h /\ ready' = t
  BY DEF Handles, TypeOK
<1>2. /\ n \in Nat /\ DOMAIN ready = 1 .. n /\ 1 \in DOMAIN ready /\ ready[1] = h
      /\ t \in Seq(Handlers) /\ DOMAIN t = 1 .. (n - 1)
      /\ \A i \in DOMAIN t : i + 1 \in DOMAIN ready /\ t[i] = ready[i + 1]
      /\ \A i \in DOMAIN ready : i = 1 \/ i - 1 \in DOMAIN t
  BY <1>1, SeqParts
<1> HIDE DEF n, t
<1>3. Pending(h)
  BY <1>2 DEF Pending
<1>4. \A g : Pending(g)' => Pending(g)
  BY <1>1, <1>2 DEF Pending
<1>5. ASSUME NEW g, g # h, Pending(g) PROVE Pending(g)'
  <2>1. PICK i \in DOMAIN ready : ready[i] = g
    BY <1>5 DEF Pending
  <2>2. i - 1 \in DOMAIN t /\ (i - 1) + 1 = i
    BY <1>2, <1>5, <2>1
  <2>3. t[i - 1] = g
    BY <1>2, <2>1, <2>2
  <2> QED
    BY <1>1, <2>2, <2>3 DEF Pending
<1>6. ASSUME h \in OnceReady PROVE ~Pending(h)'
  <2>1. ASSUME NEW i \in DOMAIN t, t[i] = h PROVE FALSE
    <3>1. i + 1 \in DOMAIN ready /\ ready[i + 1] = ready[1] /\ ready[1] \in OnceReady
      BY <1>2, <1>6, <2>1
    <3>2. i + 1 = 1
      BY <1>2, <3>1 DEF ReadyInv
    <3> QED
      BY <1>2, <2>1, <3>2
  <2> QED
    BY <1>1, <2>1 DEF Pending
<1>7. ASSUME h = "on_close" PROVE ~Pending("on_open")
  <2>1. ASSUME NEW i \in DOMAIN ready, ready[i] = "on_open" PROVE FALSE
    <3>1. i < 1
      BY <1>2, <1>7, <2>1 DEF ReadyInv
    <3> QED
      BY <1>2, <2>1, <3>1
  <2> QED
    BY <2>1 DEF Pending
<1>8. ReadyInv'
  <2>1. ASSUME NEW i \in DOMAIN t, NEW k \in DOMAIN t
        PROVE  /\ t[i] = t[k] /\ t[i] \in OnceReady => i = k
               /\ t[i] = "on_open" /\ t[k] = "on_close" => i < k
    <3>1. /\ i + 1 \in DOMAIN ready /\ t[i] = ready[i + 1]
          /\ k + 1 \in DOMAIN ready /\ t[k] = ready[k + 1]
          /\ i \in Nat /\ k \in Nat
      BY <1>2
    <3> QED
      BY <3>1 DEF ReadyInv
  <2> QED
    BY <1>1, <2>1 DEF ReadyInv, OnceReady
<1> QED
  BY <1>1, <1>2, <1>3, <1>4, <1>5, <1>6, <1>7, <1>8

\* A handler that becomes ready is behind the others.
LEMMA Appended ==
  ASSUME TypeOK, ReadyInv, NEW h \in Handlers, ready' = Append(ready, h),
         h \in OnceReady => ~Pending(h),
         h = "on_open" => ~Pending("on_close")
  PROVE  /\ ready' \in Seq(Handlers)
         /\ \A g : Pending(g)' <=> Pending(g) \/ g = h
         /\ ReadyInv'
<1> DEFINE n == Len(ready)
           a == Append(ready, h)
<1>1. /\ n \in Nat /\ DOMAIN ready = 1 .. n
      /\ a \in Seq(Handlers) /\ DOMAIN a = 1 .. (n + 1)
      /\ \A i \in 1 .. n : a[i] = ready[i]
      /\ a[n + 1] = h
  <2>1. ready \in Seq(Handlers)
    BY DEF TypeOK
  <2>2. a \in Seq(Handlers) /\ Len(a) = n + 1 /\ (\A i \in 1 .. n : a[i] = ready[i]) /\ a[n + 1] = h
    BY <2>1, AppendProperties
  <2> QED
    BY <2>1, <2>2, LenProperties
<1>2. ready' = a
  OBVIOUS
<1> HIDE DEF n, a
<1>3. /\ \A i \in DOMAIN ready : i \in DOMAIN a /\ a[i] = ready[i]
      /\ n + 1 \in DOMAIN a
      /\ \A i \in DOMAIN a : i = n + 1 \/ (i \in DOMAIN ready /\ i < n + 1)
  BY <1>1
<1>4. \A g : Pending(g)' <=> Pending(g) \/ g = h
  BY <1>1, <1>2, <1>3 DEF Pending
<1>5. ASSUME NEW i \in DOMAIN a, NEW k \in DOMAIN a
      PROVE  /\ a[i] = a[k] /\ a[i] \in OnceReady => i = k
             /\ a[i] = "on_open" /\ a[k] = "on_close" => i < k
  <2>1. CASE i \in DOMAIN ready /\ k \in DOMAIN ready
    BY <1>3, <2>1 DEF ReadyInv
  <2>2. CASE i = n + 1 /\ k = n + 1
    BY <1>1, <2>2
  <2>3. CASE i = n + 1 /\ k \in DOMAIN ready
    BY <1>1, <1>3, <2>3 DEF Pending
  <2>4. CASE i \in DOMAIN ready /\ k = n + 1
    BY <1>1, <1>3, <2>4 DEF Pending
  <2> QED
    BY <1>3, <2>1, <2>2, <2>3, <2>4
<1>6. ReadyInv'
  BY <1>2, <1>5 DEF ReadyInv, OnceReady
<1> QED
  BY <1>1, <1>2, <1>4, <1>6

\* A step that leaves ready alone.
LEMMA ReadySame ==
  ASSUME UNCHANGED ready
  PROVE  /\ \A g : Pending(g)' <=> Pending(g)
         /\ ReadyInv => ReadyInv'
  BY DEF Pending, ReadyInv, OnceReady

-----------------------------------------------------------------------------
\* The types, apart from the handlers that are ready and the limit of reconnections.

LEMMA Bounds ==
  /\ m_reconn_attempts \in Nat /\ MaxCalls \in Nat /\ MaxDrops \in Nat /\ MaxRefusals \in Nat
  BY ClientAssumption

LEMMA ValuesKeep ==
  ASSUME ValuesOK, [Next]_vars,
         timeout_reconnect => (m_con_state = "closed" => m_reconn_made < m_reconn_attempts)
  PROVE  ValuesOK'
<1> USE Bounds DEF ValuesOK, netVars, reconnVars, linkVars, userVars, history, bounds
<1>1. CASE ConnectCall \/ \E pc \in {"close", "sync_close"} : Close(pc)
  BY <1>1 DEF ConnectCall, Close, Calls
<1>2. CASE ConnectCancel \/ ConnectReset \/ ConnectTest
  BY <1>2 DEF ConnectCancel, ConnectReset, ConnectTest
<1>3. CASE ConnectStart
  BY <1>3 DEF ConnectStart
<1>4. CASE PostClose \/ Join
  BY <1>4 DEF PostClose, Join
<1>5. CASE Connect
  BY <1>5 DEF Connect, connect_impl, Handles
<1>6. CASE CloseByUser \/ timeout_pong \/ CloseByServer
  BY <1>6 DEF CloseByUser, timeout_pong, CloseByServer, close_impl, NoTimer, Handles
<1>7. CASE on_open
  BY <1>7 DEF on_open, Handles
<1>8. CASE on_fail
  BY <1>8 DEF on_fail, Handles
<1>9. CASE on_close
  BY <1>9 DEF on_close, Handles
<1>10. CASE timeout_reconnect
  BY <1>10 DEF timeout_reconnect, connect_impl, Handles
<1>11. CASE on_message \/ on_pong
  BY <1>11 DEF on_message, on_pong, Handles
<1>12. CASE run_loop \/ ping
  BY <1>12 DEF run_loop, ping
<1>13. CASE Opens \/ Refused
  BY <1>13 DEF Opens, Refused, Becomes
<1>14. CASE Dropped \/ CloseAnswered
  BY <1>14 DEF Dropped, CloseAnswered, Becomes
<1>15. CASE ServerEnds \/ \E h \in Handlers : Arrives(h)
  BY <1>15 DEF ServerEnds, Arrives
<1>16. CASE ReconnExpires \/ PongExpires
  BY <1>16 DEF ReconnExpires, PongExpires
<1>17. CASE UNCHANGED vars
  BY <1>17 DEF vars
<1> QED
  BY <1>1, <1>2, <1>3, <1>4, <1>5, <1>6, <1>7, <1>8, <1>9, <1>10, <1>11, <1>12, <1>13, <1>14,
     <1>15, <1>16, <1>17 DEF Next, UserStep, NetStep, Environment, Handlers

LEMMA FlagsKeep ==
  ASSUME FlagsOK, [Next]_vars
  PROVE  FlagsOK'
<1> USE DEF FlagsOK, netVars, reconnVars, linkVars, userVars, history, bounds
<1>1. CASE ConnectCall \/ \E pc \in {"close", "sync_close"} : Close(pc)
  BY <1>1 DEF ConnectCall, Close
<1>2. CASE UserStep
  BY <1>2 DEF UserStep, ConnectCancel, ConnectReset, ConnectTest, ConnectStart, PostClose, Join
<1>3. CASE Connect \/ timeout_reconnect
  BY <1>3 DEF Connect, timeout_reconnect, connect_impl, Handles
<1>4. CASE CloseByUser \/ timeout_pong \/ CloseByServer
  BY <1>4 DEF CloseByUser, timeout_pong, CloseByServer, close_impl, NoTimer, Handles
<1>5. CASE on_open \/ on_message \/ on_pong
  BY <1>5 DEF on_open, on_message, on_pong, Handles
<1>6. CASE on_fail
  <2>1. MayReconnect \in BOOLEAN
    BY DEF MayReconnect
  <2> QED
    BY <1>6, <2>1 DEF on_fail, ReconnectOrTell, Handles
<1>7. CASE on_close
  BY <1>7 DEF on_close, ReconnectOrTell, MayReconnect, Handles
<1>8. CASE run_loop \/ ping
  BY <1>8 DEF run_loop, ping
<1>9. CASE Environment
  BY <1>9 DEF Environment, Opens, Refused, Dropped, CloseAnswered, ServerEnds, Arrives,
     ReconnExpires, PongExpires, Becomes
<1>10. CASE UNCHANGED vars
  BY <1>10 DEF vars
<1> QED
  BY <1>1, <1>2, <1>3, <1>4, <1>5, <1>6, <1>7, <1>8, <1>9, <1>10 DEF Next, NetStep

LEMMA TypeKeeps ==
  ASSUME TypeOK, [Next]_vars, ready' \in Seq(Handlers),
         timeout_reconnect => (m_con_state = "closed" => m_reconn_made < m_reconn_attempts)
  PROVE  TypeOK'
  BY ValuesKeep, FlagsKeep DEF TypeOK

-----------------------------------------------------------------------------
\* The inductive invariant.

StateInv == ready \in Seq(Handlers) /\ ReadyInv /\ ClientInv

AllInv == TypeOK /\ StateInv

LEMMA ClientInit == Init => AllInv
<1> SUFFICES ASSUME Init PROVE AllInv
  OBVIOUS
<1>1. DOMAIN ready = {} /\ ready \in Seq(Handlers)
  BY EmptySeq DEF Init
<1>2. \A h : ~Pending(h)
  BY <1>1 DEF Pending
<1>3. ValuesOK
  BY <1>1, Bounds DEF Init, ValuesOK
<1>4. FlagsOK
  BY DEF Init, FlagsOK
<1>5. ReadyInv
  BY <1>1 DEF ReadyInv
<1>6. ClientInv
  BY <1>2 DEF Init, ClientInv, LinkInv, ThreadInv, RetryInv, HeardInv, OpenedHasConnection,
              OneConnection, NoStalePongTimer
<1> QED
  BY <1>1, <1>3, <1>4, <1>5, <1>6 DEF AllInv, StateInv, TypeOK

\* The user's thread.
LEMMA UserKeeps ==
  ASSUME AllInv,
         ConnectCall \/ Close("close") \/ Close("sync_close") \/ UserStep
  PROVE  StateInv'
<1> USE DEF AllInv, StateInv, ClientInv, LinkInv, ThreadInv, RetryInv, HeardInv,
            OpenedHasConnection, OneConnection, NoStalePongTimer, netVars, reconnVars, linkVars, history, bounds
<1>1. CASE ConnectCall
  <2>1. ReadyInv' /\ \A g : Pending(g)' <=> Pending(g)
    BY <1>1, ReadySame DEF ConnectCall
  <2> QED
    BY <1>1, <2>1 DEF ConnectCall, Calls
<1>2. ASSUME NEW pc \in {"close", "sync_close"}, Close(pc) PROVE StateInv'
  <2>1. ReadyInv' /\ \A g : Pending(g)' <=> Pending(g)
    BY <1>2, ReadySame DEF Close
  <2> QED
    BY <1>2, <2>1 DEF Close, Calls
<1>3. CASE ConnectCancel \/ ConnectReset \/ ConnectTest \/ Join
  <2>1. ReadyInv' /\ \A g : Pending(g)' <=> Pending(g)
    BY <1>3, ReadySame DEF ConnectCancel, ConnectReset, ConnectTest, Join
  <2> QED
    BY <1>3, <2>1 DEF ConnectCancel, ConnectReset, ConnectTest, Join
<1>4. CASE ConnectStart
  <2>1. ~Pending("connect_impl") /\ "connect_impl" \in Handlers
    BY <1>4 DEF ConnectStart, Handlers
  <2>2. /\ ready' \in Seq(Handlers) /\ ReadyInv'
        /\ \A g : Pending(g)' <=> Pending(g) \/ g = "connect_impl"
    BY <1>4, <2>1, Appended DEF ConnectStart
  <2>3. \A h \in OnceReady : ~Pending(h)
    BY <1>4 DEF ConnectStart, Handlers, OnceReady
  <2> QED
    BY <1>4, <2>2, <2>3 DEF ConnectStart, OnceReady, TypeOK, ValuesOK
<1>5. CASE PostClose
  <2>1. "close_impl" \in Handlers /\ "close_impl" \notin OnceReady
    BY DEF Handlers, OnceReady
  <2>2. /\ ready' \in Seq(Handlers) /\ ReadyInv'
        /\ \A g : Pending(g)' <=> Pending(g) \/ g = "close_impl"
    BY <1>5, <2>1, Appended DEF PostClose
  <2> QED
    BY <1>5, <2>2 DEF PostClose
<1> QED
  BY <1>1, <1>2, <1>3, <1>4, <1>5 DEF UserStep

\* The connection and the timers.
LEMMA EnvironmentKeeps ==
  ASSUME AllInv, Environment
  PROVE  StateInv'
<1> USE DEF AllInv, StateInv, ClientInv, LinkInv, ThreadInv, RetryInv, HeardInv,
            OpenedHasConnection, OneConnection, NoStalePongTimer, Becomes, netVars, reconnVars, linkVars, userVars, history, bounds
<1>1. CASE Opens
  <2>1. "on_open" \in Handlers /\ ~Pending("on_open") /\ ~Pending("on_close")
    BY <1>1 DEF Opens, Handlers
  <2>2. /\ ready' \in Seq(Handlers) /\ ReadyInv'
        /\ \A g : Pending(g)' <=> Pending(g) \/ g = "on_open"
    BY <1>1, <2>1, Appended DEF Opens
  <2> QED
    BY <1>1, <2>2 DEF Opens
<1>2. CASE Refused
  <2>1. "on_fail" \in Handlers /\ ~Pending("on_fail")
    BY <1>2 DEF Refused, Handlers
  <2>2. /\ ready' \in Seq(Handlers) /\ ReadyInv'
        /\ \A g : Pending(g)' <=> Pending(g) \/ g = "on_fail"
    BY <1>2, <2>1, Appended DEF Refused
  <2> QED
    BY <1>2, <2>2 DEF Refused
<1>3. CASE Dropped \/ CloseAnswered
  <2>1. "on_close" \in Handlers /\ ~Pending("on_close")
    BY <1>3 DEF Dropped, CloseAnswered, Handlers
  <2>2. /\ ready' \in Seq(Handlers) /\ ReadyInv'
        /\ \A g : Pending(g)' <=> Pending(g) \/ g = "on_close"
    BY <1>3, <2>1, Appended DEF Dropped, CloseAnswered
  <2> QED
    BY <1>3, <2>2 DEF Dropped, CloseAnswered
<1>4. ASSUME NEW h \in {"frame_close", "on_message", "on_pong"},
             (ServerEnds /\ h = "frame_close") \/ Arrives(h)
      PROVE  StateInv'
  <2>1. h \in Handlers /\ h \notin OnceReady /\ ready' = Append(ready, h)
    BY <1>4 DEF ServerEnds, Arrives, Handlers, OnceReady
  <2>2. /\ ready' \in Seq(Handlers) /\ ReadyInv'
        /\ \A g : Pending(g)' <=> Pending(g) \/ g = h
    BY <1>4, <2>1, Appended
  <2> QED
    BY <1>4, <2>2 DEF ServerEnds, Arrives
<1>5. CASE ReconnExpires
  <2>1. "timeout_reconnect" \in Handlers /\ ~Pending("timeout_reconnect")
    BY <1>5 DEF ReconnExpires, Handlers
  <2>2. /\ ready' \in Seq(Handlers) /\ ReadyInv'
        /\ \A g : Pending(g)' <=> Pending(g) \/ g = "timeout_reconnect"
    BY <1>5, <2>1, Appended DEF ReconnExpires
  <2> QED
    BY <1>5, <2>2 DEF ReconnExpires
<1>6. CASE PongExpires
  <2>1. "timeout_pong" \in Handlers /\ "timeout_pong" \notin OnceReady
    BY DEF Handlers, OnceReady
  <2>2. /\ ready' \in Seq(Handlers) /\ ReadyInv'
        /\ \A g : Pending(g)' <=> Pending(g) \/ g = "timeout_pong"
    BY <1>6, <2>1, Appended DEF PongExpires
  <2> QED
    BY <1>6, <2>2 DEF PongExpires
<1> QED
  BY <1>1, <1>2, <1>3, <1>4, <1>5, <1>6 DEF Environment

\* The handlers of the network thread.
LEMMA NetKeeps ==
  ASSUME AllInv, NetStep \/ ping
  PROVE  StateInv'
<1> USE DEF AllInv, StateInv, ClientInv, LinkInv, ThreadInv, RetryInv, HeardInv,
            OpenedHasConnection, OneConnection, NoStalePongTimer, Handles, netVars, reconnVars, linkVars, userVars, history, bounds
<1>1. CASE Connect
  <2>1. /\ ready' \in Seq(Handlers) /\ ReadyInv'
        /\ Pending("connect_impl") /\ ~Pending("connect_impl")'
        /\ \A g : g # "connect_impl" => (Pending(g)' <=> Pending(g))
    BY <1>1, Handled DEF Connect, Handlers, OnceReady
  <2>2. tries' <= m_reconn_made' + 1
    <3>1. tries = 0 /\ tries' \in {0, 1} /\ m_reconn_made' = m_reconn_made /\ m_reconn_made \in Nat
      BY <1>1, <2>1, Bounds DEF Connect, connect_impl, TypeOK, ValuesOK
    <3> QED
      BY <3>1
  <2> QED
    BY <1>1, <2>1, <2>2 DEF Connect, connect_impl
<1>2. ASSUME NEW h \in {"close_impl", "timeout_pong", "frame_close"}, NEW c \in {"normal", "other"},
             Handles(h), close_impl(c) \/ (NoTimer /\ UNCHANGED linkVars),
             UNCHANGED <<m_con_state, m_con, m_reconn_made, pong, history, beside>>
      PROVE  StateInv'
  <2>1. h \in Handlers /\ h \notin OnceReady
    BY DEF Handlers, OnceReady
  <2>2. /\ ready' \in Seq(Handlers) /\ ReadyInv'
        /\ \A g : Pending(g)' => Pending(g)
        /\ \A g : g # h => (Pending(g)' <=> Pending(g))
    BY <1>2, <2>1, Handled
  <2> QED
    BY <1>2, <2>2 DEF close_impl, NoTimer
<1>3. CASE on_open
  <2>1. /\ ready' \in Seq(Handlers) /\ ReadyInv'
        /\ Pending("on_open") /\ ~Pending("on_open")'
        /\ \A g : g # "on_open" => (Pending(g)' <=> Pending(g))
    BY <1>3, Handled DEF on_open, Handlers, OnceReady
  <2> QED
    BY <1>3, <2>1 DEF on_open
<1>4. CASE on_fail
  <2>1. /\ ready' \in Seq(Handlers) /\ ReadyInv'
        /\ Pending("on_fail") /\ ~Pending("on_fail")'
        /\ \A g : g # "on_fail" => (Pending(g)' <=> Pending(g))
    BY <1>4, Handled DEF on_fail, Handlers, OnceReady
  <2> QED
    BY <1>4, <2>1 DEF on_fail, ReconnectOrTell, MayReconnect
<1>5. CASE on_close
  <2>1. /\ ready' \in Seq(Handlers) /\ ReadyInv'
        /\ Pending("on_close") /\ ~Pending("on_close")' /\ ~Pending("on_open")
        /\ \A g : g # "on_close" => (Pending(g)' <=> Pending(g))
    BY <1>5, Handled DEF on_close, Handlers, OnceReady
  <2> QED
    BY <1>5, <2>1 DEF on_close, ReconnectOrTell, MayReconnect
<1>6. CASE timeout_reconnect
  <2>1. /\ ready' \in Seq(Handlers) /\ ReadyInv'
        /\ Pending("timeout_reconnect") /\ ~Pending("timeout_reconnect")'
        /\ \A g : g # "timeout_reconnect" => (Pending(g)' <=> Pending(g))
    BY <1>6, Handled DEF timeout_reconnect, Handlers, OnceReady
  <2>2. tries' <= m_reconn_made' + 1
    <3>1. \/ tries' = tries /\ m_reconn_made' = m_reconn_made
          \/ tries' \in {tries, tries + 1} /\ m_reconn_made' = m_reconn_made + 1
      BY <1>6 DEF timeout_reconnect, connect_impl
    <3>2. tries \in Nat /\ m_reconn_made \in Nat /\ tries <= m_reconn_made + 1
      BY Bounds DEF TypeOK, ValuesOK
    <3> QED
      BY <3>1, <3>2
  <2> QED
    BY <1>6, <2>1, <2>2 DEF timeout_reconnect, connect_impl
<1>7. CASE on_message \/ on_pong
  <2>1. PICK h \in {"on_message", "on_pong"} : Handles(h)
    BY <1>7 DEF on_message, on_pong
  <2>2. h \in Handlers /\ h \notin OnceReady
    BY DEF Handlers, OnceReady
  <2>3. /\ ready' \in Seq(Handlers) /\ ReadyInv'
        /\ \A g : Pending(g)' => Pending(g)
        /\ \A g : g # h => (Pending(g)' <=> Pending(g))
    BY <2>1, <2>2, Handled
  <2> QED
    BY <1>7, <2>1, <2>3 DEF on_message, on_pong
<1>8. CASE ping
  <2>1. ReadyInv' /\ \A g : Pending(g)' <=> Pending(g)
    BY <1>8, ReadySame DEF ping
  <2> QED
    BY <1>8, <2>1 DEF ping
<1>9. CASE run_loop
  <2>1. ReadyInv' /\ \A g : Pending(g)' <=> Pending(g)
    BY <1>9, ReadySame DEF run_loop
  <2>2. \A g : ~Pending(g)
    BY <1>9, EmptySeq DEF run_loop, Pending
  <2> QED
    BY <1>9, <2>1, <2>2 DEF run_loop
<1>10. CASE CloseByUser \/ timeout_pong \/ CloseByServer
  BY <1>2, <1>10 DEF CloseByUser, timeout_pong, CloseByServer
<1> QED
  BY <1>1, <1>3, <1>4, <1>5, <1>6, <1>7, <1>8, <1>9, <1>10 DEF NetStep

LEMMA ClientStep == AllInv /\ [Next]_vars => AllInv'
<1> SUFFICES ASSUME AllInv, [Next]_vars PROVE AllInv'
  OBVIOUS
<1>1. StateInv'
  <2>1. CASE UNCHANGED vars
    <3>1. ReadyInv' /\ \A g : Pending(g)' <=> Pending(g)
      BY <2>1, ReadySame DEF vars, AllInv, StateInv
    <3>2. ClientInv'
      BY <2>1, <3>1 DEF AllInv, StateInv, ClientInv, LinkInv, ThreadInv, RetryInv,
         HeardInv, OpenedHasConnection, OneConnection, NoStalePongTimer, vars, netVars, reconnVars, linkVars, userVars,
         history, bounds
    <3> QED
      BY <2>1, <3>1, <3>2 DEF vars, AllInv, StateInv
  <2> QED
    BY <2>1, UserKeeps, NetKeeps, EnvironmentKeeps DEF Next
<1>2. ASSUME timeout_reconnect PROVE m_reconn_made < m_reconn_attempts
  <2>1. Pending("timeout_reconnect")
    BY <1>2, Handled DEF timeout_reconnect, AllInv, StateInv, Handlers
  <2> QED
    BY <2>1 DEF AllInv, StateInv, ClientInv, RetryInv
<1>3. TypeOK'
  BY <1>1, <1>2, TypeKeeps DEF AllInv, StateInv
<1> QED
  BY <1>1, <1>3 DEF AllInv

LEMMA ClientAlways == Spec => []AllInv
  BY ClientInit, ClientStep, PTL DEF Spec

(***************************************************************************)
(* Every variable keeps its type; m_reconn_made never passes the limit.    *)
(***************************************************************************)
THEOREM TypeCorrect == Spec => []TypeOK
<1>1. AllInv => TypeOK
  BY DEF AllInv
<1> QED
  BY <1>1, ClientAlways, PTL

(***************************************************************************)
(* The client has one connection at most, whichever of connect() and the   *)
(* reconnect timer comes first.                                            *)
(***************************************************************************)
THEOREM OneConnectionAtATime == Spec => []OneConnection
<1>1. AllInv => OneConnection
  BY DEF AllInv, StateInv, ClientInv
<1> QED
  BY <1>1, ClientAlways, PTL

(***************************************************************************)
(* opened() and send_impl, which look at m_con_state alone, find a         *)
(* connection behind "opened", although connect() and close() write the    *)
(* state on other threads than the network thread.                         *)
(***************************************************************************)
THEOREM OpenedIsConnected == Spec => []OpenedHasConnection
<1>1. AllInv => OpenedHasConnection
  BY DEF AllInv, StateInv, ClientInv
<1> QED
  BY <1>1, ClientAlways, PTL

(***************************************************************************)
(* A wait for a pong belongs to the connection there is: no connection is  *)
(* closed because the one before it did not answer.                        *)
(***************************************************************************)
THEOREM PongTimerIsOfTheConnection == Spec => []NoStalePongTimer
<1>1. AllInv => NoStalePongTimer
  BY DEF AllInv, StateInv, ClientInv
<1> QED
  BY <1>1, ClientAlways, PTL

(***************************************************************************)
(* Between two connections that open, reconnections are bounded by         *)
(* m_reconn_attempts, however drops, refusals and calls interleave.        *)
(***************************************************************************)
THEOREM ReconnectionsAreBounded == Spec => []AttemptsBounded
<1>1. AllInv => tries <= m_reconn_made + 1
  BY DEF AllInv, StateInv, ClientInv, RetryInv
<1>2. AllInv => tries \in Nat /\ m_reconn_made \in 0 .. m_reconn_attempts
  BY DEF AllInv, TypeOK, ValuesOK
<1>3. AllInv => AttemptsBounded
  BY <1>1, <1>2, Bounds DEF AttemptsBounded
<1> QED
  BY <1>3, ClientAlways, PTL

-----------------------------------------------------------------------------
\* What whoever calls connect can tell of a step.

SessionStep == [CS!Next]_(CS!vars)

SessionVars == <<reconn, link, m_con, heard, tries>>

\* A step that leaves the session's handlers, its connection and its listener alone.
LEMMA Unseen ==
  ASSUME Pending("connect_impl")' <=> Pending("connect_impl"),
         Pending("timeout_reconnect")' <=> Pending("timeout_reconnect"),
         UNCHANGED SessionVars
  PROVE  SessionStep
<1>1. Arranged' = Arranged
  BY DEF Arranged, SessionVars
<1>2. Connection' = Connection
  BY DEF Connection, SessionVars
<1> QED
  BY <1>1, <1>2 DEF SessionStep, CS!vars, SessionVars

\* A step that does nothing but undo what was arranged, or not even that.
LEMMA Undoes ==
  ASSUME AllInv,
         Arranged' => Arranged,
         Connection' = Connection,
         UNCHANGED <<heard, tries>>
  PROVE  SessionStep
<1>1. CASE Arranged' = Arranged
  BY <1>1 DEF SessionStep, CS!vars
<1>2. CASE Arranged /\ ~Arranged'
  <2>1. link = "none" /\ ~heard
    BY <1>2 DEF AllInv, StateInv, ClientInv, RetryInv, LinkInv, HeardInv, Arranged
  <2>2. CS!Cancel
    BY <1>2, <2>1 DEF CS!Cancel, Connection
  <2> QED
    BY <2>2 DEF SessionStep, CS!Next
<1> QED
  BY <1>1, <1>2 DEF Arranged

\* connect_impl, by itself or dispatched by timeout_reconnect.
LEMMA ConnectImplImplements ==
  ASSUME AllInv, connect_impl, Arranged, ~Arranged', link = "none", UNCHANGED m_con,
         tries < m_reconn_attempts + 1
  PROVE  SessionStep
<1>1. ~heard /\ ~m_con
  BY DEF AllInv, StateInv, ClientInv, RetryInv, LinkInv, HeardInv, Arranged
<1>2. CASE m_base_url = "bad"
  <2>1. CS!CannotTry
    BY <1>1, <1>2 DEF connect_impl, CS!CannotTry, Connection
  <2> QED
    BY <2>1 DEF SessionStep, CS!Next
<1>3. CASE m_base_url # "bad"
  <2>1. CS!Attempt
    BY <1>1, <1>3 DEF connect_impl, CS!Attempt, Connection
  <2> QED
    BY <2>1 DEF SessionStep, CS!Next
<1> QED
  BY <1>2, <1>3

\* The end of on_fail and of on_close.
LEMMA EndImplements ==
  ASSUME AllInv, NEW again \in BOOLEAN,
         ReconnectOrTell(again), again => MayReconnect,
         link # "none", link' = "none", UNCHANGED tries,
         ~Pending("connect_impl")', ~Pending("timeout_reconnect")'
  PROVE  SessionStep
<1>1. ~heard /\ ~Arranged /\ Connection # "none"
  BY DEF AllInv, StateInv, ClientInv, RetryInv, LinkInv, HeardInv, Arranged, Connection
<1>2. Connection' = "none" /\ Arranged' = again /\ heard' = ~again
  BY <1>1 DEF Connection, Arranged, ReconnectOrTell, AllInv, TypeOK, FlagsOK
<1>3. again => tries < m_reconn_attempts + 1
  <2>1. /\ tries \in Nat /\ m_reconn_made \in Nat /\ m_reconn_attempts \in Nat
        /\ tries <= m_reconn_made + 1
    BY Bounds DEF AllInv, StateInv, ClientInv, RetryInv, TypeOK, ValuesOK
  <2> QED
    BY <2>1 DEF MayReconnect
<1>4. CS!Ends
  BY <1>1, <1>2, <1>3 DEF CS!Ends
<1> QED
  BY <1>4 DEF SessionStep, CS!Next

LEMMA UserImplements ==
  ASSUME AllInv,
         ConnectCall \/ Close("close") \/ Close("sync_close") \/ UserStep
  PROVE  SessionStep
<1> USE DEF netVars, reconnVars, linkVars, history, bounds, SessionVars
<1>1. CASE ConnectCancel \/ ConnectReset
  <2>1. \A g : Pending(g)' <=> Pending(g)
    BY <1>1, ReadySame DEF ConnectCancel, ConnectReset, AllInv, StateInv
  <2>2. (Arranged' => Arranged) /\ Connection' = Connection /\ UNCHANGED <<heard, tries>>
    BY <1>1, <2>1 DEF ConnectCancel, ConnectReset, Arranged, Connection
  <2> QED
    BY <2>2, Undoes
<1>2. CASE ConnectCall \/ Close("close") \/ Close("sync_close") \/ ConnectTest \/ Join
  <2>1. \A g : Pending(g)' <=> Pending(g)
    BY <1>2, ReadySame DEF ConnectCall, Close, ConnectTest, Join, AllInv, StateInv
  <2> QED
    BY <1>2, <2>1, Unseen DEF ConnectCall, Close, ConnectTest, Join
<1>3. CASE ConnectStart
  <2>1. /\ network # "running" /\ link = "none" /\ ~reconn
        /\ ~Pending("connect_impl") /\ ~Pending("timeout_reconnect")
    BY <1>3 DEF ConnectStart, AllInv, StateInv, ClientInv, ThreadInv, Handlers
  <2>2. Pending("connect_impl")'
    BY <1>3, <2>1, Appended DEF ConnectStart, AllInv, StateInv, Handlers
  <2>3. CS!Begin
    BY <1>3, <2>1, <2>2 DEF ConnectStart, CS!Begin, Arranged, Connection
  <2> QED
    BY <2>3 DEF SessionStep, CS!Next
<1>4. CASE PostClose
  <2>1. "close_impl" \in Handlers /\ "close_impl" \notin OnceReady
    BY DEF Handlers, OnceReady
  <2>2. \A g : Pending(g)' <=> Pending(g) \/ g = "close_impl"
    BY <1>4, <2>1, Appended DEF PostClose, AllInv, StateInv
  <2> QED
    BY <1>4, <2>2, Unseen DEF PostClose
<1> QED
  BY <1>1, <1>2, <1>3, <1>4 DEF UserStep

LEMMA EnvironmentImplements ==
  ASSUME AllInv, Environment
  PROVE  SessionStep
<1> USE DEF Becomes, netVars, reconnVars, linkVars, userVars, history, bounds, SessionVars
<1>1. ASSUME NEW h \in Handlers \ {"connect_impl", "timeout_reconnect"},
             ready' = Append(ready, h),
             h \in OnceReady => ~Pending(h),
             h = "on_open" => ~Pending("on_close"),
             UNCHANGED <<reconn, m_con, heard, tries>>,
             link = "none" <=> link' = "none"
      PROVE  SessionStep
  <2>1. \A g : Pending(g)' <=> Pending(g) \/ g = h
    BY <1>1, Appended DEF AllInv, StateInv
  <2>2. Arranged' = Arranged /\ Connection' = Connection
    BY <1>1, <2>1 DEF Arranged, Connection
  <2> QED
    BY <1>1, <2>2 DEF SessionStep, CS!vars
<1>2. CASE Opens
  <2>1. ~Pending("on_open") /\ ~Pending("on_close")
    BY <1>2 DEF Opens, AllInv, StateInv, ClientInv, LinkInv
  <2> QED
    BY <1>1, <1>2, <2>1 DEF Opens, Handlers
<1>3. CASE Refused
  <2>1. ~Pending("on_fail")
    BY <1>3 DEF Refused, AllInv, StateInv, ClientInv, LinkInv
  <2> QED
    BY <1>1, <1>3, <2>1 DEF Refused, Handlers
<1>4. CASE Dropped \/ CloseAnswered
  <2>1. ~Pending("on_close")
    BY <1>4 DEF Dropped, CloseAnswered, AllInv, StateInv, ClientInv, LinkInv
  <2> QED
    BY <1>1, <1>4, <2>1 DEF Dropped, CloseAnswered, Handlers
<1>5. CASE ServerEnds \/ Arrives("on_message") \/ Arrives("on_pong") \/ PongExpires
  <2>1. PICK h \in {"frame_close", "on_message", "on_pong", "timeout_pong"} :
          ready' = Append(ready, h)
    BY <1>5 DEF ServerEnds, Arrives, PongExpires
  <2>2. h \in Handlers \ {"connect_impl", "timeout_reconnect"} /\ h \notin OnceReady /\ h # "on_open"
    BY DEF Handlers, OnceReady
  <2> QED
    BY <1>1, <1>5, <2>1, <2>2 DEF ServerEnds, Arrives, PongExpires
<1>6. CASE ReconnExpires
  <2>1. reconn /\ ~Pending("timeout_reconnect") /\ "timeout_reconnect" \in Handlers
    BY <1>6 DEF ReconnExpires, AllInv, StateInv, ClientInv, RetryInv, Handlers
  <2>2. Pending("timeout_reconnect")'
    BY <1>6, <2>1, Appended DEF ReconnExpires, AllInv, StateInv
  <2>3. Arranged' = Arranged /\ Connection' = Connection
    BY <1>6, <2>1, <2>2 DEF ReconnExpires, Arranged, Connection
  <2> QED
    BY <1>6, <2>3 DEF ReconnExpires, SessionStep, CS!vars
<1> QED
  BY <1>2, <1>3, <1>4, <1>5, <1>6 DEF Environment

LEMMA NetImplements ==
  ASSUME AllInv, NetStep \/ ping
  PROVE  SessionStep
<1> USE DEF netVars, reconnVars, linkVars, userVars, history, bounds, SessionVars
<1>1. ASSUME NEW h \in Handlers, Handles(h)
      PROVE  /\ Pending(h)
             /\ \A g : Pending(g)' => Pending(g)
             /\ \A g : g # h => (Pending(g)' <=> Pending(g))
             /\ h \in OnceReady => ~Pending(h)'
             /\ h = "on_close" => ~Pending("on_open")
  BY <1>1, Handled DEF AllInv, StateInv
<1>2. /\ tries \in Nat /\ m_reconn_made \in Nat /\ m_reconn_attempts \in Nat
      /\ m_reconn_made <= m_reconn_attempts
      /\ tries <= m_reconn_made + 1
  BY Bounds DEF AllInv, StateInv, ClientInv, RetryInv, TypeOK, ValuesOK
<1>3. CASE Connect
  <2>1. /\ Pending("connect_impl") /\ ~Pending("connect_impl")'
        /\ Pending("timeout_reconnect")' => Pending("timeout_reconnect")
    BY <1>1, <1>3 DEF Connect, Handlers, OnceReady
  <2>2. /\ link = "none" /\ tries = 0
        /\ ~reconn /\ ~Pending("timeout_reconnect")
    BY <2>1 DEF AllInv, StateInv, ClientInv, LinkInv, RetryInv
  <2>3. tries < m_reconn_attempts + 1
    BY <1>2, <2>2
  <2>4. connect_impl /\ Arranged /\ ~Arranged' /\ UNCHANGED m_con
    BY <1>3, <2>1, <2>2 DEF Connect, Arranged
  <2> QED
    BY <2>2, <2>3, <2>4, ConnectImplImplements
<1>4. CASE timeout_reconnect
  <2>1. /\ Pending("timeout_reconnect") /\ ~Pending("timeout_reconnect")'
        /\ Pending("connect_impl")' => Pending("connect_impl")
    BY <1>1, <1>4 DEF timeout_reconnect, Handlers, OnceReady
  <2>2. /\ link = "none" /\ m_reconn_made < m_reconn_attempts
        /\ ~reconn /\ ~Pending("connect_impl")
    BY <2>1 DEF AllInv, StateInv, ClientInv, RetryInv
  <2>3. tries < m_reconn_attempts + 1
    BY <1>2, <2>2
  <2>4. Arranged /\ ~Arranged' /\ UNCHANGED m_con
    BY <1>4, <2>1, <2>2 DEF timeout_reconnect, Arranged
  <2>5. CASE m_con_state = "closed"
    BY <1>4, <2>2, <2>3, <2>4, <2>5, ConnectImplImplements DEF timeout_reconnect
  <2>6. CASE m_con_state # "closed"
    <3>1. Connection' = Connection /\ UNCHANGED <<heard, tries>>
      BY <1>4, <2>6 DEF timeout_reconnect, Connection
    <3> QED
      BY <2>4, <3>1, Undoes
  <2> QED
    BY <2>5, <2>6
<1>5. ASSUME NEW h \in {"close_impl", "timeout_pong", "frame_close"}, NEW c \in {"normal", "other"},
             Handles(h), close_impl(c) \/ (NoTimer /\ UNCHANGED linkVars),
             UNCHANGED <<m_con, history>>
      PROVE  SessionStep
  <2>1. /\ Pending("connect_impl")' <=> Pending("connect_impl")
        /\ Pending("timeout_reconnect")' <=> Pending("timeout_reconnect")
    BY <1>1, <1>5 DEF Handlers
  <2>2. (Arranged' => Arranged) /\ Connection' = Connection
    BY <1>5, <2>1 DEF close_impl, NoTimer, Arranged, Connection
  <2> QED
    BY <1>5, <2>2, Undoes
<1>6. CASE on_open
  <2>1. /\ Pending("on_open")
        /\ Pending("connect_impl")' <=> Pending("connect_impl")
        /\ Pending("timeout_reconnect")' <=> Pending("timeout_reconnect")
    BY <1>1, <1>6 DEF on_open, Handlers
  <2>2. link # "none" /\ ~m_con
    BY <2>1 DEF AllInv, StateInv, ClientInv, LinkInv
  <2>3. Arranged' = Arranged
    BY <1>6, <2>1 DEF on_open, Arranged
  <2>4. CS!Open
    BY <1>6, <2>2, <2>3 DEF on_open, CS!Open, Connection
  <2> QED
    BY <2>4 DEF SessionStep, CS!Next
<1>7. ASSUME NEW h \in {"on_fail", "on_close"}, NEW again \in BOOLEAN,
             Handles(h), ReconnectOrTell(again), again => MayReconnect,
             link' = "none", UNCHANGED tries
      PROVE  SessionStep
  <2>1. Pending(h) /\ \A g : Pending(g)' => Pending(g)
    BY <1>1, <1>7 DEF Handlers
  <2>2. link # "none"
    BY <2>1 DEF AllInv, StateInv, ClientInv, LinkInv
  <2>3. ~Pending("connect_impl")' /\ ~Pending("timeout_reconnect")'
    BY <2>1, <2>2 DEF AllInv, StateInv, ClientInv, LinkInv, RetryInv
  <2> QED
    BY <1>7, <2>2, <2>3, EndImplements
<1>8. CASE on_fail
  <2>1. MayReconnect \in BOOLEAN
    BY DEF MayReconnect
  <2> QED
    BY <1>7, <1>8, <2>1 DEF on_fail
<1>9. CASE on_close
  <2>1. (code # "normal" /\ MayReconnect) \in BOOLEAN
    OBVIOUS
  <2> QED
    BY <1>7, <1>9, <2>1 DEF on_close
<1>10. CASE on_message \/ on_pong
  <2>1. PICK h \in {"on_message", "on_pong"} : Handles(h)
    BY <1>10 DEF on_message, on_pong
  <2>2. /\ Pending("connect_impl")' <=> Pending("connect_impl")
        /\ Pending("timeout_reconnect")' <=> Pending("timeout_reconnect")
    BY <1>1, <2>1 DEF Handlers
  <2> QED
    BY <1>10, <2>2, Unseen DEF on_message, on_pong
<1>11. CASE run_loop \/ ping
  <2>1. \A g : Pending(g)' <=> Pending(g)
    BY <1>11, ReadySame DEF run_loop, ping, AllInv, StateInv
  <2> QED
    BY <1>11, <2>1, Unseen DEF run_loop, ping
<1>12. CASE CloseByUser \/ timeout_pong \/ CloseByServer
  BY <1>5, <1>12 DEF CloseByUser, timeout_pong, CloseByServer
<1> QED
  BY <1>3, <1>4, <1>6, <1>8, <1>9, <1>10, <1>11, <1>12 DEF NetStep

LEMMA SessionSteps == AllInv /\ [Next]_vars => [CS!Next]_(CS!vars)
<1> SUFFICES ASSUME AllInv, [Next]_vars PROVE SessionStep
  BY DEF SessionStep
<1>1. CASE UNCHANGED vars
  <2>1. \A g : Pending(g)' <=> Pending(g)
    BY <1>1, ReadySame DEF vars, AllInv, StateInv
  <2> QED
    BY <1>1, <2>1, Unseen DEF vars, netVars, reconnVars, linkVars, history, SessionVars
<1> QED
  BY <1>1, UserImplements, NetImplements, EnvironmentImplements DEF Next

LEMMA SessionInit == Init => CS!Init
<1> SUFFICES ASSUME Init PROVE CS!Init
  OBVIOUS
<1>1. \A h : ~Pending(h)
  BY EmptySeq DEF Init, Pending
<1> QED
  BY <1>1 DEF Init, CS!Init, Arranged, Connection

(***************************************************************************)
(* The client, with its two threads, its timers and its handlers, keeps    *)
(* the promises of ClientSession: a connection that fails or ends is       *)
(* followed by one more attempt or by one call of a listener, never both,  *)
(* and after that call nothing happens before the next connect().          *)
(***************************************************************************)
THEOREM ClientImplementsSession == Spec => ImplementsClientSession
  BY ClientAlways, SessionInit, SessionSteps, PTL DEF Spec, ImplementsClientSession, CS!Spec
=============================================================================
