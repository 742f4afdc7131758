------------------------- MODULE SioNamespace_proofs -------------------------
(***************************************************************************)
(* Theorems about SioNamespace, for any emitters, any number of lost       *)
(* connections and of calls of close().                                    *)
(***************************************************************************)
EXTENDS SioNamespace, SequenceTheorems, FiniteSetTheorems, TLAPS

-----------------------------------------------------------------------------
\* Sequences as sets.

\* What Append adds to a range.
LEMMA RangeAppend ==
  ASSUME NEW S, NEW s \in Seq(S), NEW e \in S
  PROVE  Append(s, e) \in Seq(S) /\ Range(Append(s, e)) = Range(s) \cup {e}
<1>1. Append(s, e) \in Seq(S) /\ Len(Append(s, e)) = Len(s) + 1 /\ Len(s) \in Nat
  BY AppendProperties, LenProperties
<1>2. /\ \A i \in 1 .. Len(s) : Append(s, e)[i] = s[i]
      /\ Append(s, e)[Len(s) + 1] = e
  BY AppendProperties
<1>3. /\ Range(s) = {s[i] : i \in 1 .. Len(s)}
      /\ Range(Append(s, e)) = {Append(s, e)[i] : i \in 1 .. Len(s) + 1}
  BY <1>1, RangeEquality
<1>4. 1 .. Len(s) + 1 = (1 .. Len(s)) \cup {Len(s) + 1}
  BY <1>1
<1> QED
  BY <1>1, <1>2, <1>3, <1>4

\* Head is in the range, and Tail adds nothing to it.
LEMMA RangeTail ==
  ASSUME NEW S, NEW s \in Seq(S), s # <<>>
  PROVE  /\ Tail(s) \in Seq(S)
         /\ Head(s) \in S /\ Head(s) \in Range(s)
         /\ Range(Tail(s)) \subseteq Range(s)
<1>1. /\ Head(s) \in S /\ Tail(s) \in Seq(S)
      /\ Len(Tail(s)) = Len(s) - 1
      /\ \A i \in 1 .. Len(Tail(s)) : Tail(s)[i] = s[i + 1]
  BY HeadTailProperties
<1>2. Len(s) \in Nat \ {0}
  BY EmptySeq
<1>3. /\ Range(s) = {s[i] : i \in 1 .. Len(s)}
      /\ Range(Tail(s)) = {Tail(s)[i] : i \in 1 .. Len(Tail(s))}
  BY <1>1, RangeEquality
<1>4. Head(s) = s[1]
  BY <1>2
<1>5. \A i \in 1 .. Len(Tail(s)) : i + 1 \in 1 .. Len(s)
  BY <1>1, <1>2
<1> QED
  BY <1>1, <1>2, <1>3, <1>4, <1>5

\* A handler that is appended, or none.
LEMMA RangeConcatOne ==
  ASSUME NEW S, NEW s \in Seq(S), NEW e \in S
  PROVE  s \o <<e>> \in Seq(S) /\ Range(s \o <<e>>) = Range(s) \cup {e}
<1>1. s \o <<e>> = Append(s, e)
  BY AppendIsConcat
<1>2. Append(s, e) \in Seq(S) /\ Range(Append(s, e)) = Range(s) \cup {e}
  BY RangeAppend
<1> QED
  BY <1>1, <1>2, Zenon

-----------------------------------------------------------------------------
\* What is ready.

Names ==
  {"open", "lost", "CONNECT", "DISCONNECT", "timeout", "timeout_aborted", "closed",
   "closed_aborted"}

Items == {<<h>> : h \in Names} \cup {<<"ack", e, n>> : e \in Emitters, n \in Nat}

\* The name of a handler says which it is.
LEMMA ItemOf ==
  ASSUME NEW x \in Items
  PROVE  /\ x[1] # "ack" => x = <<x[1]>> /\ x[1] \in Names
         /\ x[1] = "ack" => \E e \in Emitters, n \in Nat : x = <<"ack", e, n>>
<1>1. CASE \E h \in Names : x = <<h>>
  BY <1>1 DEF Names
<1>2. CASE \E e \in Emitters, n \in Nat : x = <<"ack", e, n>>
  BY <1>2
<1> QED
  BY <1>1, <1>2 DEF Items

\* The variables whose values the invariants compare.
Types ==
  /\ ready \in Seq(Items)
  /\ timer \in {"null", "idle", "connect", "close"}
  /\ asked \in BOOLEAN /\ late \in BOOLEAN /\ overlapped \in BOOLEAN
  /\ emitPc \in [Emitters -> {"none", "write", "done"}]
  /\ emitId \in [Emitters -> Nat]
  /\ s_global_event_id \in Nat
  /\ m_acks \subseteq Nat \X Emitters
  /\ unacked \subseteq Emitters

\* What a step may make ready, and why.
Reason(x) ==
  \/ x \in {<<"open">>, <<"lost">>, <<"CONNECT">>, <<"DISCONNECT">>, <<"timeout_aborted">>}
  \/ x = <<"timeout">> /\ late'
  \/ x \in {<<"closed">>, <<"closed_aborted">>} /\ timer = "close"
  \/ \E e \in unacked : x = Ack(e)

Readied == ready' \in Seq(Items) /\ \A x \in Range(ready') : x \in Range(ready) \/ Reason(x)

\* The handler of a cancelled wait is put behind the others.
LEMMA CancelReadied ==
  ASSUME Types, NEW rest \in Seq(Items), Range(rest) \subseteq Range(ready),
         ready' = rest \o Cancelled
  PROVE  Readied
<1>1. CASE timer = "connect"
  <2>1. Cancelled = << <<"timeout_aborted">> >>
    BY <1>1 DEF Cancelled
  <2>2. <<"timeout_aborted">> \in Items
    BY DEF Items, Names
  <2> QED
    BY <2>1, <2>2, RangeConcatOne DEF Readied, Reason
<1>2. CASE timer = "close"
  <2>1. Cancelled = << <<"closed_aborted">> >>
    BY <1>2 DEF Cancelled
  <2>2. <<"closed_aborted">> \in Items
    BY DEF Items, Names
  <2> QED
    BY <1>2, <2>1, <2>2, RangeConcatOne DEF Readied, Reason
<1>3. CASE timer \notin {"connect", "close"}
  <2>1. Cancelled = <<>>
    BY <1>3 DEF Cancelled
  <2>2. rest \o <<>> = rest
    BY ConcatEmptySeq
  <2> QED
    BY <2>1, <2>2 DEF Readied
<1> QED
  BY <1>1, <1>2, <1>3

\* A handler that becomes ready by itself.
LEMMA AppendReadied ==
  ASSUME Types, NEW x \in Items, Reason(x), ready' = Append(ready, x)
  PROVE  Readied
  BY RangeAppend DEF Types, Readied

\* A handler that the network thread takes.
LEMMA TakeReadied ==
  ASSUME Types, NEW h, Handles(h)
  PROVE  /\ Tail(ready) \in Seq(Items) /\ Range(Tail(ready)) \subseteq Range(ready)
         /\ Head(ready) \in Items /\ Head(ready) \in Range(ready) /\ Head(ready)[1] = h
         /\ ready' = Tail(ready) => Readied
  BY RangeTail DEF Types, Handles, Readied

\* The handlers of the network thread.
LEMMA NetReadied ==
  ASSUME Types, NetStep
  PROVE  Readied
<1>1. \E h : Handles(h) /\ (ready' = Tail(ready) \/ ready' = Tail(ready) \o Cancelled)
  BY DEF NetStep, OnOpen, OnDisconnect, OnConnected, OnMessageDisconnect, TimeoutConnection,
         TimeoutClose, OnSocketioAck, SendConnect, CloseSocket, Nothing
<1> QED
  BY <1>1, TakeReadied, CancelReadied

\* What the server sends, or a loss.
LEMMA ServerReadied ==
  ASSUME Types, Server
  PROVE  Readied
<1>1. /\ {<<"CONNECT">>, <<"DISCONNECT">>, <<"lost">>, <<"open">>} \subseteq Items
      /\ \A e \in Emitters : Ack(e) \in Items
  BY DEF Items, Names, Ack, Types
<1>2. \E x \in Items : ready' = Append(ready, x) /\ Reason(x)
  <2>1. CASE ServerConnects
    BY <1>1, <2>1 DEF ServerConnects, Arrives, Reason
  <2>2. CASE ServerDisconnects
    BY <1>1, <2>2 DEF ServerDisconnects, Arrives, Reason
  <2>3. ASSUME NEW e \in Emitters, ServerAcks(e) PROVE \E x \in Items : ready' = Append(ready, x) /\ Reason(x)
    BY <1>1, <2>3 DEF ServerAcks, Arrives, Reason
  <2>4. CASE Lose
    BY <1>1, <2>4 DEF Lose, Arrives, Reason
  <2>5. CASE Reconnect
    BY <1>1, <2>5 DEF Reconnect, Arrives, Reason
  <2> QED
    BY <2>1, <2>2, <2>3, <2>4, <2>5 DEF Server
<1> QED
  BY <1>2, AppendReadied

\* The step of any actor.
LEMMA StepReadied ==
  ASSUME Types, [Next]_vars
  PROVE  Readied
<1>1. CASE UNCHANGED ready
  BY <1>1 DEF Readied, Types
<1>2. CASE TimerExpires
  <2>1. {<<"timeout">>, <<"closed">>} \subseteq Items
    BY DEF Items, Names
  <2>2. CASE timer = "connect"
    BY <1>2, <2>1, <2>2, AppendReadied DEF TimerExpires, Reason
  <2>3. CASE timer = "close"
    BY <1>2, <2>1, <2>3, AppendReadied DEF TimerExpires, Reason
  <2> QED
    BY <1>2, <2>2, <2>3 DEF TimerExpires
<1>3. CASE CloseArm
  <2>1. CASE timer = "null"
    BY <1>1, <1>3, <2>1 DEF CloseArm
  <2>2. CASE timer # "null"
    BY <1>3, <2>2, CancelReadied DEF CloseArm, Types
  <2> QED
    BY <2>1, <2>2
<1>4. CASE Close \/ CloseTimer
  BY <1>1, <1>4 DEF Close, CloseTimer
<1>5. CASE \E e \in Emitters : EmitStep(e)
  BY <1>1, <1>5 DEF EmitStep, ReadEventId, WriteEventId, Store, emitFrame, socketVars
<1> QED
  BY <1>1, <1>2, <1>3, <1>4, <1>5, NetReadied, ServerReadied DEF Next, CloseStep, vars, socketVars

\* A handler that is pending afterwards was, or has a reason.
LEMMA PendingAfter ==
  ASSUME Readied
  PROVE  \A x : Pending(x)' => Pending(x) \/ Reason(x)
  BY DEF Readied, Pending

-----------------------------------------------------------------------------
\* Types.

LEMMA TypesInit == Init => Types
<1>1. <<"open">> \in Items
  BY DEF Items, Names
<1>2. <<>> \in Seq(Items) /\ << <<"open">> >> \in Seq(Items)
  BY <1>1, EmptySeq
<1>3. Init => /\ timer \in {"null", "idle", "connect", "close"} /\ ready \in Seq(Items)
              /\ asked \in BOOLEAN /\ late \in BOOLEAN /\ overlapped \in BOOLEAN
  BY <1>2, Zenon DEF Init
<1>4. Init => /\ emitPc \in [Emitters -> {"none", "write", "done"}]
              /\ emitId \in [Emitters -> Nat] /\ s_global_event_id \in Nat
              /\ m_acks \subseteq Nat \X Emitters /\ unacked \subseteq Emitters
  BY DEF Init
<1> QED
  BY <1>3, <1>4 DEF Types

LEMMA TypesStep ==
  ASSUME Types, [Next]_vars
  PROVE  Types'
<1>1. ready' \in Seq(Items)
  BY StepReadied DEF Readied
<1>2. timer' \in {"null", "idle", "connect", "close"} /\ asked' \in BOOLEAN /\ late' \in BOOLEAN
  BY DEF Types, Next, NetStep, OnOpen, OnDisconnect, OnConnected, OnMessageDisconnect,
         TimeoutConnection, TimeoutClose, OnSocketioAck, SendConnect, CloseSocket, Nothing,
         TimerExpires, Close, CloseStep, CloseTimer, CloseArm, EmitStep, ReadEventId,
         WriteEventId, Store, Server, ServerConnects, ServerDisconnects, ServerAcks, Lose,
         Reconnect, vars, socketVars, closeVars, closeFrame, emitFrame, serverFrame
<1>3. /\ emitPc' \in [Emitters -> {"none", "write", "done"}]
      /\ emitId' \in [Emitters -> Nat]
      /\ s_global_event_id' \in Nat /\ overlapped' \in BOOLEAN
      /\ m_acks' \subseteq Nat \X Emitters /\ unacked' \subseteq Emitters
  <2>1. CASE \E e \in Emitters : EmitStep(e)
    <3>1. PICK e \in Emitters : EmitStep(e)
      BY <2>1
    <3>2. CASE ReadEventId(e)
      BY <3>2 DEF Types, ReadEventId
    <3>3. CASE WriteEventId(e)
      <4>1. emitId[e] + 1 \in Nat /\ <<emitId[e], e>> \in Nat \X Emitters
        BY DEF Types
      <4> QED
        BY <3>3, <4>1 DEF Types, WriteEventId, Store, emitFrame
    <3> QED
      BY <3>1, <3>2, <3>3 DEF EmitStep
  <2>2. CASE OnSocketioAck
    BY <2>2 DEF Types, OnSocketioAck
  <2>3. CASE \E e \in Emitters : ServerAcks(e)
    BY <2>3 DEF Types, ServerAcks
  <2>4. CASE UNCHANGED ackVars
    BY <2>4 DEF Types, ackVars
  <2> QED
    BY <2>1, <2>2, <2>3, <2>4 DEF Next, NetStep, OnOpen, OnDisconnect, OnConnected,
       OnMessageDisconnect, TimeoutConnection, TimeoutClose, TimerExpires, Close, CloseStep,
       CloseTimer, CloseArm, Server, ServerConnects, ServerDisconnects, Lose, Reconnect, vars,
       closeFrame
<1> QED
  BY <1>1, <1>2, <1>3 DEF Types

LEMMA TypesAlways == Spec => []Types
  BY TypesInit, TypesStep, PTL DEF Spec

-----------------------------------------------------------------------------
\* Why a socket is closed, and how often.

\* No step takes back a close() or a wait that has run out, and only CloseArm waits for DISCONNECT.
LEMMA AskedStays ==
  ASSUME Types, [Next]_vars
  PROVE  /\ asked => asked'
         /\ late => late'
         /\ timer' = "close" => timer = "close" \/ asked'
  BY DEF Types, Next, NetStep, OnOpen, OnDisconnect, OnConnected, OnMessageDisconnect,
         TimeoutConnection, TimeoutClose, OnSocketioAck, SendConnect, CloseSocket, Nothing,
         TimerExpires, Close, CloseStep, CloseTimer, CloseArm, EmitStep, ReadEventId,
         WriteEventId, Store, Server, ServerConnects, ServerDisconnects, ServerAcks, Lose,
         Reconnect, vars, socketVars, closeVars, closeFrame, emitFrame, serverFrame

LEMMA ReasonStep ==
  ASSUME Types, ReasonInv, [Next]_vars
  PROVE  ReasonInv'
<1>1. \A x : Pending(x)' => Pending(x) \/ Reason(x)
  BY StepReadied, PendingAfter
<1>2. ASSUME Pending(<<"closed">>)' \/ Pending(<<"closed_aborted">>)' PROVE asked'
  <2>1. PICK x \in {<<"closed">>, <<"closed_aborted">>} : Pending(x) \/ Reason(x)
    BY <1>1, <1>2
  <2>2. Reason(x) => timer = "close"
    BY <2>1 DEF Reason, Ack
  <2> QED
    BY <2>1, <2>2, AskedStays DEF ReasonInv
<1>3. ASSUME Pending(<<"timeout">>)' PROVE late'
  <2>1. Pending(<<"timeout">>) \/ Reason(<<"timeout">>)
    BY <1>1, <1>3
  <2>2. Reason(<<"timeout">>) => late'
    BY DEF Reason, Ack
  <2> QED
    BY <2>1, <2>2, AskedStays DEF ReasonInv
<1> QED
  BY <1>2, <1>3, AskedStays DEF ReasonInv

LEMMA ReasonInit == Init => ReasonInv
<1> SUFFICES ASSUME Init PROVE ReasonInv
  OBVIOUS
<1>1. Range(ready) \subseteq {<<"open">>}
  BY DEF Init, Range
<1> QED
  BY <1>1 DEF Init, ReasonInv, Pending

\* The steps that set m_client to NULL: the listener is told, and the handler says why.
LEMMA Closing ==
  ASSUME Types, [Next]_vars
  PROVE  \/ UNCHANGED <<m_client, closed>>
         \/ /\ m_client /\ ~m_client' /\ closed' = closed + 1
            /\ \/ Handles("DISCONNECT") \/ Handles("timeout")
               \/ Handles("closed") \/ Handles("closed_aborted")
  BY DEF Next, NetStep, OnOpen, OnDisconnect, OnConnected, OnMessageDisconnect,
         TimeoutConnection, TimeoutClose, OnSocketioAck, SendConnect, CloseSocket, Nothing,
         TimerExpires, Close, CloseStep, CloseTimer, CloseArm, EmitStep, ReadEventId,
         WriteEventId, Store, Server, ServerConnects, ServerDisconnects, ServerAcks, Lose,
         Reconnect, vars, socketVars, closeVars, closeFrame, emitFrame, serverFrame

\* A handler that the network thread takes was pending.
LEMMA HandledWasPending ==
  ASSUME Types, NEW h \in Names, Handles(h)
  PROVE  Pending(<<h>>)
<1>1. Head(ready) \in Items /\ Head(ready) \in Range(ready) /\ Head(ready)[1] = h
  BY TakeReadied
<1>2. h # "ack"
  BY DEF Names
<1> QED
  BY <1>1, <1>2, ItemOf DEF Pending

(***************************************************************************)
(* on_close tells the listener at most once in the life of the socket,     *)
(* whatever handlers are ready with it.                                    *)
(***************************************************************************)
THEOREM ToldOnce == Spec => []ClosedOnce
<1>1. Init => OnceInv
  BY DEF Init, OnceInv
<1>2. Types /\ OnceInv /\ [Next]_vars => OnceInv'
  BY Closing DEF OnceInv
<1>3. OnceInv => ClosedOnce
  BY DEF OnceInv, ClosedOnce
<1> QED
  BY <1>1, <1>2, <1>3, TypesAlways, PTL DEF Spec

(***************************************************************************)
(* The socket is only given up on the server's DISCONNECT, after a close() *)
(* or after a wait for CONNECT that has run out: no cancelled wait of      *)
(* send_connect closes it.                                                 *)
(***************************************************************************)
THEOREM GivenUpForAReason == Spec => ClosedForAReason
<1>1. ASSUME Types, ReasonInv, [Next]_vars, m_client, ~m_client'
      PROVE  Handles("DISCONNECT") \/ asked \/ late
  <2>1. \/ Handles("DISCONNECT") \/ Handles("timeout")
        \/ Handles("closed") \/ Handles("closed_aborted")
    BY <1>1, Closing
  <2>2. {"timeout", "closed", "closed_aborted"} \subseteq Names
    BY DEF Names
  <2> QED
    BY <1>1, <2>1, <2>2, HandledWasPending DEF ReasonInv
<1>2. Types /\ ReasonInv /\ [Next]_vars =>
        [m_client /\ ~m_client' => Handles("DISCONNECT") \/ asked \/ late]_vars
  BY <1>1
<1>3. Types /\ ReasonInv /\ [Next]_vars => ReasonInv'
  BY ReasonStep
<1> QED
  BY <1>2, <1>3, ReasonInit, TypesAlways, PTL DEF Spec, ClosedForAReason

-----------------------------------------------------------------------------
\* Acknowledgements.

\* What steps do to the emits: one begins, one is stored, an ack is sent or handled.
LEMMA AckSteps ==
  ASSUME Types, [Next]_vars
  PROVE  \/ UNCHANGED ackVars
         \/ OnSocketioAck
         \/ \E e \in Emitters : ReadEventId(e) \/ WriteEventId(e) \/ ServerAcks(e)
  BY DEF Next, NetStep, OnOpen, OnDisconnect, OnConnected, OnMessageDisconnect,
         TimeoutConnection, TimeoutClose, TimerExpires, Close, CloseStep, CloseTimer, CloseArm,
         EmitStep, Server, ServerConnects, ServerDisconnects, Lose, Reconnect, vars, closeFrame

\* An ack that becomes pending is of a packet that the server could acknowledge.
LEMMA AckAfter ==
  ASSUME Types, [Next]_vars, NEW e \in Emitters, NEW n \in Nat, Pending(<<"ack", e, n>>)'
  PROVE  Pending(<<"ack", e, n>>) \/ (e \in unacked /\ n = emitId[e])
<1>1. Pending(<<"ack", e, n>>) \/ Reason(<<"ack", e, n>>)
  BY StepReadied, PendingAfter
<1>2. Reason(<<"ack", e, n>>) => e \in unacked /\ n = emitId[e]
  BY DEF Reason, Ack
<1> QED
  BY <1>1, <1>2

LEMMA SeenStep ==
  ASSUME Types, SeenInv, [Next]_vars
  PROVE  SeenInv'
<1>1. \A e \in Emitters : emitPc[e] = "done" => emitPc'[e] = "done" /\ emitId'[e] = emitId[e]
  BY AckSteps DEF Types, ackVars, OnSocketioAck, ReadEventId, WriteEventId, Store, ServerAcks
<1>2. \A e \in unacked' : e \in unacked \/ emitPc'[e] = "done"
  BY AckSteps DEF Types, ackVars, OnSocketioAck, ReadEventId, WriteEventId, Store, ServerAcks
<1>3. \A e \in unacked' : emitPc'[e] = "done"
  BY <1>1, <1>2 DEF SeenInv, Types
<1>4. ASSUME NEW e \in Emitters, NEW n \in Nat, Pending(<<"ack", e, n>>)'
      PROVE  emitPc'[e] = "done" /\ n = emitId'[e]
  BY <1>1, <1>4, AckAfter DEF SeenInv
<1> QED
  BY <1>3, <1>4 DEF SeenInv

\* A thread that reads the id shares it with nobody, or overlaps.
LEMMA ReadKeepsIds ==
  ASSUME Types, overlapped \/ IdsInv, NEW e \in Emitters, ReadEventId(e)
  PROVE  overlapped' \/ IdsInv'
<1> SUFFICES ASSUME ~overlapped' PROVE IdsInv'
  OBVIOUS
<1>1. IdsInv /\ \A d \in Emitters : emitPc[d] # "write"
  BY DEF ReadEventId
<1>2. /\ emitPc[e] = "none" /\ emitPc'[e] = "write" /\ emitId'[e] = s_global_event_id
      /\ \A d \in Emitters : d # e => emitPc'[d] = emitPc[d] /\ emitId'[d] = emitId[d]
      /\ UNCHANGED <<s_global_event_id, m_acks, called>>
  BY DEF ReadEventId, Types, emitFrame
<1>3. \A d \in Emitters : emitPc'[d] # "none" => d = e \/ emitPc[d] = "done"
  BY <1>1, <1>2 DEF Types
<1>4. \A d \in Emitters : emitPc'[d] # "none" /\ d # e => emitId'[d] < emitId'[e]
  BY <1>1, <1>2, <1>3 DEF IdsInv
<1>5. emitId' \in [Emitters -> Nat]
  BY DEF Types, ReadEventId
<1>6. \A c, d \in Emitters :
        emitPc'[c] # "none" /\ emitPc'[d] # "none" /\ emitId'[c] = emitId'[d] => c = d
  <2>1. \A d \in Emitters : emitId'[d] \in Nat
    BY <1>5
  <2>2. \A d \in Emitters : emitPc'[d] # "none" /\ d # e => emitId'[d] # emitId'[e]
    BY <1>4, <2>1
  <2> QED
    BY <1>1, <1>2, <1>3, <2>2 DEF IdsInv
<1>7. \A a \in m_acks : a[2] \in Emitters /\ emitPc'[a[2]] = "done" /\ a[1] = emitId'[a[2]]
  BY <1>1, <1>2 DEF IdsInv, Types
<1> QED
  BY <1>1, <1>2, <1>3, <1>4, <1>6, <1>7 DEF IdsInv

\* The write counts the id past all that were given.
LEMMA WriteKeepsIds ==
  ASSUME Types, IdsInv, NEW e \in Emitters, WriteEventId(e)
  PROVE  IdsInv'
<1>1. /\ emitPc[e] = "write" /\ emitPc'[e] = "done" /\ emitId[e] = s_global_event_id
      /\ s_global_event_id' = s_global_event_id + 1
      /\ \A d \in Emitters : d # e => emitPc'[d] = emitPc[d]
      /\ m_acks' = {a \in m_acks : a[1] # emitId[e]} \cup {<<emitId[e], e>>}
      /\ UNCHANGED <<emitId, called>>
  BY DEF WriteEventId, Store, Types, emitFrame, IdsInv
<1>2. \A d \in Emitters : emitPc[d] = "write" => d = e
  BY <1>1 DEF IdsInv
<1>3. \A d \in Emitters : emitPc'[d] = "done" => emitId'[d] < s_global_event_id'
  BY <1>1 DEF IdsInv, Types
<1>4. \A a \in m_acks' : emitPc'[a[2]] = "done" /\ a[1] = emitId'[a[2]]
  BY <1>1 DEF IdsInv, Types
<1> QED
  BY <1>1, <1>2, <1>3, <1>4 DEF IdsInv, Types

\* The callback that an ack calls is that of its packet.
LEMMA AckKeepsIds ==
  ASSUME Types, SeenInv, IdsInv, OnSocketioAck
  PROVE  IdsInv'
<1> DEFINE packet == Head(ready)[2]
           found == {a \in m_acks : m_client /\ a[1] = Head(ready)[3]}
<1>1. /\ m_acks' = m_acks \ found
      /\ called' = called \cup {<<a[2], packet>> : a \in found}
      /\ UNCHANGED <<emitPc, emitId, s_global_event_id>>
  BY DEF OnSocketioAck
<1>2. Head(ready) \in Items /\ Head(ready) \in Range(ready) /\ Head(ready)[1] = "ack"
  BY TakeReadied DEF OnSocketioAck, Handles
<1>3. PICK e \in Emitters, n \in Nat : Head(ready) = <<"ack", e, n>>
  BY <1>2, ItemOf
<1>4. packet = e /\ Head(ready)[3] = emitId[e] /\ emitPc[e] = "done"
  BY <1>2, <1>3 DEF SeenInv, Pending
<1>5. ASSUME NEW a \in found PROVE a[2] = packet
  <2>1. a \in m_acks /\ a[1] = emitId[e] /\ a[2] \in Emitters
    BY <1>4, <1>5 DEF Types
  <2>2. emitPc[a[2]] = "done" /\ emitId[a[2]] = emitId[e]
    BY <2>1 DEF IdsInv
  <2> QED
    BY <1>4, <2>1, <2>2 DEF IdsInv
<1>6. \A c \in called' : c[1] = c[2]
  BY <1>1, <1>5 DEF IdsInv
<1> QED
  BY <1>1, <1>6 DEF IdsInv

LEMMA AckStep ==
  ASSUME Types, AckInv, [Next]_vars
  PROVE  AckInv'
<1>1. overlapped => overlapped'
  BY AckSteps DEF ackVars, OnSocketioAck, ReadEventId, WriteEventId, Store, ServerAcks
<1>2. ASSUME IdsInv PROVE overlapped' \/ IdsInv'
  <2>1. CASE UNCHANGED ackVars
    BY <1>2, <2>1 DEF ackVars, IdsInv
  <2>2. CASE OnSocketioAck
    BY <1>2, <2>2, AckKeepsIds DEF AckInv
  <2>3. ASSUME NEW e \in Emitters, ReadEventId(e) PROVE overlapped' \/ IdsInv'
    BY <1>2, <2>3, ReadKeepsIds
  <2>4. ASSUME NEW e \in Emitters, WriteEventId(e) PROVE IdsInv'
    BY <1>2, <2>4, WriteKeepsIds
  <2>5. ASSUME NEW e \in Emitters, ServerAcks(e) PROVE IdsInv'
    BY <1>2, <2>5 DEF ServerAcks, IdsInv
  <2> QED
    BY <2>1, <2>2, <2>3, <2>4, <2>5, AckSteps
<1> QED
  BY <1>1, <1>2, SeenStep DEF AckInv

LEMMA AckInit == Init => AckInv
<1> SUFFICES ASSUME Init PROVE AckInv
  OBVIOUS
<1>1. \A h \in Range(ready) : h = <<"open">>
  BY DEF Init, Range
<1>2. \A e \in Emitters, n \in Nat : <<"ack", e, n>> # <<"open">>
  OBVIOUS
<1> QED
  BY <1>1, <1>2 DEF Init, AckInv, SeenInv, IdsInv, Pending

(***************************************************************************)
(* on_socketio_ack calls the callback of the very emit whose packet was    *)
(* acknowledged, whatever the number of emits and the order of the acks,   *)
(* if no two emits were at once in s_global_event_id++.                    *)
(***************************************************************************)
THEOREM AcksFindTheirEmitter == Spec => []AckToItsEmitter
<1>1. AckInv => AckToItsEmitter
  BY DEF AckInv, IdsInv, AckToItsEmitter
<1>2. Types /\ AckInv /\ [Next]_vars => AckInv'
  BY AckStep
<1> QED
  BY <1>1, <1>2, AckInit, TypesAlways, PTL DEF Spec

-----------------------------------------------------------------------------
\* Type correctness, with the bound on the ids.

\* An emit that is stored is one more.
LEMMA StoredFinite ==
  /\ IsFiniteSet(Stored)
  /\ Cardinality(Stored) \in Nat /\ Cardinality(Emitters) \in Nat
  /\ \A e \in Emitters : e \notin Stored => Cardinality(Stored) < Cardinality(Emitters)
<1>1. Stored \subseteq Emitters /\ IsFiniteSet(Emitters)
  BY NamespaceAssumption DEF Stored
<1>2. IsFiniteSet(Stored) /\ Cardinality(Stored) \in Nat /\ Cardinality(Emitters) \in Nat
  BY <1>1, FS_Subset, FS_CardinalityType
<1>3. ASSUME NEW e \in Emitters, e \notin Stored PROVE Cardinality(Stored) < Cardinality(Emitters)
  <2>1. Stored # Emitters
    BY <1>3
  <2>2. Cardinality(Stored) <= Cardinality(Emitters) /\ Cardinality(Stored) # Cardinality(Emitters)
    BY <1>1, <2>1, FS_Subset
  <2> QED
    BY <1>2, <2>2
<1> QED
  BY <1>2, <1>3

LEMMA CountInit == Init => CountInv
<1> SUFFICES ASSUME Init PROVE CountInv
  OBVIOUS
<1>1. 1 \in 1 .. Cardinality(Stored) + 1
  BY StoredFinite
<1> QED
  BY <1>1 DEF Init, CountInv

\* A read of the counter, which the other threads may write meanwhile.
LEMMA ReadCounts ==
  ASSUME Types, CountInv, NEW e \in Emitters, ReadEventId(e)
  PROVE  CountInv'
<1>1. /\ emitPc[e] = "none" /\ emitPc'[e] = "write" /\ emitId'[e] = s_global_event_id
      /\ \A d \in Emitters : d # e => emitPc'[d] = emitPc[d] /\ emitId'[d] = emitId[d]
      /\ UNCHANGED <<s_global_event_id, m_acks>>
  BY DEF ReadEventId, Types
<1>2. Stored' = Stored
  BY <1>1 DEF Stored
<1> QED
  BY <1>1, <1>2 DEF CountInv

\* The write: one emit more is done, and the counter is at most one above what was read.
LEMMA WriteCounts ==
  ASSUME Types, CountInv, NEW e \in Emitters, WriteEventId(e)
  PROVE  CountInv'
<1>1. /\ emitPc[e] = "write" /\ emitPc'[e] = "done"
      /\ s_global_event_id' = emitId[e] + 1
      /\ \A d \in Emitters : d # e => emitPc'[d] = emitPc[d]
      /\ m_acks' = {a \in m_acks : a[1] # emitId[e]} \cup {<<emitId[e], e>>}
      /\ UNCHANGED emitId
  BY DEF WriteEventId, Store, Types
<1>2. Stored' = Stored \cup {e} /\ e \notin Stored
  BY <1>1 DEF Stored
<1>3. Cardinality(Stored') = Cardinality(Stored) + 1
  BY <1>2, StoredFinite, FS_AddElement
<1>4. /\ Cardinality(Stored) \in Nat /\ Cardinality(Emitters) \in Nat
      /\ Cardinality(Stored) < Cardinality(Emitters)
  BY <1>2, StoredFinite
<1>5. emitId[e] \in 1 .. Cardinality(Stored) + 1
  BY <1>1 DEF CountInv
<1>6. /\ emitId[e] \in 1 .. Cardinality(Emitters)
      /\ emitId[e] + 1 \in 1 .. Cardinality(Stored') + 1
      /\ \A n \in 1 .. Cardinality(Stored) + 1 : n \in 1 .. Cardinality(Stored') + 1
  BY <1>3, <1>4, <1>5
<1>7. \A d \in Emitters :
        /\ emitPc'[d] = "none" => emitId'[d] = 0
        /\ emitPc'[d] = "write" => emitId'[d] \in 1 .. Cardinality(Stored') + 1
        /\ emitPc'[d] = "done" => emitId'[d] \in 1 .. Cardinality(Emitters)
  BY <1>1, <1>6 DEF CountInv
<1>8. \A a \in m_acks' : a[1] \in 1 .. Cardinality(Emitters)
  BY <1>1, <1>6 DEF CountInv
<1> QED
  BY <1>1, <1>6, <1>7, <1>8 DEF CountInv

LEMMA CountStep ==
  ASSUME Types, CountInv, [Next]_vars
  PROVE  CountInv'
<1>1. CASE UNCHANGED <<emitPc, emitId, s_global_event_id>> /\ m_acks' \subseteq m_acks
  BY <1>1 DEF CountInv, Stored
<1>2. CASE UNCHANGED ackVars
  BY <1>1, <1>2 DEF ackVars
<1>3. CASE OnSocketioAck \/ \E e \in Emitters : ServerAcks(e)
  BY <1>1, <1>3 DEF OnSocketioAck, ServerAcks
<1> QED
  BY <1>2, <1>3, ReadCounts, WriteCounts, AckSteps

\* The variables that no other invariant speaks of.
PlainTypes ==
  /\ m_client \in BOOLEAN /\ m_connected \in BOOLEAN
  /\ closer \in {"idle", "timer", "arm"}
  /\ link \in {"up", "down"} /\ owed \in Nat /\ joined \in BOOLEAN
  /\ fault \in {"none", "null_client", "null_timer"}

LEMMA PlainStep ==
  ASSUME PlainTypes, [Next]_vars
  PROVE  PlainTypes'
<1>1. m_client' \in BOOLEAN /\ m_connected' \in BOOLEAN
  BY DEF PlainTypes, Next, NetStep, OnOpen, OnDisconnect, OnConnected, OnMessageDisconnect,
         TimeoutConnection, TimeoutClose, OnSocketioAck, SendConnect, CloseSocket, Nothing,
         TimerExpires, Close, CloseStep, CloseTimer, CloseArm, EmitStep, ReadEventId,
         WriteEventId, Store, Server, ServerConnects, ServerDisconnects, ServerAcks, Lose,
         Reconnect, vars, socketVars, closeFrame, emitFrame, serverFrame
<1>2. /\ closer' \in {"idle", "timer", "arm"}
      /\ fault' \in {"none", "null_client", "null_timer"}
  BY DEF PlainTypes, Next, NetStep, OnOpen, OnDisconnect, OnConnected, OnMessageDisconnect,
         TimeoutConnection, TimeoutClose, OnSocketioAck,
         TimerExpires, Close, CloseStep, CloseTimer, CloseArm, EmitStep, ReadEventId,
         WriteEventId, Store, Server, ServerConnects, ServerDisconnects, ServerAcks, Lose,
         Reconnect, vars, closeVars, emitFrame, serverFrame
<1>3. /\ link' \in {"up", "down"} /\ joined' \in BOOLEAN
      /\ owed' = owed \/ owed' = owed + 1 \/ owed' = 0 \/ (owed > 0 /\ owed' = owed - 1)
  BY DEF PlainTypes, Next, NetStep, OnOpen, OnDisconnect, OnConnected, OnMessageDisconnect,
         TimeoutConnection, TimeoutClose, OnSocketioAck, SendConnect,
         TimerExpires, Close, CloseStep, CloseTimer, CloseArm, EmitStep, ReadEventId,
         WriteEventId, Store, Server, ServerConnects, ServerDisconnects, ServerAcks, Lose,
         Reconnect, vars, serverVars, closeFrame, emitFrame
<1>4. owed' \in Nat
  <2>1. owed \in Nat
    BY DEF PlainTypes
  <2> QED
    BY <1>3, <2>1
<1> QED
  BY <1>1, <1>2, <1>3, <1>4 DEF PlainTypes

LEMMA PlainInit == Init => PlainTypes
<1> SUFFICES ASSUME Init PROVE PlainTypes
  OBVIOUS
<1>1. m_client \in BOOLEAN /\ m_connected \in BOOLEAN /\ joined \in BOOLEAN
  BY Zenon DEF Init
<1>2. closer \in {"idle", "timer", "arm"} /\ link \in {"up", "down"}
      /\ fault \in {"none", "null_client", "null_timer"}
  BY Zenon DEF Init
<1>3. owed \in Nat
  <2>1. owed = 1 \/ owed = 0
    BY Zenon DEF Init
  <2> QED
    BY <2>1
<1> QED
  BY <1>1, <1>2, <1>3 DEF PlainTypes

LEMMA TypesSuffice == Types /\ PlainTypes /\ SeenInv /\ CountInv => TypeOK
<1> SUFFICES ASSUME Types, PlainTypes, SeenInv, CountInv PROVE TypeOK
  OBVIOUS
<1>1. ASSUME NEW e \in Emitters PROVE emitId[e] \in 0 .. Cardinality(Emitters)
  <2>1. emitPc[e] \in {"none", "write", "done"}
    BY DEF Types
  <2>2. Cardinality(Stored) \in Nat /\ Cardinality(Emitters) \in Nat
    BY StoredFinite
  <2>3. CASE emitPc[e] = "none"
    BY <2>2, <2>3 DEF CountInv
  <2>4. CASE emitPc[e] = "write"
    <3>1. Cardinality(Stored) < Cardinality(Emitters)
      BY <2>4, StoredFinite DEF Stored
    <3>2. emitId[e] \in 1 .. Cardinality(Stored) + 1
      BY <2>4 DEF CountInv
    <3> QED
      BY <2>2, <3>1, <3>2
  <2>5. CASE emitPc[e] = "done"
    <3>1. emitId[e] \in 1 .. Cardinality(Emitters)
      BY <2>5 DEF CountInv
    <3> QED
      BY <2>2, <3>1
  <2> QED
    BY <2>1, <2>3, <2>4, <2>5
<1>2. emitId \in [Emitters -> 0 .. Cardinality(Emitters)]
  BY <1>1 DEF Types
<1>3. m_acks \subseteq (1 .. Cardinality(Emitters)) \X Emitters
  BY DEF Types, CountInv
<1>4. ASSUME NEW x \in Items, x \in Range(ready) PROVE x \in Handlers
  <2>1. CASE x[1] # "ack"
    BY <2>1, ItemOf DEF Handlers, Names
  <2>2. CASE x[1] = "ack"
    <3>1. PICK e \in Emitters, n \in Nat : x = <<"ack", e, n>>
      BY <2>2, ItemOf
    <3>2. emitPc[e] = "done" /\ n = emitId[e]
      BY <1>4, <3>1 DEF SeenInv, Pending
    <3>3. n \in 1 .. Cardinality(Emitters)
      BY <3>2 DEF CountInv
    <3> QED
      BY <3>1, <3>3 DEF Handlers
  <2> QED
    BY <2>1, <2>2
<1>5. ready \in Seq(Handlers)
  <2>1. ready \in Seq(Items)
    BY DEF Types
  <2>2. \A i \in 1 .. Len(ready) : ready[i] \in Items /\ ready[i] \in Range(ready)
    BY <2>1, RangeEquality
  <2>3. \A i \in 1 .. Len(ready) : ready[i] \in Handlers
    BY <1>4, <2>2
  <2> QED
    BY <2>1, <2>3
<1> QED
  BY <1>2, <1>3, <1>5 DEF TypeOK, Types, PlainTypes

(***************************************************************************)
(* Every variable keeps its type, for any number of emitters; in           *)
(* particular no id exceeds the number of emits, though they overlap in    *)
(* s_global_event_id++, where a write may set the counter back.            *)
(***************************************************************************)
THEOREM TypeCorrect == Spec => []TypeOK
<1>1. Init => PlainTypes
  BY PlainInit
<1>2. Init => SeenInv
  BY AckInit DEF AckInv
<1>3. Types /\ SeenInv /\ [Next]_vars => SeenInv'
  BY SeenStep
<1>4. Types /\ CountInv /\ [Next]_vars => CountInv'
  BY CountStep
<1>5. PlainTypes /\ [Next]_vars => PlainTypes'
  BY PlainStep
<1> QED
  BY <1>1, <1>2, <1>3, <1>4, <1>5, CountInit, TypesAlways, TypesSuffice, PTL DEF Spec
=============================================================================
