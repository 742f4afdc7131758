--------------------------- MODULE Startup_proofs ---------------------------
(***************************************************************************)
(* Theorems about Startup, and SioSocket in it, for every value of their   *)
(* constants: that the registration waits for the connection, and that no  *)
(* packet of the socket is sent twice, disappears, or is overtaken by what *)
(* was emitted after it.                                                   *)
(***************************************************************************)
EXTENDS Startup, FiniteSetTheorems, SequenceTheorems, TLAPS

-----------------------------------------------------------------------------
\* Sequences as sets of packets.

\* What Append adds to a range.
LEMMA RangeAppend ==
  ASSUME NEW S, NEW s \in Seq(S), NEW e \in S
  PROVE  Append(s, e) \in Seq(S) /\ Range(Append(s, e)) = Range(s) \cup {e}
<1>1. Append(s, e) \in Seq(S) /\ Len(Append(s, e)) = Len(s) + 1 /\ Len(s) \in Nat
  BY AppendProperties, LenProperties
<1>2. /\ \A i \in 1 .. Len(s) : Append(s, e)[i] = s[i]
      /\ Append(s, e)[Len(s) + 1] = e
  BY AppendProperties
<1>3. /\ Range(s) = {s[i] : i \in 1 .. Len(s)}
      /\ Range(Append(s, e)) = {Append(s, e)[i] : i \in 1 .. Len(s) + 1}
  BY <1>1, RangeEquality
<1>4. 1 .. Len(s) + 1 = (1 .. Len(s)) \cup {Len(s) + 1}
  BY <1>1
<1> QED
  BY <1>1, <1>2, <1>3, <1>4

\* Head is in the range, and Tail adds nothing to it.
LEMMA RangeTail ==
  ASSUME NEW S, NEW s \in Seq(S), s # <<>>
  PROVE  /\ Head(s) \in S /\ Tail(s) \in Seq(S)
         /\ Head(s) \in Range(s)
         /\ Range(Tail(s)) \subseteq Range(s)
<1>1. /\ Head(s) \in S /\ Tail(s) \in Seq(S)
      /\ Len(Tail(s)) = Len(s) - 1
      /\ \A i \in 1 .. Len(Tail(s)) : Tail(s)[i] = s[i + 1]
  BY HeadTailProperties
<1>2. Len(s) \in Nat \ {0}
  BY EmptySeq
<1>3. /\ Range(s) = {s[i] : i \in 1 .. Len(s)}
      /\ Range(Tail(s)) = {Tail(s)[i] : i \in 1 .. Len(Tail(s))}
  BY <1>1, RangeEquality
<1>4. Head(s) = s[1]
  BY <1>2
<1>5. \A i \in 1 .. Len(Tail(s)) : i + 1 \in 1 .. Len(s)
  BY <1>1, <1>2
<1> QED
  BY <1>1, <1>2, <1>3, <1>4, <1>5

-----------------------------------------------------------------------------
\* Type correctness.

\* The values the constructors leave have their types.
LEMMA TypeInit == Init => TypeOK
<1> SUFFICES ASSUME Init PROVE TypeOK
  OBVIOUS
<1>1. <<>> \in Seq(Packets)
  BY EmptySeq
<1>2. SocketTypeOK
  <2>1. 0 \in 0 .. MaxLosses
    BY SocketAssumption
  <2> QED
    BY <1>1, <2>1 DEF Init, SocketInit, SocketTypeOK
<1>3. bound \in 0 .. Len(Events) /\ bound # Len(Events)
  <2>1. Len(Events) = 4
    BY DEF Events
  <2> QED
    BY <2>1 DEF Init
<1> QED
  BY <1>2, <1>3 DEF Init, TypeOK

\* What send does to the variables of the client.
LEMMA SendTypes ==
  ASSUME SocketTypeOK, NEW sender \in Packets, NEW p \in Packets, send(sender, p)
  PROVE  posted' \in Seq(Packets) /\ wire' \in Seq(Packets) /\ lost' \subseteq Packets
<1>1. Append(posted, p) \in Seq(Packets) /\ Append(wire, p) \in Seq(Packets)
  BY RangeAppend DEF SocketTypeOK
<1> QED
  BY <1>1 DEF send, send_impl, SocketTypeOK

\* The start of an emit.
LEMMA TypeEmit ==
  ASSUME SocketTypeOK, NEW p \in Packets, Emit(p)
  PROVE  SocketTypeOK'
<1>1. begun' \in Seq(Packets)
  BY RangeAppend DEF Emit, SocketTypeOK
<1> QED
  BY <1>1 DEF Emit, SocketTypeOK, socketVars, netRest

\* The steps of an emit under way.
LEMMA TypeEmitStep ==
  ASSUME SocketTypeOK, NEW p \in Packets, EmitStep(p)
  PROVE  SocketTypeOK'
<1> USE DEF socketVars, netVars, netRest, clientVars
<1>1. CASE TestConnected(p)
  BY <1>1 DEF TestConnected, EmitDone, SocketTypeOK
<1>2. CASE TakeQueued(p)
  <2>1. CASE m_packet_queue = <<>>
    BY <1>2, <2>1 DEF TakeQueued, SocketTypeOK
  <2>2. CASE m_packet_queue # <<>>
    <3>1. Head(m_packet_queue) \in Packets /\ Tail(m_packet_queue) \in Seq(Packets)
      BY <2>2, RangeTail DEF SocketTypeOK
    <3>2. /\ front' = [front EXCEPT ![p] = Head(m_packet_queue)]
          /\ pc' = [pc EXCEPT ![p] = "front"]
      BY <1>2, <2>2 DEF TakeQueued
    <3>3. \A q \in Packets : pc'[q] = "front" => front'[q] \in Packets
      BY <3>1, <3>2 DEF SocketTypeOK
    <3> QED
      BY <1>2, <2>2, <3>1, <3>2, <3>3 DEF TakeQueued, SocketTypeOK
  <2> QED
    BY <2>1, <2>2
<1>3. CASE SendQueued(p)
  <2>1. CASE m_client
    <3>1. front[p] \in Packets
      BY <1>3 DEF SendQueued, SocketTypeOK
    <3>2. posted' \in Seq(Packets) /\ wire' \in Seq(Packets) /\ lost' \subseteq Packets
      BY <1>3, <2>1, <3>1, SendTypes DEF SendQueued
    <3> QED
      BY <1>3, <2>1, <3>2 DEF SendQueued, SocketTypeOK
  <2>2. CASE ~m_client
    BY <1>3, <2>2 DEF SendQueued, SocketTypeOK
  <2> QED
    BY <2>1, <2>2
<1>4. CASE SendOwn(p)
  <2>1. CASE m_client
    <3>1. posted' \in Seq(Packets) /\ wire' \in Seq(Packets) /\ lost' \subseteq Packets
      BY <1>4, <2>1, SendTypes DEF SendOwn
    <3> QED
      BY <1>4, <2>1, <3>1 DEF SendOwn, EmitDone, SocketTypeOK
  <2>2. CASE ~m_client
    BY <1>4, <2>2 DEF SendOwn, SocketTypeOK
  <2> QED
    BY <2>1, <2>2
<1>5. CASE PushPacket(p)
  <2>1. m_packet_queue' \in Seq(Packets)
    BY <1>5, RangeAppend DEF PushPacket, SocketTypeOK
  <2> QED
    BY <1>5, <2>1 DEF PushPacket, EmitDone, SocketTypeOK
<1> QED
  BY <1>1, <1>2, <1>3, <1>4, <1>5 DEF EmitStep

\* The steps of the network thread.
LEMMA TypeSocketNetStep ==
  ASSUME SocketTypeOK, SocketNetStep
  PROVE  SocketTypeOK'
<1> USE DEF socketVars, emitVars, netVars, netRest, clientVars
<1>1. CASE NetSendPosted
  <2>1. Head(posted) \in Packets /\ Tail(posted) \in Seq(Packets)
    BY <1>1, RangeTail DEF NetSendPosted, SocketTypeOK
  <2>2. wire' \in Seq(Packets) /\ lost' \subseteq Packets
    <3>1. wire \in Seq(Packets) /\ send_impl(Head(posted))
      BY <1>1 DEF NetSendPosted, SocketTypeOK
    <3>2. Append(wire, Head(posted)) \in Seq(Packets)
      BY <2>1, <3>1, RangeAppend
    <3> QED
      BY <2>1, <3>1, <3>2 DEF send_impl, SocketTypeOK
  <2> QED
    BY <1>1, <2>1, <2>2 DEF NetSendPosted, SocketTypeOK
<1>2. CASE OnConnected
  BY <1>2 DEF OnConnected, SocketTypeOK
<1>3. CASE NetTakeQueued
  <2>1. CASE m_packet_queue = <<>>
    BY <1>3, <2>1 DEF NetTakeQueued, SocketTypeOK
  <2>2. CASE m_packet_queue # <<>>
    <3>1. Head(m_packet_queue) \in Packets /\ Tail(m_packet_queue) \in Seq(Packets)
      BY <2>2, RangeTail DEF SocketTypeOK
    <3> QED
      BY <1>3, <2>2, <3>1 DEF NetTakeQueued, SocketTypeOK
  <2> QED
    BY <2>1, <2>2
<1>4. CASE NetSendQueued
  <2>1. wire' \in Seq(Packets) /\ lost' \subseteq Packets
    <3>1. netFront \in Packets /\ wire \in Seq(Packets)
      BY <1>4 DEF NetSendQueued, SocketTypeOK
    <3>2. Append(wire, netFront) \in Seq(Packets)
      BY <3>1, RangeAppend
    <3> QED
      BY <1>4, <3>1, <3>2 DEF NetSendQueued, send_impl, SocketTypeOK
  <2> QED
    BY <1>4, <2>1 DEF NetSendQueued, SocketTypeOK
<1>5. CASE ClearFlag
  BY <1>5 DEF ClearFlag, SocketTypeOK
<1>6. CASE ClearQueue
  <2>1. Range(m_packet_queue) \subseteq Packets /\ <<>> \in Seq(Packets)
    BY RangeOfSeq, EmptySeq DEF SocketTypeOK
  <2> QED
    BY <1>6, <2>1 DEF ClearQueue, SocketTypeOK
<1> QED
  BY <1>1, <1>2, <1>3, <1>4, <1>5, <1>6 DEF SocketNetStep

\* What happens to the connection.
LEMMA TypeConnection ==
  ASSUME SocketTypeOK, OnOpen \/ OnDisconnect \/ OnClose
  PROVE  SocketTypeOK'
<1> USE DEF socketVars, emitVars, netRest, clientVars
<1>1. CASE OnOpen
  BY <1>1 DEF OnOpen, SocketTypeOK
<1>2. CASE OnDisconnect
  <2>1. losses' \in 0 .. MaxLosses
    <3>1. losses \in 0 .. MaxLosses /\ losses < MaxLosses /\ losses' = losses + 1
      BY <1>2 DEF OnDisconnect, SocketTypeOK
    <3>2. MaxLosses \in Nat
      BY SocketAssumption
    <3> QED
      BY <3>1, <3>2
  <2> QED
    BY <1>2, <2>1 DEF OnDisconnect, SocketTypeOK
<1>3. CASE OnClose
  BY <1>3 DEF OnClose, SocketTypeOK
<1> QED
  BY <1>1, <1>2, <1>3

\* Every step keeps the types.
LEMMA TypeStep == TypeOK /\ [Next]_vars => TypeOK'
<1> SUFFICES ASSUME TypeOK, [Next]_vars PROVE TypeOK'
  OBVIOUS
<1> USE DEF mainVars
<1> DEFINE same == UNCHANGED allSocketVars
<1>1. SocketTypeOK
  BY DEF TypeOK
<1>2. ASSUME same PROVE SocketTypeOK'
  BY <1>1, <1>2
  DEF SocketTypeOK, allSocketVars, socketVars, emitVars, netVars, clientVars
<1>3. Len(Events) = 4
  BY DEF Events
<1>4. CASE MainStep
  <2>1. ASSUME NEW name \in Names, AddService(name) PROVE TypeOK'
    BY <1>2, <2>1 DEF AddService, TypeOK
  <2>2. CASE Connect \/ CheckFinished \/ Wait \/ Run
    BY <1>2, <2>2 DEF Connect, CheckFinished, Wait, Run, At, TypeOK
  <2>3. CASE Bind
    <3>1. bound' \in 0 .. Len(Events)
      <4>1. bound # Len(Events) /\ bound' = bound + 1
        BY <2>3 DEF Bind, At, TypeOK
      <4> QED
        BY <1>3, <4>1 DEF TypeOK
    <3> QED
      BY <1>2, <2>3, <3>1 DEF Bind, TypeOK
  <2>4. ASSUME NEW p \in Early, Subscribe(p) PROVE TypeOK'
    <3>1. SocketTypeOK'
      BY <1>1, <2>4, TypeEmit DEF Subscribe, Packets
    <3> QED
      BY <2>4, <3>1 DEF Subscribe, TypeOK
  <2> QED
    BY <1>4, <2>1, <2>2, <2>3, <2>4 DEF MainStep
<1>5. CASE WakeSpuriously
  BY <1>2, <1>5 DEF WakeSpuriously, At, TypeOK
<1>6. ASSUME NEW p \in Packets, EmitLater(p) PROVE TypeOK'
  <2>1. SocketTypeOK'
    BY <1>1, <1>6, TypeEmit DEF EmitLater
  <2> QED
    BY <1>6, <2>1 DEF EmitLater, TypeOK
<1>7. ASSUME NEW p \in Packets, EmitSteps(p) PROVE TypeOK'
  <2>1. SocketTypeOK'
    BY <1>1, <1>7, TypeEmitStep DEF EmitSteps
  <2> QED
    BY <1>7, <2>1 DEF EmitSteps, TypeOK
<1>8. CASE SocketNetStep /\ UNCHANGED mainVars
  <2>1. SocketTypeOK'
    BY <1>1, <1>8, TypeSocketNetStep
  <2> QED
    BY <1>8, <2>1 DEF TypeOK
<1>9. CASE Open
  <2>1. SocketTypeOK'
    BY <1>1, <1>9, TypeConnection DEF Open
  <2> QED
    BY <1>9, <2>1 DEF Open, TypeOK
<1>10. CASE OnFail
  <2>1. SocketTypeOK'
    BY <1>1, <1>10
    DEF OnFail, SocketTypeOK, socketVars, emitVars, netVars, clientVars
  <2> QED
    BY <1>10, <2>1 DEF OnFail, TypeOK
<1>11. CASE Disconnect \/ CloseNamespace
  <2>1. SocketTypeOK'
    BY <1>1, <1>11, TypeConnection DEF Disconnect, CloseNamespace
  <2> QED
    BY <1>11, <2>1 DEF Disconnect, CloseNamespace, TypeOK
<1>12. CASE UNCHANGED vars
  BY <1>2, <1>12 DEF vars, TypeOK
<1> QED
  BY <1>4, <1>5, <1>6, <1>7, <1>8, <1>9, <1>10, <1>11, <1>12 DEF Next, NetStep

(***************************************************************************)
(* The variables keep their types, whatever the packets and the bounds: in *)
(* particular no thread that takes a packet from the queue ever has none   *)
(* in hand when it sends it.                                               *)
(***************************************************************************)
THEOREM TypeCorrect == Spec => []TypeOK
  BY TypeInit, TypeStep, PTL DEF Spec

-----------------------------------------------------------------------------
\* The wait of the main thread.

\* A step of the socket or of the network thread leaves the main thread alone, but for Open.
LEMMA WakeupStep == NoLostWakeup /\ [Next]_vars => NoLostWakeup'
<1> SUFFICES ASSUME NoLostWakeup, [Next]_vars PROVE NoLostWakeup'
  OBVIOUS
<1> USE DEF mainVars
<1>1. CASE UNCHANGED <<main, connect_finished>>
  BY <1>1 DEF NoLostWakeup
<1>2. CASE MainStep
  <2>1. CASE CheckFinished
    BY <2>1 DEF CheckFinished, NoLostWakeup
  <2>2. CASE Wait
    BY <2>2 DEF Wait, At, NoLostWakeup
  <2>3. CASE Connect \/ Bind \/ Run \/ \E p \in Early : Subscribe(p)
    BY <2>3 DEF Connect, Bind, Run, Subscribe, NoLostWakeup
  <2>4. CASE \E name \in Names : AddService(name)
    BY <1>1, <2>4 DEF AddService
  <2> QED
    BY <1>2, <2>1, <2>2, <2>3, <2>4 DEF MainStep
<1>3. CASE WakeSpuriously
  BY <1>3 DEF WakeSpuriously, NoLostWakeup
<1>4. CASE Open
  BY <1>4 DEF Open, LockTaken, NoLostWakeup
<1>5. CASE OnFail \/ Disconnect \/ CloseNamespace \/ UNCHANGED vars
  BY <1>1, <1>5 DEF OnFail, Disconnect, CloseNamespace, vars
<1>6. CASE (SocketNetStep /\ UNCHANGED mainVars)
             \/ \E p \in Packets : EmitLater(p) \/ EmitSteps(p)
  BY <1>1, <1>6 DEF EmitLater, EmitSteps
<1> QED
  BY <1>2, <1>3, <1>4, <1>5, <1>6 DEF Next, NetStep

(***************************************************************************)
(* start() never waits for a notify that has been made: its check of       *)
(* connect_finished and its wait are one critical section of _lock, and    *)
(* on_connected's write of the flag and its notify another.                *)
(***************************************************************************)
THEOREM NoWakeupIsLost == Spec => []NoLostWakeup
<1>1. Init => NoLostWakeup
  BY DEF Init, NoLostWakeup
<1> QED
  BY <1>1, WakeupStep, PTL DEF Spec

-----------------------------------------------------------------------------
\* What is ready when REGISTRATION is sent.

\* The main thread does its work in order.
LEMMA PreparedStep == TypeOK /\ Prepared /\ [Next]_vars => Prepared'
<1> SUFFICES ASSUME TypeOK, Prepared, [Next]_vars PROVE Prepared'
  OBVIOUS
<1> USE DEF mainVars
<1>1. CASE UNCHANGED mainVars
  BY <1>1 DEF Prepared
<1>2. CASE MainStep
  <2>1. CASE \E name \in Names : AddService(name)
    BY <2>1 DEF AddService, At, Prepared
  <2>2. CASE Connect \/ CheckFinished \/ Wait
    BY <2>2 DEF Connect, CheckFinished, Wait, At, Prepared
  <2>3. CASE Bind
    BY <2>3 DEF Bind, At, Prepared
  <2>4. CASE Run \/ \E p \in Early : Subscribe(p)
    BY <2>4 DEF Run, Subscribe, At, Prepared
  <2> QED
    BY <1>2, <2>1, <2>2, <2>3, <2>4 DEF MainStep
<1>3. CASE WakeSpuriously
  BY <1>3 DEF WakeSpuriously, At, Prepared
<1>4. CASE Open
  BY <1>4 DEF Open, Prepared
<1>5. CASE OnFail \/ Disconnect \/ CloseNamespace \/ UNCHANGED vars
  BY <1>1, <1>5 DEF OnFail, Disconnect, CloseNamespace, vars
<1>6. CASE (SocketNetStep /\ UNCHANGED mainVars)
             \/ \E p \in Packets : EmitLater(p) \/ EmitSteps(p)
  BY <1>1, <1>6 DEF EmitLater, EmitSteps
<1> QED
  BY <1>2, <1>3, <1>4, <1>5, <1>6 DEF Next, NetStep

\* A step that begins no emit puts no packet under way that was not.
LEMMA SendKeepsUnderway ==
  ASSUME SocketTypeOK, NEW sender \in Packets, NEW p \in Packets, send(sender, p)
  PROVE  Range(posted') \cup Range(wire') \subseteq Range(posted) \cup Range(wire) \cup {p}
<1>1. posted \in Seq(Packets) /\ wire \in Seq(Packets)
  BY DEF SocketTypeOK
<1>2. /\ Range(Append(posted, p)) = Range(posted) \cup {p}
      /\ Range(Append(wire, p)) = Range(wire) \cup {p}
  BY <1>1, RangeAppend
<1> QED
  BY <1>2 DEF send, send_impl

LEMMA EmitStepKeepsUnderway ==
  ASSUME SocketTypeOK, NEW p \in Packets, EmitStep(p)
  PROVE  Early \cap Underway' \subseteq Underway
<1> USE DEF socketVars, netVars, netRest, clientVars
<1>1. p \in Underway
  BY DEF EmitStep, TestConnected, TakeQueued, SendQueued, SendOwn, PushPacket, Underway,
         SocketTypeOK
<1>2. {q \in Packets : pc'[q] # "none"} \subseteq Underway
  <2>1. \A q \in Packets \ {p} : pc'[q] = pc[q]
    BY DEF EmitStep, TestConnected, TakeQueued, SendQueued, SendOwn, PushPacket, EmitDone,
           SocketTypeOK
  <2> QED
    BY <1>1, <2>1 DEF Underway
<1>3. NoPacket \notin Early
  BY SocketAssumption DEF Packets
<1>4. CASE TestConnected(p)
  BY <1>2, <1>4 DEF TestConnected, Underway
<1>5. CASE TakeQueued(p)
  <2>1. CASE m_packet_queue = <<>>
    BY <1>2, <1>5, <2>1 DEF TakeQueued, Underway
  <2>2. CASE m_packet_queue # <<>>
    <3>1. /\ Head(m_packet_queue) \in Range(m_packet_queue)
          /\ Range(Tail(m_packet_queue)) \subseteq Range(m_packet_queue)
      BY <2>2, RangeTail DEF SocketTypeOK
    <3>2. /\ front' = [front EXCEPT ![p] = Head(m_packet_queue)]
          /\ m_packet_queue' = Tail(m_packet_queue)
          /\ UNCHANGED <<netFront, posted, wire>>
      BY <1>5, <2>2 DEF TakeQueued
    <3>3. {front'[q] : q \in Packets} \subseteq {front[q] : q \in Packets} \cup {Head(m_packet_queue)}
      BY <3>2 DEF SocketTypeOK
    <3> QED
      BY <1>2, <3>1, <3>2, <3>3 DEF Underway
  <2> QED
    BY <2>1, <2>2
<1>6. CASE SendQueued(p)
  <2>1. CASE m_client
    <3>1. front[p] \in Packets /\ send(p, front[p])
      BY <1>6, <2>1 DEF SendQueued, SocketTypeOK
    <3>2. Range(posted') \cup Range(wire') \subseteq Range(posted) \cup Range(wire) \cup {front[p]}
      BY <3>1, SendKeepsUnderway
    <3>3. /\ front' = [front EXCEPT ![p] = NoPacket]
          /\ UNCHANGED <<netFront, m_packet_queue>>
      BY <1>6, <2>1 DEF SendQueued
    <3>4. {front'[q] : q \in Packets} \subseteq {front[q] : q \in Packets} \cup {NoPacket}
      BY <3>3 DEF SocketTypeOK
    <3> QED
      BY <1>2, <1>3, <3>2, <3>3, <3>4 DEF Underway
  <2>2. CASE ~m_client
    BY <1>2, <1>6, <2>2 DEF SendQueued, Underway
  <2> QED
    BY <2>1, <2>2
<1>7. CASE SendOwn(p)
  <2>1. CASE m_client
    <3>1. Range(posted') \cup Range(wire') \subseteq Range(posted) \cup Range(wire) \cup {p}
      BY <1>7, <2>1, SendKeepsUnderway DEF SendOwn
    <3>2. UNCHANGED <<front, netFront, m_packet_queue>>
      BY <1>7, <2>1 DEF SendOwn
    <3> QED
      BY <1>1, <1>2, <3>1, <3>2 DEF Underway
  <2>2. CASE ~m_client
    BY <1>2, <1>7, <2>2 DEF SendOwn, Underway
  <2> QED
    BY <2>1, <2>2
<1>8. CASE PushPacket(p)
  <2>1. Range(m_packet_queue') = Range(m_packet_queue) \cup {p}
    <3>1. m_packet_queue \in Seq(Packets) /\ m_packet_queue' = Append(m_packet_queue, p)
      BY <1>8 DEF PushPacket, SocketTypeOK
    <3> QED
      BY <3>1, RangeAppend
  <2>2. UNCHANGED <<front, netFront, posted, wire>>
    BY <1>8 DEF PushPacket
  <2> QED
    BY <1>1, <1>2, <2>1, <2>2 DEF Underway
<1> QED
  BY <1>4, <1>5, <1>6, <1>7, <1>8 DEF EmitStep

LEMMA NetStepKeepsUnderway ==
  ASSUME SocketTypeOK, SocketNetStep
  PROVE  Early \cap Underway' \subseteq Underway
<1> USE DEF socketVars, emitVars, netVars, netRest, clientVars
<1>1. NoPacket \notin Early
  BY SocketAssumption DEF Packets
<1>2. CASE NetSendPosted
  <2>1. /\ Head(posted) \in Packets
        /\ Head(posted) \in Range(posted)
        /\ Range(Tail(posted)) \subseteq Range(posted)
    BY <1>2, RangeTail DEF NetSendPosted, SocketTypeOK
  <2>2. Range(wire') \subseteq Range(wire) \cup {Head(posted)}
    <3>1. wire \in Seq(Packets) /\ send_impl(Head(posted))
      BY <1>2 DEF NetSendPosted, SocketTypeOK
    <3>2. Range(Append(wire, Head(posted))) = Range(wire) \cup {Head(posted)}
      BY <2>1, <3>1, RangeAppend
    <3> QED
      BY <3>1, <3>2 DEF send_impl
  <2> QED
    BY <1>2, <2>1, <2>2 DEF NetSendPosted, Underway
<1>3. CASE OnConnected
  BY <1>3 DEF OnConnected, Underway
<1>4. CASE NetTakeQueued
  <2>1. CASE m_packet_queue = <<>>
    BY <1>4, <2>1 DEF NetTakeQueued, Underway
  <2>2. CASE m_packet_queue # <<>>
    <3>1. /\ Head(m_packet_queue) \in Range(m_packet_queue)
          /\ Range(Tail(m_packet_queue)) \subseteq Range(m_packet_queue)
      BY <2>2, RangeTail DEF SocketTypeOK
    <3> QED
      BY <1>4, <2>2, <3>1 DEF NetTakeQueued, Underway
  <2> QED
    BY <2>1, <2>2
<1>5. CASE NetSendQueued
  <2>1. netFront \in Packets /\ wire \in Seq(Packets)
    BY <1>5 DEF NetSendQueued, SocketTypeOK
  <2>2. Range(wire') \subseteq Range(wire) \cup {netFront}
    BY <1>5, <2>1, RangeAppend DEF NetSendQueued, send_impl
  <2> QED
    BY <1>1, <1>5, <2>2 DEF NetSendQueued, Underway
<1>6. CASE ClearFlag
  BY <1>6 DEF ClearFlag, Underway
<1>7. CASE ClearQueue
  <2>1. Range(m_packet_queue') = {}
    BY <1>7 DEF ClearQueue, Range
  <2> QED
    BY <1>7, <2>1 DEF ClearQueue, Underway
<1> QED
  BY <1>2, <1>3, <1>4, <1>5, <1>6, <1>7 DEF SocketNetStep

\* REGISTRATION is under way from subscription on.
LEMMA UnderwayStep ==
  TypeOK /\ NotBeforeSubscription /\ [Next]_vars => NotBeforeSubscription'
<1> SUFFICES ASSUME TypeOK, NotBeforeSubscription, [Next]_vars
             PROVE  NotBeforeSubscription'
  OBVIOUS
<1> USE DEF mainVars, At
<1>1. SocketTypeOK
  BY DEF TypeOK
<1>2. ASSUME Early \cap Underway' \subseteq Underway,
             main \in {"emitting", "run"} => main' \in {"emitting", "run"}
      PROVE  NotBeforeSubscription'
  BY <1>2 DEF NotBeforeSubscription
<1>3. ASSUME UNCHANGED allSocketVars PROVE Underway' = Underway
  BY <1>3
  DEF allSocketVars, socketVars, emitVars, netVars, clientVars, Underway
<1>4. CASE MainStep
  <2>1. CASE \E p \in Early : Subscribe(p)
    BY <2>1 DEF Subscribe, NotBeforeSubscription
  <2>2. CASE \E name \in Names : AddService(name)
    BY <1>2, <1>3, <2>2 DEF AddService
  <2>3. CASE Connect \/ CheckFinished \/ Wait \/ Bind \/ Run
    BY <1>2, <1>3, <2>3 DEF Connect, CheckFinished, Wait, Bind, Run
  <2> QED
    BY <1>4, <2>1, <2>2, <2>3 DEF MainStep
<1>5. CASE WakeSpuriously
  BY <1>2, <1>3, <1>5 DEF WakeSpuriously
<1>6. ASSUME NEW p \in Packets, EmitLater(p) PROVE NotBeforeSubscription'
  <2>1. p \notin Early /\ Emit(p) /\ UNCHANGED mainVars
    BY <1>6 DEF EmitLater
  <2>2. \A q \in Packets \ {p} : pc'[q] = pc[q]
    BY <1>1, <2>1 DEF Emit, SocketTypeOK
  <2>3. UNCHANGED <<m_packet_queue, front, netFront, posted, wire>>
    BY <2>1 DEF Emit, socketVars, netRest
  <2>4. Early \cap Underway' \subseteq Underway
    BY <2>1, <2>2, <2>3 DEF Underway
  <2> QED
    BY <1>2, <2>1, <2>4
<1>7. ASSUME NEW p \in Packets, EmitSteps(p) PROVE NotBeforeSubscription'
  BY <1>1, <1>2, <1>7, EmitStepKeepsUnderway DEF EmitSteps
<1>8. CASE SocketNetStep /\ UNCHANGED mainVars
  BY <1>1, <1>2, <1>8, NetStepKeepsUnderway
<1>9. CASE Open \/ OnFail \/ Disconnect \/ CloseNamespace
  <2>1. Underway' = Underway
    BY <1>9 DEF Open, OnOpen, OnFail, Disconnect, OnDisconnect, CloseNamespace, OnClose,
                Underway, socketVars, emitVars, netVars, netRest, clientVars
  <2>2. main \in {"emitting", "run"} => main' \in {"emitting", "run"}
    BY <1>9 DEF Open, OnFail, Disconnect, CloseNamespace
  <2> QED
    BY <1>2, <2>1, <2>2
<1>10. CASE UNCHANGED vars
  BY <1>2, <1>3, <1>10 DEF vars
<1> QED
  BY <1>4, <1>5, <1>6, <1>7, <1>8, <1>9, <1>10 DEF Next, NetStep

(***************************************************************************)
(* By the time REGISTRATION is on the wire every event has its handler and *)
(* every command it offers a creator, however the connection comes, goes   *)
(* and comes back and whatever spurious wake-ups do: the packet begins its *)
(* way through the socket at subscription, and subscription comes last.    *)
(***************************************************************************)
THEOREM ReadyWhenRegistered == Spec => []RegisteredIsReady
<1>1. Init => ReadyInv
  <2> SUFFICES ASSUME Init PROVE ReadyInv
    OBVIOUS
  <2>1. Prepared
    BY DEF Init, Prepared
  <2>2. Range(<<>>) = {}
    BY DEF Range
  <2>3. Early \cap Underway = {}
    BY <2>2, SocketAssumption DEF Init, SocketInit, Underway, Packets
  <2> QED
    BY <2>1, <2>3 DEF ReadyInv, NotBeforeSubscription
<1>2. TypeOK /\ ReadyInv /\ [Next]_vars => ReadyInv'
  BY PreparedStep, UnderwayStep DEF ReadyInv
<1>3. ReadyInv => RegisteredIsReady
  BY DEF ReadyInv, Prepared, NotBeforeSubscription, Underway, RegisteredIsReady
<1> QED
  BY <1>1, <1>2, <1>3, TypeCorrect, PTL DEF Spec

-----------------------------------------------------------------------------
\* Counting.

One(b) == IF b THEN 1 ELSE 0

\* The positions of a packet in a queue are finitely many.
LEMMA OccurrencesType ==
  ASSUME NEW S, NEW s \in Seq(S), NEW p
  PROVE  /\ IsFiniteSet({i \in DOMAIN s : s[i] = p})
         /\ Occurrences(p, s) \in Nat
         /\ Occurrences(p, s) = 0 <=> p \notin Range(s)
<1> DEFINE at == {i \in DOMAIN s : s[i] = p}
<1>1. Len(s) \in Nat /\ DOMAIN s = 1 .. Len(s)
  BY LenProperties
<1>2. IsFiniteSet(1 .. Len(s))
  BY <1>1, FS_Interval
<1>3. at \in SUBSET (1 .. Len(s))
  BY <1>1
<1>4. IsFiniteSet(at)
  BY <1>2, <1>3, FS_Subset
<1>5. Cardinality(at) \in Nat
  BY <1>4, FS_CardinalityType
<1>6. Cardinality(at) = 0 <=> at = {}
  BY <1>4, FS_EmptySet
<1>7. at = {} <=> p \notin Range(s)
  BY DEF Range
<1>8. Occurrences(p, s) = Cardinality(at)
  BY DEF Occurrences
<1> HIDE DEF at
<1> QED
  BY <1>4, <1>5, <1>6, <1>7, <1>8 DEF at

\* Append adds an occurrence of what it appends.
LEMMA OccurrencesAppend ==
  ASSUME NEW S, NEW s \in Seq(S), NEW e \in S, NEW p
  PROVE  Occurrences(p, Append(s, e)) = Occurrences(p, s) + One(e = p)
<1> DEFINE at == {i \in DOMAIN s : s[i] = p}
           t == Append(s, e)
           end == Len(s) + 1
           atT == {i \in DOMAIN t : t[i] = p}
<1>1. /\ Len(s) \in Nat /\ DOMAIN s = 1 .. Len(s)
      /\ t \in Seq(S) /\ Len(t) = end
      /\ \A i \in 1 .. Len(s) : t[i] = s[i]
      /\ t[end] = e
  BY AppendProperties, LenProperties
<1>2. DOMAIN t = 1 .. end
  BY <1>1, LenProperties
<1>3. 1 .. end = (1 .. Len(s)) \cup {end} /\ end \notin 1 .. Len(s)
  BY <1>1
<1>4. IsFiniteSet(at)
  BY OccurrencesType
<1>5. Cardinality(at) \in Nat
  BY <1>4, FS_CardinalityType
<1>6. Occurrences(p, s) = Cardinality(at) /\ Occurrences(p, t) = Cardinality(atT)
  BY DEF Occurrences
<1>7. end \notin at
  BY <1>1, <1>3
<1>8. CASE e = p
  <2>1. atT = at \cup {end}
    BY <1>1, <1>2, <1>3, <1>8
  <2>2. Cardinality(at \cup {end}) = Cardinality(at) + 1
    BY <1>4, <1>7, FS_AddElement
  <2> QED
    BY <1>5, <1>6, <1>8, <2>1, <2>2 DEF One
<1>9. CASE e # p
  <2>1. atT = at
    BY <1>1, <1>2, <1>3, <1>9
  <2> HIDE DEF at, atT
  <2> QED
    BY <1>5, <1>6, <1>9, <2>1 DEF One, t
<1> QED
  BY <1>8, <1>9

\* Tail takes an occurrence of the head away.
LEMMA OccurrencesTail ==
  ASSUME NEW S, NEW s \in Seq(S), s # <<>>, NEW p
  PROVE  Occurrences(p, Tail(s)) = Occurrences(p, s) - One(Head(s) = p)
<1> DEFINE t == Tail(s)
           at == {i \in DOMAIN s : s[i] = p}
           atT == {i \in DOMAIN t : t[i] = p}
           later == {i \in at : i # 1}
           shift == [i \in atT |-> i + 1]
<1>1. /\ t \in Seq(S) /\ Len(t) = Len(s) - 1
      /\ \A i \in 1 .. Len(t) : t[i] = s[i + 1]
  BY HeadTailProperties
<1>2. /\ Len(s) \in Nat \ {0} /\ DOMAIN s = 1 .. Len(s)
      /\ DOMAIN t = 1 .. Len(t)
  BY <1>1, EmptySeq, LenProperties
<1>3. Head(s) = s[1]
  BY <1>2
<1>4. IsFiniteSet(atT) /\ IsFiniteSet(at)
  BY <1>1, OccurrencesType
<1>5. Cardinality(atT) \in Nat
  BY <1>4, FS_CardinalityType
<1>6. Occurrences(p, s) = Cardinality(at) /\ Occurrences(p, t) = Cardinality(atT)
  BY DEF Occurrences
<1>7. shift \in Bijection(atT, later)
  <2>1. \A i \in atT : i \in 1 .. Len(t) /\ i + 1 \in 1 .. Len(s) /\ i + 1 # 1
    BY <1>1, <1>2
  <2>2. \A i \in atT : i + 1 \in later
    BY <1>1, <1>2, <2>1
  <2>3. \A i, k \in atT : shift[i] = shift[k] => i = k
    BY <2>1
  <2>4. \A k \in later : k - 1 \in 1 .. Len(t) /\ (k - 1) + 1 = k
    BY <1>1, <1>2
  <2>5. \A k \in later : k - 1 \in atT /\ shift[k - 1] = k
    BY <1>1, <1>2, <2>4
  <2>6. shift \in [atT -> later]
    BY <2>2
  <2> HIDE DEF shift, atT, later
  <2>7. shift \in Surjection(atT, later)
    BY <2>5, <2>6 DEF Surjection
  <2>8. shift \in Injection(atT, later)
    BY <2>3, <2>6 DEF Injection, IsInjective
  <2> QED
    BY <2>7, <2>8 DEF Bijection
<1>8. IsFiniteSet(later) /\ Cardinality(later) = Cardinality(atT)
  <2>1. ExistsBijection(atT, later)
    BY <1>7 DEF ExistsBijection
  <2> HIDE DEF atT, later
  <2> QED
    BY <1>4, <2>1, FS_Bijection
<1>9. CASE Head(s) = p
  <2>1. at = later \cup {1} /\ 1 \notin later
    BY <1>2, <1>3, <1>9
  <2>2. Cardinality(later \cup {1}) = Cardinality(later) + 1
    BY <1>8, <2>1, FS_AddElement
  <2> HIDE DEF at, atT, later
  <2> QED
    BY <1>5, <1>6, <1>8, <1>9, <2>1, <2>2 DEF One, t
<1>10. CASE Head(s) # p
  <2>1. at = later
    BY <1>2, <1>3, <1>10
  <2> HIDE DEF at, atT, later
  <2> QED
    BY <1>5, <1>6, <1>8, <1>10, <2>1 DEF One, t
<1> QED
  BY <1>9, <1>10

\* What is counted once is at one position.
LEMMA OccursOnce ==
  ASSUME NEW S, NEW s \in Seq(S), NEW p, Occurrences(p, s) \in {0, 1},
         NEW i \in DOMAIN s, NEW k \in DOMAIN s, s[i] = p, s[k] = p
  PROVE  i = k
<1> DEFINE at == {j \in DOMAIN s : s[j] = p}
<1>1. IsFiniteSet(at) /\ i \in at /\ k \in at
  BY OccurrencesType
<1>2. Cardinality(at) # 0
  BY <1>1, FS_EmptySet
<1>3. Cardinality(at) = 1
  BY <1>2 DEF Occurrences
<1>4. PICK x : at = {x}
  BY <1>1, <1>3, FS_Singleton
<1> QED
  BY <1>1, <1>4

-----------------------------------------------------------------------------
\* Where a packet is.

\* The terms of Places that count other than in a queue.
Underhand(p) == IF pc[p] \in {"none", "done"} THEN 0 ELSE 1
Holders(p) == {q \in Packets : front[q] = p}
Held(p) == Cardinality(Holders(p))
NetHeld(p) == One(netFront = p)
Dropped(p) == One(p \in lost)

\* The sum of the seven terms.
LEMMA PlacesSum ==
  ASSUME NEW p \in Packets
  PROVE  Places(p) = Underhand(p)
           + Occurrences(p, m_packet_queue) + Occurrences(p, posted) + Occurrences(p, wire)
           + Held(p) + NetHeld(p) + Dropped(p)
  BY DEF Places, Underhand, Held, Holders, NetHeld, Dropped, One

LEMMA PlacesSumNext ==
  ASSUME NEW p \in Packets
  PROVE  Places(p)' = Underhand(p)'
           + Occurrences(p, m_packet_queue') + Occurrences(p, posted') + Occurrences(p, wire')
           + Held(p)' + NetHeld(p)' + Dropped(p)'
  BY DEF Places, Underhand, Held, Holders, NetHeld, Dropped, One

LEMMA PlacesTypes ==
  ASSUME SocketTypeOK, FrontInv, NEW p \in Packets
  PROVE  /\ Underhand(p) \in Nat
         /\ Occurrences(p, m_packet_queue) \in Nat
         /\ Occurrences(p, posted) \in Nat
         /\ Occurrences(p, wire) \in Nat
         /\ Held(p) \in Nat
         /\ NetHeld(p) \in Nat
         /\ Dropped(p) \in Nat
<1>1. m_packet_queue \in Seq(Packets) /\ posted \in Seq(Packets) /\ wire \in Seq(Packets)
  BY DEF SocketTypeOK
<1>2. IsFiniteSet(Holders(p))
  BY DEF FrontInv, Holders
<1>3. Held(p) \in Nat
  BY <1>2, FS_CardinalityType DEF Held
<1> QED
  BY <1>1, <1>3, OccurrencesType DEF Underhand, NetHeld, Dropped, One

\* The same after a step: the wire is one of the places.
LEMMA PlacesNext ==
  ASSUME SocketTypeOK', FrontInv', NEW p \in Packets
  PROVE  Occurrences(p, wire') <= Places(p)'
<1>1. m_packet_queue' \in Seq(Packets) /\ posted' \in Seq(Packets) /\ wire' \in Seq(Packets)
  BY DEF SocketTypeOK
<1>2. /\ Occurrences(p, m_packet_queue') \in Nat
      /\ Occurrences(p, posted') \in Nat
      /\ Occurrences(p, wire') \in Nat
  BY <1>1, OccurrencesType
<1>3. IsFiniteSet(Holders(p)')
  BY DEF FrontInv, Holders
<1>4. Held(p)' \in Nat
  BY <1>3, FS_CardinalityType DEF Held
<1>5. Underhand(p)' \in Nat /\ NetHeld(p)' \in Nat /\ Dropped(p)' \in Nat
  BY DEF Underhand, NetHeld, Dropped, One
<1> QED
  BY <1>2, <1>4, <1>5, PlacesSumNext

\* A packet that is in no place has not begun, and one that is in a place is in no other.
LEMMA PlacesBound ==
  ASSUME SocketTypeOK, FrontInv, EachPacketOnce, NEW p \in Packets
  PROVE  /\ Underhand(p) + Occurrences(p, m_packet_queue) + Occurrences(p, posted)
              + Occurrences(p, wire) + Held(p) + NetHeld(p) + Dropped(p)
              = One(pc[p] # "none")
         /\ p \in lost => /\ Underhand(p) = 0 /\ Held(p) = 0 /\ NetHeld(p) = 0
                          /\ Occurrences(p, m_packet_queue) = 0
                          /\ Occurrences(p, posted) = 0
                          /\ Occurrences(p, wire) = 0
<1>1. Places(p) = One(pc[p] # "none")
  BY DEF EachPacketOnce, One
<1>2. Dropped(p) = One(p \in lost)
  BY DEF Dropped
<1> QED
  BY <1>1, <1>2, PlacesSum, PlacesTypes DEF One

\* What a thread takes in hand, or gives out of its hand.
LEMMA HeldOne ==
  ASSUME SocketTypeOK, NEW p \in Packets, NEW r \in Packets,
         IsFiniteSet(Holders(r)), front[p] = NoPacket, front'[p] \in Packets,
         \A q \in Packets \ {p} : front'[q] = front[q]
  PROVE  IsFiniteSet(Holders(r)') /\ Held(r)' = Held(r) + One(front'[p] = r)
<1>1. NoPacket \notin Packets
  BY SocketAssumption
<1>2. \A q \in Packets : front'[q] = IF q = p THEN front'[p] ELSE front[q]
  OBVIOUS
<1>3. p \notin Holders(r)
  BY <1>1 DEF Holders
<1>4. Held(r) \in Nat
  BY FS_CardinalityType DEF Held
<1>5. CASE front'[p] = r
  <2>1. Holders(r)' = Holders(r) \cup {p}
    BY <1>2, <1>5 DEF Holders
  <2>2. /\ IsFiniteSet(Holders(r) \cup {p})
        /\ Cardinality(Holders(r) \cup {p}) = Cardinality(Holders(r)) + 1
    BY <1>3, FS_AddElement
  <2> QED
    BY <1>4, <1>5, <2>1, <2>2 DEF Held, One
<1>6. CASE front'[p] # r
  <2>1. Holders(r)' = Holders(r)
    BY <1>2, <1>3, <1>6 DEF Holders
  <2> QED
    BY <1>4, <1>6, <2>1 DEF Held, One
<1> QED
  BY <1>5, <1>6

LEMMA HeldNone ==
  ASSUME SocketTypeOK, NEW p \in Packets, NEW r \in Packets,
         IsFiniteSet(Holders(r)), front[p] \in Packets, front' = [front EXCEPT ![p] = NoPacket]
  PROVE  IsFiniteSet(Holders(r)') /\ Held(r)' = Held(r) - One(front[p] = r)
<1>1. NoPacket \notin Packets
  BY SocketAssumption
<1>2. \A q \in Packets : front'[q] = IF q = p THEN NoPacket ELSE front[q]
  BY DEF SocketTypeOK
<1>3. Held(r) \in Nat
  BY FS_CardinalityType DEF Held
<1>4. Holders(r)' = Holders(r) \ {p}
  BY <1>1, <1>2 DEF Holders
<1>5. /\ IsFiniteSet(Holders(r) \ {p})
      /\ Cardinality(Holders(r) \ {p})
           = IF p \in Holders(r) THEN Cardinality(Holders(r)) - 1 ELSE Cardinality(Holders(r))
  BY FS_RemoveElement
<1>6. p \in Holders(r) <=> front[p] = r
  BY DEF Holders
<1> QED
  BY <1>3, <1>4, <1>5, <1>6 DEF Held, One

\* send_impl and send move a packet that is not lost to one other place.
LEMMA SendImplCounts ==
  ASSUME SocketTypeOK, NEW p \in Packets, p \notin lost, send_impl(p), NEW r \in Packets
  PROVE  /\ Occurrences(r, wire') \in Nat /\ Dropped(r)' \in Nat
         /\ Occurrences(r, wire') + Dropped(r)' = Occurrences(r, wire) + Dropped(r) + One(p = r)
<1>1. Occurrences(r, wire) \in Nat /\ wire \in Seq(Packets)
  BY OccurrencesType DEF SocketTypeOK
<1>2. CASE opened
  <2>1. Occurrences(r, wire') = Occurrences(r, wire) + One(p = r)
    <3>1. wire' = Append(wire, p)
      BY <1>2 DEF send_impl
    <3> QED
      BY <1>1, <3>1, OccurrencesAppend
  <2>2. Dropped(r)' = Dropped(r)
    BY <1>2 DEF send_impl, Dropped
  <2> QED
    BY <1>1, <2>1, <2>2 DEF Dropped, One
<1>3. CASE ~opened
  <2>1. wire' = wire /\ lost' = lost \cup {p}
    BY <1>3 DEF send_impl
  <2>2. Dropped(r)' = Dropped(r) + One(p = r)
    BY <2>1 DEF Dropped, One
  <2> QED
    BY <1>1, <2>1, <2>2 DEF Dropped, One
<1> QED
  BY <1>2, <1>3

LEMMA SendCounts ==
  ASSUME SocketTypeOK, NEW sender \in Packets, NEW p \in Packets, p \notin lost,
         send(sender, p), NEW r \in Packets
  PROVE  /\ Occurrences(r, posted') \in Nat /\ Occurrences(r, wire') \in Nat /\ Dropped(r)' \in Nat
         /\ Occurrences(r, posted') + Occurrences(r, wire') + Dropped(r)'
           = Occurrences(r, posted) + Occurrences(r, wire) + Dropped(r) + One(p = r)
<1>1. posted \in Seq(Packets) /\ wire \in Seq(Packets)
  BY DEF SocketTypeOK
<1>2. /\ Occurrences(r, posted) \in Nat /\ Occurrences(r, wire) \in Nat
      /\ Dropped(r) \in Nat /\ One(p = r) \in Nat
  BY <1>1, OccurrencesType DEF Dropped, One
<1>3. CASE sender \in NetPackets
  <2>1. send_impl(p) /\ posted' = posted
    BY <1>3 DEF send
  <2>2. /\ Occurrences(r, wire') \in Nat /\ Dropped(r)' \in Nat
        /\ Occurrences(r, wire') + Dropped(r)' = Occurrences(r, wire) + Dropped(r) + One(p = r)
    BY <2>1, SendImplCounts
  <2> QED
    BY <1>2, <2>1, <2>2
<1>4. CASE sender \notin NetPackets
  <2>1. posted' = Append(posted, p) /\ UNCHANGED <<wire, lost>>
    BY <1>4 DEF send
  <2>2. Occurrences(r, posted') = Occurrences(r, posted) + One(p = r)
    BY <1>1, <2>1, OccurrencesAppend
  <2>3. Dropped(r)' = Dropped(r)
    BY <2>1 DEF Dropped
  <2> QED
    BY <1>2, <2>1, <2>2, <2>3
<1> QED
  BY <1>3, <1>4

-----------------------------------------------------------------------------
\* No step loses or doubles a packet.

\* Only the handler of a reply has the network thread in "handler".
LEMMA AloneEmit ==
  ASSUME SocketTypeOK, HandlerAlone, NEW p \in Packets, Emit(p) \/ EmitStep(p)
  PROVE  HandlerAlone'
<1> USE DEF Busy
<1>1. \A q \in Packets \ {p} : pc'[q] = pc[q]
  BY DEF Emit, EmitStep, TestConnected, TakeQueued, SendQueued, SendOwn, PushPacket, EmitDone,
         SocketTypeOK
<1>2. CASE p \notin NetPackets
  <2>1. net' = net
    BY <1>2 DEF Emit, EmitStep, TestConnected, TakeQueued, SendQueued, SendOwn, PushPacket,
                EmitDone, netVars
  <2> QED
    BY <1>1, <1>2, <2>1 DEF HandlerAlone, Packets
<1>3. CASE p \in NetPackets
  <2>1. \A q \in NetPackets \ {p} : ~Busy(q)
    BY <1>3 DEF HandlerAlone, Emit, MayEmit, EmitStep, TestConnected, TakeQueued, SendQueued,
                SendOwn, PushPacket
  <2>2. \A q \in NetPackets \ {p} : ~Busy(q)'
    BY <1>1, <2>1 DEF Packets
  <2>3. Busy(p)' => net' = "handler"
    BY <1>3 DEF HandlerAlone, SocketTypeOK, Emit, EmitStep, TestConnected, TakeQueued, SendQueued,
                SendOwn, PushPacket, EmitDone, netVars, emitVars
  <2> QED
    BY <2>2, <2>3 DEF HandlerAlone
<1> QED
  BY <1>2, <1>3

LEMMA AloneNet ==
  ASSUME HandlerAlone, SocketNetStep \/ OnOpen \/ OnDisconnect \/ OnClose
  PROVE  HandlerAlone'
<1>1. pc' = pc
  BY DEF SocketNetStep, NetSendPosted, OnConnected, NetTakeQueued, NetSendQueued, ClearFlag,
         ClearQueue, OnOpen, OnDisconnect, OnClose, emitVars
<1>2. net' = net \/ net # "handler"
  BY DEF SocketNetStep, NetSendPosted, OnConnected, NetTakeQueued, NetSendQueued, ClearFlag,
         ClearQueue, OnOpen, OnDisconnect, OnClose, netVars
<1> QED
  BY <1>1, <1>2 DEF HandlerAlone, Busy

\* A step that moves no packet.
LEMMA OnceSame ==
  ASSUME OnceInv, UNCHANGED <<m_packet_queue, pc, front, netFront, posted, wire, lost>>,
         net' = net \/ net # "front"
  PROVE  OnceInv'
<1>1. FrontInv'
  BY DEF OnceInv, FrontInv
<1>2. ASSUME NEW r \in Packets PROVE Places(r)' = Places(r)
  BY DEF Places
<1>3. EachPacketOnce'
  BY <1>2 DEF OnceInv, EachPacketOnce
<1> QED
  BY <1>1, <1>3 DEF OnceInv

\* A step after which every packet has as many places as before.
LEMMA OnceKept ==
  ASSUME OnceInv, FrontInv',
         \A r \in Packets :
           /\ pc[r] = "none" <=> pc'[r] = "none"
           /\ Underhand(r)' + Occurrences(r, m_packet_queue') + Occurrences(r, posted')
                + Occurrences(r, wire') + Held(r)' + NetHeld(r)' + Dropped(r)'
              = Underhand(r) + Occurrences(r, m_packet_queue) + Occurrences(r, posted)
                + Occurrences(r, wire) + Held(r) + NetHeld(r) + Dropped(r)
  PROVE  OnceInv'
<1>1. ASSUME NEW r \in Packets PROVE Places(r)' = Places(r)
  BY PlacesSum, PlacesSumNext
<1>2. EachPacketOnce'
  BY <1>1 DEF OnceInv, EachPacketOnce
<1> QED
  BY <1>2 DEF OnceInv

\* A step that leaves what the threads have in hand.
LEMMA FrontSame ==
  ASSUME FrontInv, UNCHANGED front,
         \A p \in Packets : pc'[p] # "front" => pc[p] # "front",
         net' # "front" => netFront' = NoPacket
  PROVE  FrontInv' /\ \A r \in Packets : Held(r)' = Held(r)
  BY DEF FrontInv, Held, Holders

LEMMA OnceEmit ==
  ASSUME SocketTypeOK, OnceInv, NEW p \in Packets, Emit(p)
  PROVE  OnceInv'
<1>1. SocketTypeOK /\ FrontInv /\ EachPacketOnce
  BY DEF OnceInv
<1>2. /\ pc[p] = "none"
      /\ pc' = [pc EXCEPT ![p] = IF m_client THEN "test" ELSE "done"]
      /\ lost' = IF m_client THEN lost ELSE lost \cup {p}
      /\ net' = "handler" \/ net' = net
      /\ UNCHANGED <<m_packet_queue, front, netFront, posted, wire>>
  BY DEF Emit, socketVars, netRest
<1>3. FrontInv' /\ \A r \in Packets : Held(r)' = Held(r)
  <2>1. \A q \in Packets : pc'[q] # "front" => pc[q] # "front"
    BY <1>2 DEF SocketTypeOK
  <2>2. net' # "front" => netFront' = NoPacket
    BY <1>2, <2>1 DEF OnceInv, FrontInv, Emit, MayEmit
  <2> QED
    BY <1>1, <1>2, <2>1, <2>2, FrontSame
<1>4. ASSUME NEW r \in Packets PROVE Places(r)' = IF pc'[r] = "none" THEN 0 ELSE 1
  <2>1. NetHeld(r)' = NetHeld(r) /\ Held(r)' = Held(r)
    BY <1>2, <1>3 DEF NetHeld
  <2>2. CASE r # p
    <3>1. Underhand(r)' = Underhand(r) /\ Dropped(r)' = Dropped(r) /\ pc'[r] = pc[r]
      BY <1>2, <2>2 DEF SocketTypeOK, Underhand, Dropped, One
    <3> QED
      BY <1>1, <1>2, <2>1, <3>1, PlacesSumNext, PlacesBound DEF One
  <2>3. CASE r = p
    <3>1. Underhand(r) = 0 /\ pc'[r] # "none"
      BY <1>2, <2>3 DEF SocketTypeOK, Underhand
    <3>2. Dropped(r) = 0
      <4>1. One(pc[r] # "none") = 0
        BY <1>2, <2>3 DEF One
      <4>2. Underhand(r) + Occurrences(r, m_packet_queue) + Occurrences(r, posted)
              + Occurrences(r, wire) + Held(r) + NetHeld(r) + Dropped(r) = 0
        BY <1>1, <4>1, PlacesBound
      <4> QED
        BY <1>1, <4>2, PlacesTypes
    <3>3. Underhand(r)' + Dropped(r)' = 1 /\ Underhand(r)' \in Nat /\ Dropped(r)' \in Nat
      <4>1. p \notin lost
        BY <2>3, <3>2 DEF Dropped, One
      <4>2. CASE m_client
        <5>1. Underhand(r)' = 1
          BY <1>2, <2>3, <4>2 DEF SocketTypeOK, Underhand
        <5>2. Dropped(r)' = 0
          BY <1>2, <2>3, <4>1, <4>2 DEF Dropped, One
        <5> QED
          BY <5>1, <5>2
      <4>3. CASE ~m_client
        <5>1. Underhand(r)' = 0
          BY <1>2, <2>3, <4>3 DEF SocketTypeOK, Underhand
        <5>2. Dropped(r)' = 1
          BY <1>2, <2>3, <4>3 DEF Dropped, One
        <5> QED
          BY <5>1, <5>2
      <4> QED
        BY <4>2, <4>3
    <3> QED
      BY <1>1, <1>2, <2>1, <2>3, <3>1, <3>2, <3>3, PlacesSumNext, PlacesBound, PlacesTypes DEF One
  <2> QED
    BY <2>2, <2>3
<1> QED
  BY <1>3, <1>4 DEF OnceInv, EachPacketOnce

LEMMA OnceEmitStep ==
  ASSUME SocketTypeOK, HandlerAlone, OnceInv, NEW p \in Packets, EmitStep(p)
  PROVE  OnceInv'
<1> DEFINE Sum(r) == Underhand(r) + Occurrences(r, m_packet_queue) + Occurrences(r, posted)
                       + Occurrences(r, wire) + Held(r) + NetHeld(r) + Dropped(r)
<1>1. SocketTypeOK /\ FrontInv /\ EachPacketOnce
  BY DEF OnceInv
<1>2. p \in NetPackets => net # "front"
  BY DEF HandlerAlone, EmitStep, TestConnected, TakeQueued, SendQueued, SendOwn, PushPacket, Busy
<1>3. \A r \in Packets : pc[r] = "none" <=> pc'[r] = "none"
  BY DEF EmitStep, TestConnected, TakeQueued, SendQueued, SendOwn, PushPacket, EmitDone,
         SocketTypeOK
<1>4. ASSUME UNCHANGED front, netFront' = netFront, net' = net \/ net' = "idle",
             net' = net \/ p \in NetPackets,
             \A q \in Packets : pc'[q] # "front" => pc[q] # "front"
      PROVE  /\ FrontInv'
             /\ \A r \in Packets : Held(r)' = Held(r)
             /\ \A r \in Packets : NetHeld(r)' = NetHeld(r)
  <2>1. net' # "front" => netFront' = NoPacket
    BY <1>1, <1>2, <1>4 DEF FrontInv
  <2> QED
    BY <1>1, <1>4, <2>1, FrontSame DEF NetHeld
<1>5. p \notin lost
  <2>1. Underhand(p) = 1
    BY DEF Underhand, EmitStep, TestConnected, TakeQueued, SendQueued, SendOwn, PushPacket
  <2> QED
    BY <1>1, <2>1, PlacesBound
<1>6. ASSUME pc' = [pc EXCEPT ![p] = "done"], UNCHANGED <<front, netFront>>,
             net' = net \/ net' = "idle", net' = net \/ p \in NetPackets, pc[p] # "front"
      PROVE  /\ FrontInv'
             /\ \A r \in Packets : Held(r)' = Held(r) /\ NetHeld(r)' = NetHeld(r)
             /\ \A r \in Packets : Underhand(r)' = Underhand(r) - One(p = r)
  <2>1. \A q \in Packets : pc'[q] # "front" => pc[q] # "front"
    BY <1>6 DEF SocketTypeOK
  <2>2. Underhand(p) = 1
    BY DEF Underhand, EmitStep, TestConnected, TakeQueued, SendQueued, SendOwn, PushPacket
  <2>3. \A r \in Packets : Underhand(r)' = Underhand(r) - One(p = r)
    <3>1. Underhand(p)' = 0 /\ One(p = p) = 1
      BY <1>6 DEF Underhand, One, SocketTypeOK
    <3>2. ASSUME NEW r \in Packets, r # p
          PROVE  Underhand(r)' = Underhand(r) /\ Underhand(r) \in Nat /\ One(p = r) = 0
      BY <1>6, <3>2 DEF Underhand, One, SocketTypeOK
    <3> QED
      BY <2>2, <3>1, <3>2
  <2> QED
    BY <1>4, <1>6, <2>1, <2>3
<1>7. CASE TestConnected(p)
  <2>1. UNCHANGED <<m_packet_queue, posted, wire, front, netFront>>
    BY <1>7 DEF TestConnected, socketVars, netRest
  <2>2. CASE m_client
    <3>1. UNCHANGED <<net, lost>> /\ \A r \in Packets : Underhand(r)' = Underhand(r)
      BY <1>7, <2>2 DEF TestConnected, Underhand, SocketTypeOK
    <3>2. \A q \in Packets : pc'[q] # "front" => pc[q] # "front"
      BY <1>7, <2>2 DEF TestConnected, SocketTypeOK
    <3>3. FrontInv' /\ \A r \in Packets : Held(r)' = Held(r) /\ NetHeld(r)' = NetHeld(r)
      BY <1>4, <2>1, <3>1, <3>2
    <3>4. \A r \in Packets : Dropped(r)' = Dropped(r)
      BY <3>1 DEF Dropped
    <3> QED
      BY <1>3, <2>1, <3>1, <3>3, <3>4, OnceKept
  <2>3. CASE ~m_client
    <3>1. /\ pc' = [pc EXCEPT ![p] = "done"] /\ lost' = lost \cup {p}
          /\ pc[p] # "front" /\ (net' = net \/ net' = "idle") /\ (net' = net \/ p \in NetPackets)
      BY <1>7, <2>3 DEF TestConnected, EmitDone
    <3>2. /\ FrontInv'
          /\ \A r \in Packets : Held(r)' = Held(r) /\ NetHeld(r)' = NetHeld(r)
          /\ \A r \in Packets : Underhand(r)' = Underhand(r) - One(p = r)
      BY <1>6, <2>1, <3>1
    <3>3. \A r \in Packets : Dropped(r)' = Dropped(r) + One(p = r)
      BY <1>5, <3>1 DEF Dropped, One
    <3>4. ASSUME NEW r \in Packets PROVE Sum(r)' = Sum(r)
      <4>1. One(p = r) \in Nat
        BY DEF One
      <4> QED
        BY <1>1, <2>1, <3>2, <3>3, <4>1, PlacesTypes
    <3> QED
      BY <1>3, <3>2, <3>4, OnceKept
  <2> QED
    BY <2>2, <2>3
<1>8. CASE TakeQueued(p)
  <2>1. UNCHANGED <<posted, wire, lost, net, netFront>>
    BY <1>8 DEF TakeQueued, netVars, clientVars
  <2>2. \A r \in Packets : Underhand(r)' = Underhand(r)
    BY <1>8 DEF TakeQueued, Underhand, SocketTypeOK
  <2>3. \A r \in Packets : Dropped(r)' = Dropped(r) /\ NetHeld(r)' = NetHeld(r)
    BY <2>1 DEF Dropped, NetHeld
  <2>4. CASE m_packet_queue = <<>>
    <3>1. UNCHANGED <<front, m_packet_queue>> /\ pc' = [pc EXCEPT ![p] = "own"] /\ pc[p] = "drain"
      BY <1>8, <2>4 DEF TakeQueued
    <3>2. \A q \in Packets : pc'[q] # "front" => pc[q] # "front"
      BY <3>1 DEF SocketTypeOK
    <3>3. FrontInv' /\ \A r \in Packets : Held(r)' = Held(r)
      BY <1>4, <2>1, <3>1, <3>2
    <3> QED
      BY <1>3, <2>1, <2>2, <2>3, <3>1, <3>3, OnceKept
  <2>5. CASE m_packet_queue # <<>>
    <3>1. m_packet_queue \in Seq(Packets)
      BY DEF SocketTypeOK
    <3>2. PICK head \in Packets : head = Head(m_packet_queue)
      BY <2>5, <3>1, RangeTail
    <3>3. /\ pc[p] = "drain" /\ pc' = [pc EXCEPT ![p] = "front"]
          /\ front' = [front EXCEPT ![p] = head]
          /\ m_packet_queue' = Tail(m_packet_queue)
      BY <1>8, <2>5, <3>2 DEF TakeQueued
    <3>4. front[p] = NoPacket
      BY <1>1, <3>3 DEF FrontInv
    <3>5. front'[p] = head /\ \A q \in Packets \ {p} : front'[q] = front[q]
      BY <3>3 DEF SocketTypeOK
    <3>6. ASSUME NEW r \in Packets
          PROVE  IsFiniteSet(Holders(r)') /\ Held(r)' = Held(r) + One(head = r)
      <4>1. IsFiniteSet(Holders(r))
        BY <1>1 DEF FrontInv, Holders
      <4> QED
        BY <3>4, <3>5, <4>1, HeldOne
    <3>7. \A q \in Packets : pc'[q] # "front" => front'[q] = NoPacket
      BY <1>1, <3>3 DEF FrontInv, SocketTypeOK
    <3>8. FrontInv'
      BY <1>1, <2>1, <3>6, <3>7 DEF FrontInv, Holders
    <3>9. ASSUME NEW r \in Packets PROVE Sum(r)' = Sum(r)
      <4>1. Occurrences(r, m_packet_queue') = Occurrences(r, m_packet_queue) - One(head = r)
        BY <2>5, <3>2, <3>1, <3>3, OccurrencesTail
      <4>2. One(head = r) \in Nat
        BY DEF One
      <4> QED
        BY <1>1, <2>1, <2>2, <2>3, <3>6, <4>1, <4>2, PlacesTypes
    <3> QED
      BY <1>3, <3>8, <3>9, OnceKept
  <2> QED
    BY <2>4, <2>5
<1>9. CASE SendQueued(p)
  <2>1. UNCHANGED <<m_packet_queue, net, netFront>>
    BY <1>9 DEF SendQueued, socketVars, netVars
  <2>2. CASE m_client
    <3> DEFINE x == front[p]
    <3>1. x \in Packets
      BY <1>9 DEF SendQueued, SocketTypeOK
    <3>2. /\ send(p, x) /\ pc[p] = "front" /\ pc' = [pc EXCEPT ![p] = "drain"]
          /\ front' = [front EXCEPT ![p] = NoPacket]
      BY <1>9, <2>2 DEF SendQueued
    <3>3. ASSUME NEW r \in Packets
          PROVE  IsFiniteSet(Holders(r)') /\ Held(r)' = Held(r) - One(x = r)
      <4>1. IsFiniteSet(Holders(r))
        BY <1>1 DEF FrontInv, Holders
      <4> QED
        BY <3>1, <3>2, <4>1, HeldNone
    <3>4. x \notin lost
      <4>1. IsFiniteSet(Holders(x)) /\ p \in Holders(x)
        BY <1>1, <3>1 DEF FrontInv, Holders
      <4>2. Held(x) # 0
        BY <4>1, FS_EmptySet DEF Held
      <4> QED
        BY <1>1, <3>1, <4>2, PlacesBound
    <3>5. \A q \in Packets : pc'[q] # "front" => front'[q] = NoPacket
      BY <1>1, <3>2 DEF FrontInv, SocketTypeOK
    <3>6. FrontInv'
      BY <1>1, <2>1, <3>3, <3>5 DEF FrontInv, Holders
    <3>7. \A r \in Packets : Underhand(r)' = Underhand(r)
      BY <3>2 DEF Underhand, SocketTypeOK
    <3> HIDE DEF x
    <3>8. ASSUME NEW r \in Packets PROVE Sum(r)' = Sum(r)
      <4>1. /\ Occurrences(r, posted') \in Nat /\ Occurrences(r, wire') \in Nat /\ Dropped(r)' \in Nat
            /\ Occurrences(r, posted') + Occurrences(r, wire') + Dropped(r)'
                 = Occurrences(r, posted) + Occurrences(r, wire) + Dropped(r) + One(x = r)
        BY <3>1, <3>2, <3>4, SendCounts
      <4>2. One(x = r) \in Nat
        BY DEF One
      <4>3. NetHeld(r)' = NetHeld(r) /\ Occurrences(r, m_packet_queue') = Occurrences(r, m_packet_queue)
        BY <2>1 DEF NetHeld
      <4> QED
        BY <1>1, <3>3, <3>7, <4>1, <4>2, <4>3, PlacesTypes
    <3> QED
      BY <1>3, <3>6, <3>8, OnceKept
  <2>3. CASE ~m_client
    <3>1. UNCHANGED <<posted, wire, lost, pc, front>>
      BY <1>9, <2>3 DEF SendQueued, clientVars
    <3> QED
      BY <2>1, <3>1, OnceSame
  <2> QED
    BY <2>2, <2>3
<1>10. CASE SendOwn(p)
  <2>1. UNCHANGED <<m_packet_queue, front, netFront>>
    BY <1>10 DEF SendOwn, socketVars, netRest
  <2>2. CASE m_client
    <3>1. /\ send(p, p) /\ pc' = [pc EXCEPT ![p] = "done"] /\ pc[p] # "front"
          /\ (net' = net \/ net' = "idle") /\ (net' = net \/ p \in NetPackets)
      BY <1>10, <2>2 DEF SendOwn, EmitDone
    <3>2. /\ FrontInv'
          /\ \A r \in Packets : Held(r)' = Held(r) /\ NetHeld(r)' = NetHeld(r)
          /\ \A r \in Packets : Underhand(r)' = Underhand(r) - One(p = r)
      BY <1>6, <2>1, <3>1
    <3>3. ASSUME NEW r \in Packets PROVE Sum(r)' = Sum(r)
      <4>1. /\ Occurrences(r, posted') \in Nat /\ Occurrences(r, wire') \in Nat /\ Dropped(r)' \in Nat
            /\ Occurrences(r, posted') + Occurrences(r, wire') + Dropped(r)'
                 = Occurrences(r, posted) + Occurrences(r, wire) + Dropped(r) + One(p = r)
        BY <1>5, <3>1, SendCounts
      <4>2. One(p = r) \in Nat
        BY DEF One
      <4>3. Occurrences(r, m_packet_queue') = Occurrences(r, m_packet_queue)
        BY <2>1
      <4> QED
        BY <1>1, <3>2, <4>1, <4>2, <4>3, PlacesTypes
    <3> QED
      BY <1>3, <3>2, <3>3, OnceKept
  <2>3. CASE ~m_client
    <3>1. UNCHANGED <<posted, wire, lost, pc, net>>
      BY <1>10, <2>3 DEF SendOwn, clientVars
    <3> QED
      BY <2>1, <3>1, OnceSame
  <2> QED
    BY <2>2, <2>3
<1>11. CASE PushPacket(p)
  <2>1. /\ pc' = [pc EXCEPT ![p] = "done"] /\ pc[p] # "front"
        /\ (net' = net \/ net' = "idle") /\ (net' = net \/ p \in NetPackets)
        /\ m_packet_queue' = Append(m_packet_queue, p)
        /\ UNCHANGED <<front, netFront, posted, wire, lost>>
    BY <1>11 DEF PushPacket, EmitDone, netRest, clientVars
  <2>2. /\ FrontInv'
        /\ \A r \in Packets : Held(r)' = Held(r) /\ NetHeld(r)' = NetHeld(r)
        /\ \A r \in Packets : Underhand(r)' = Underhand(r) - One(p = r)
    BY <1>6, <2>1
  <2>3. ASSUME NEW r \in Packets PROVE Sum(r)' = Sum(r)
    <3>1. Occurrences(r, m_packet_queue') = Occurrences(r, m_packet_queue) + One(p = r)
      <4>1. m_packet_queue \in Seq(Packets)
        BY DEF SocketTypeOK
      <4> QED
        BY <2>1, <4>1, OccurrencesAppend
    <3>2. One(p = r) \in Nat
      BY DEF One
    <3>3. Dropped(r)' = Dropped(r)
      BY <2>1 DEF Dropped
    <3> QED
      BY <1>1, <2>1, <2>2, <3>1, <3>2, <3>3, PlacesTypes
  <2> QED
    BY <1>3, <2>2, <2>3, OnceKept
<1> QED
  BY <1>7, <1>8, <1>9, <1>10, <1>11 DEF EmitStep

LEMMA OnceNet ==
  ASSUME SocketTypeOK, OnceInv, SocketNetStep \/ OnOpen \/ OnDisconnect \/ OnClose
  PROVE  OnceInv'
<1> DEFINE Sum(r) == Underhand(r) + Occurrences(r, m_packet_queue) + Occurrences(r, posted)
                       + Occurrences(r, wire) + Held(r) + NetHeld(r) + Dropped(r)
<1>1. SocketTypeOK /\ FrontInv /\ EachPacketOnce
  BY DEF OnceInv
<1>2. UNCHANGED <<pc, front>>
  BY DEF SocketNetStep, NetSendPosted, OnConnected, NetTakeQueued, NetSendQueued, ClearFlag,
         ClearQueue, OnOpen, OnDisconnect, OnClose, emitVars
<1>3. ASSUME net' # "front" => netFront' = NoPacket
      PROVE  FrontInv'
  BY <1>1, <1>2, <1>3 DEF FrontInv
<1>4. \A r \in Packets : /\ pc[r] = "none" <=> pc'[r] = "none"
                         /\ Underhand(r)' = Underhand(r)
                         /\ Held(r)' = Held(r)
  BY <1>2 DEF Underhand, Held, Holders
<1>5. CASE OnConnected \/ ClearFlag \/ OnOpen \/ OnDisconnect \/ OnClose
  <2>1. /\ UNCHANGED <<m_packet_queue, netFront, posted, wire, lost>>
        /\ net' = net \/ net # "front"
    BY <1>5 DEF OnConnected, ClearFlag, OnOpen, OnDisconnect, OnClose, netRest, clientVars,
                socketVars
  <2> QED
    BY <1>2, <2>1, OnceSame
<1>6. CASE NetSendPosted
  <2>1. posted # <<>> /\ posted' = Tail(posted) /\ send_impl(Head(posted))
        /\ UNCHANGED <<m_packet_queue, net, netFront>>
    BY <1>6 DEF NetSendPosted, socketVars, netVars
  <2>2. posted \in Seq(Packets) /\ wire \in Seq(Packets)
    BY DEF SocketTypeOK
  <2>3. PICK x \in Packets : x = Head(posted) /\ x \in Range(posted)
    BY <2>1, <2>2, RangeTail
  <2>4. x \notin lost
    <3>1. Occurrences(x, posted) # 0
      BY <2>2, <2>3, OccurrencesType
    <3> QED
      BY <1>1, <3>1, PlacesBound
  <2>5. ASSUME NEW r \in Packets PROVE Sum(r)' = Sum(r)
    <3>1. Occurrences(r, posted') = Occurrences(r, posted) - One(x = r)
      BY <2>1, <2>2, <2>3, OccurrencesTail
    <3>2. /\ Occurrences(r, wire') \in Nat /\ Dropped(r)' \in Nat
          /\ Occurrences(r, wire') + Dropped(r)' = Occurrences(r, wire) + Dropped(r) + One(x = r)
      BY <2>1, <2>3, <2>4, SendImplCounts
    <3>3. One(x = r) \in Nat /\ NetHeld(r)' = NetHeld(r)
      BY <2>1 DEF One, NetHeld
    <3>4. Occurrences(r, m_packet_queue') = Occurrences(r, m_packet_queue)
      BY <2>1
    <3> QED
      BY <1>1, <1>4, <3>1, <3>2, <3>3, <3>4, PlacesTypes
  <2>6. FrontInv'
    BY <1>1, <1>3, <2>1 DEF FrontInv
  <2> QED
    BY <1>4, <2>5, <2>6, OnceKept
<1>7. CASE NetTakeQueued
  <2>1. net = "drain" /\ UNCHANGED <<posted, wire, lost>>
    BY <1>7 DEF NetTakeQueued, clientVars
  <2>2. CASE m_packet_queue = <<>>
    <3>1. net' = "idle" /\ UNCHANGED <<netFront, m_packet_queue>>
      BY <1>7, <2>2 DEF NetTakeQueued
    <3> QED
      BY <1>2, <2>1, <3>1, OnceSame
  <2>3. CASE m_packet_queue # <<>>
    <3>1. /\ net' = "front" /\ netFront' = Head(m_packet_queue)
          /\ m_packet_queue' = Tail(m_packet_queue)
      BY <1>7, <2>3 DEF NetTakeQueued
    <3>2. m_packet_queue \in Seq(Packets)
      BY DEF SocketTypeOK
    <3>3. netFront = NoPacket /\ NoPacket \notin Packets
      BY <1>1, <2>1, SocketAssumption DEF FrontInv
    <3>4. PICK x \in Packets : x = Head(m_packet_queue)
      BY <2>3, <3>2, RangeTail
    <3>5. ASSUME NEW r \in Packets PROVE Sum(r)' = Sum(r)
      <4>1. Occurrences(r, m_packet_queue') = Occurrences(r, m_packet_queue) - One(x = r)
        BY <2>3, <3>1, <3>2, <3>4, OccurrencesTail
      <4>2. NetHeld(r)' = One(x = r) /\ NetHeld(r) = 0
        BY <3>1, <3>3, <3>4 DEF NetHeld, One
      <4>3. One(x = r) \in Nat /\ Dropped(r)' = Dropped(r)
        BY <2>1 DEF One, Dropped
      <4> QED
        BY <1>1, <1>4, <2>1, <4>1, <4>2, <4>3, PlacesTypes
    <3>6. FrontInv'
      BY <1>3, <3>1
    <3> QED
      BY <1>4, <3>5, <3>6, OnceKept
  <2> QED
    BY <2>2, <2>3
<1>8. CASE NetSendQueued
  <2>1. /\ net = "front" /\ send_impl(netFront) /\ netFront' = NoPacket
        /\ UNCHANGED <<m_packet_queue, posted>>
    BY <1>8 DEF NetSendQueued, socketVars
  <2>2. PICK x \in Packets : x = netFront
    BY <2>1 DEF SocketTypeOK
  <2>3. x \notin lost
    <3>1. NetHeld(x) = 1
      BY <2>2 DEF NetHeld, One
    <3> QED
      BY <1>1, <3>1, PlacesBound
  <2>4. NoPacket \notin Packets
    BY SocketAssumption
  <2>5. ASSUME NEW r \in Packets PROVE Sum(r)' = Sum(r)
    <3>1. /\ Occurrences(r, wire') \in Nat /\ Dropped(r)' \in Nat
          /\ Occurrences(r, wire') + Dropped(r)' = Occurrences(r, wire) + Dropped(r) + One(x = r)
      BY <2>1, <2>2, <2>3, SendImplCounts
    <3>2. NetHeld(r)' = 0 /\ NetHeld(r) = One(x = r) /\ One(x = r) \in Nat
      BY <2>1, <2>2, <2>4 DEF NetHeld, One
    <3> QED
      BY <1>1, <1>4, <2>1, <3>1, <3>2, PlacesTypes
  <2>6. FrontInv'
    BY <1>3, <2>1
  <2> QED
    BY <1>4, <2>5, <2>6, OnceKept
<1>9. CASE ClearQueue
  <2>1. /\ lost' = lost \cup Range(m_packet_queue) /\ m_packet_queue' = <<>>
        /\ net = "clear" /\ UNCHANGED <<netFront, posted, wire>>
    BY <1>9 DEF ClearQueue, netRest
  <2>2. m_packet_queue \in Seq(Packets) /\ <<>> \in Seq(Packets)
    BY EmptySeq DEF SocketTypeOK
  <2>3. ASSUME NEW r \in Packets PROVE Sum(r)' = Sum(r)
    <3>1. Occurrences(r, m_packet_queue') = 0
      <4>1. r \notin Range(<<>>)
        BY DEF Range
      <4> QED
        BY <2>1, <2>2, <4>1, OccurrencesType
    <3>2. NetHeld(r)' = NetHeld(r)
      BY <2>1 DEF NetHeld
    <3>3. Dropped(r)' = Dropped(r) + Occurrences(r, m_packet_queue)
      <4>1. CASE r \in Range(m_packet_queue)
        <5>1. Occurrences(r, m_packet_queue) # 0
          BY <2>2, <4>1, OccurrencesType
        <5>2. One(pc[r] # "none") \in {0, 1}
          BY DEF One
        <5>3. r \notin lost /\ Occurrences(r, m_packet_queue) = 1
          BY <1>1, <5>1, <5>2, PlacesBound, PlacesTypes
        <5> QED
          BY <2>1, <4>1, <5>3 DEF Dropped, One
      <4>2. CASE r \notin Range(m_packet_queue)
        <5>1. Occurrences(r, m_packet_queue) = 0
          BY <2>2, <4>2, OccurrencesType
        <5>2. Dropped(r)' = Dropped(r)
          BY <2>1, <4>2 DEF Dropped, One
        <5> QED
          BY <1>1, <5>1, <5>2, PlacesTypes
      <4> QED
        BY <4>1, <4>2
    <3> QED
      BY <1>1, <1>4, <2>1, <3>1, <3>2, <3>3, PlacesTypes
  <2>4. FrontInv'
    BY <1>1, <1>3, <2>1 DEF FrontInv
  <2> QED
    BY <1>4, <2>3, <2>4, OnceKept
<1> QED
  BY <1>5, <1>6, <1>7, <1>8, <1>9 DEF SocketNetStep

\* The steps of Startup are steps of the socket, or leave it alone.
LEMMA SocketSteps ==
  ASSUME [Next]_vars
  PROVE  \/ UNCHANGED <<socketVars, emitVars, netVars, clientVars>>
         \/ \E p \in Packets : Emit(p) \/ EmitStep(p)
         \/ SocketNetStep \/ OnOpen \/ OnDisconnect \/ OnClose
<1>1. ASSUME NEW p \in Early PROVE p \in Packets
  BY DEF Packets
<1> QED
  BY <1>1
  DEF Next, MainStep, AddService, Connect, CheckFinished, Wait, Bind, Subscribe, Run,
      WakeSpuriously, NetStep, Open, OnFail, EmitLater, EmitSteps, Disconnect, CloseNamespace,
      vars, allSocketVars

LEMMA OnceStep == TypeOK /\ HandlerAlone /\ OnceInv /\ [Next]_vars => HandlerAlone' /\ OnceInv'
<1> SUFFICES ASSUME TypeOK, HandlerAlone, OnceInv, [Next]_vars PROVE HandlerAlone' /\ OnceInv'
  OBVIOUS
<1>1. SocketTypeOK
  BY DEF TypeOK
<1>2. CASE UNCHANGED <<socketVars, emitVars, netVars, clientVars>>
  <2>1. OnceInv'
    BY <1>2, OnceSame DEF socketVars, emitVars, netVars, clientVars
  <2> QED
    BY <1>2, <2>1 DEF HandlerAlone, Busy, emitVars, netVars
<1>3. CASE \E p \in Packets : Emit(p) \/ EmitStep(p)
  BY <1>1, <1>3, AloneEmit, OnceEmit, OnceEmitStep
<1>4. CASE SocketNetStep \/ OnOpen \/ OnDisconnect \/ OnClose
  BY <1>1, <1>4, AloneNet, OnceNet
<1> QED
  BY <1>2, <1>3, <1>4, SocketSteps

LEMMA OnceInit == Init => HandlerAlone /\ OnceInv
<1> SUFFICES ASSUME Init PROVE HandlerAlone /\ OnceInv
  OBVIOUS
<1>1. NoPacket \notin Packets
  BY SocketAssumption
<1>2. HandlerAlone
  BY DEF Init, SocketInit, HandlerAlone, Busy, Packets
<1>3. \A r \in Packets : Holders(r) = {}
  BY <1>1 DEF Init, SocketInit, Holders
<1>4. FrontInv
  BY <1>3, FS_EmptySet DEF Init, SocketInit, FrontInv, Holders
<1>5. ASSUME NEW r \in Packets PROVE Places(r) = 0
  <2>1. Held(r) = 0
    BY <1>3, FS_EmptySet DEF Held
  <2>2. Occurrences(r, <<>>) = 0
    <3>1. <<>> \in Seq(Packets) /\ r \notin Range(<<>>)
      BY EmptySeq DEF Range
    <3> QED
      BY <3>1, OccurrencesType
  <2> QED
    BY <1>1, <2>1, <2>2, PlacesSum DEF Init, SocketInit, Underhand, NetHeld, Dropped, One
<1> QED
  BY <1>2, <1>4, <1>5 DEF OnceInv, EachPacketOnce, Init, SocketInit

LEMMA OnceAlways == Spec => [](HandlerAlone /\ OnceInv)
  BY OnceInit, OnceStep, TypeCorrect, PTL DEF Spec

(***************************************************************************)
(* Any number of threads may take packets from m_packet_queue while others *)
(* push, and the connection may be lost or the namespace closed at any     *)
(* step: every packet whose emit has begun is in exactly one place, in the *)
(* hands of a thread, queued, posted, sent, or dropped where the code      *)
(* drops it.                                                               *)
(***************************************************************************)
THEOREM NoPacketTwice == Spec => []EachPacketOnce
<1>1. OnceInv => EachPacketOnce
  BY DEF OnceInv
<1> QED
  BY <1>1, OnceAlways, PTL

-----------------------------------------------------------------------------
\* The order of the replies.

\* What comes before the last element of a sequence is in what it was appended to.
LEMMA BeforeAppend ==
  ASSUME NEW S, NEW s \in Seq(S), NEW x \in S, NEW a, NEW b, Before(a, b, Append(s, x))
  PROVE  Before(a, b, s) \/ (x = b /\ a \in Range(s))
<1> DEFINE t == Append(s, x)
<1>1. /\ Len(s) \in Nat /\ DOMAIN s = 1 .. Len(s)
      /\ t \in Seq(S) /\ Len(t) = Len(s) + 1
      /\ \A i \in 1 .. Len(s) : t[i] = s[i]
      /\ t[Len(s) + 1] = x
  BY AppendProperties, LenProperties
<1>2. DOMAIN t = 1 .. Len(s) + 1
  BY <1>1, LenProperties
<1>3. PICK i \in DOMAIN t, k \in DOMAIN t : t[i] = a /\ t[k] = b /\ i < k
  BY DEF Before
<1>4. i \in 1 .. Len(s)
  BY <1>1, <1>2, <1>3
<1>5. a \in Range(s)
  BY <1>1, <1>3, <1>4 DEF Range
<1>6. CASE k \in 1 .. Len(s)
  BY <1>1, <1>3, <1>4, <1>6 DEF Before
<1>7. CASE k = Len(s) + 1
  BY <1>1, <1>3, <1>5, <1>7
<1> QED
  BY <1>1, <1>2, <1>6, <1>7

\* A packet whose emit has not begun is nowhere.
LEMMA NowhereYet ==
  ASSUME SocketTypeOK, OnceInv, NEW r \in Packets, pc[r] = "none"
  PROVE  r \notin Range(posted) /\ ~Taken(r)
<1>1. SocketTypeOK /\ FrontInv /\ EachPacketOnce
  BY DEF OnceInv
<1>2. One(pc[r] # "none") = 0
  BY DEF One
<1>3. Underhand(r) + Occurrences(r, m_packet_queue) + Occurrences(r, posted)
        + Occurrences(r, wire) + Held(r) + NetHeld(r) + Dropped(r) = 0
  BY <1>1, <1>2, PlacesBound
<1>4. /\ Occurrences(r, m_packet_queue) = 0 /\ Occurrences(r, posted) = 0
      /\ Occurrences(r, wire) = 0 /\ Held(r) = 0 /\ NetHeld(r) = 0
  BY <1>1, <1>3, PlacesTypes
<1>5. r \notin Range(m_packet_queue) /\ r \notin Range(posted) /\ r \notin Range(wire)
  <2>1. m_packet_queue \in Seq(Packets) /\ posted \in Seq(Packets) /\ wire \in Seq(Packets)
    BY DEF SocketTypeOK
  <2> QED
    BY <1>4, <2>1, OccurrencesType
<1>6. \A q \in Packets : front[q] # r
  <2>1. IsFiniteSet(Holders(r))
    BY <1>1 DEF FrontInv, Holders
  <2>2. Holders(r) = {}
    BY <1>4, <2>1, FS_EmptySet DEF Held
  <2> QED
    BY <2>2 DEF Holders
<1>7. netFront # r
  BY <1>4 DEF NetHeld, One
<1> QED
  BY <1>5, <1>6, <1>7 DEF Taken

\* How begun grows.
LEMMA BegunGrows ==
  ASSUME SocketTypeOK, [Next]_vars
  PROVE  \/ /\ begun' = begun
            /\ \A r \in Packets : pc'[r] = "none" <=> pc[r] = "none"
         \/ \E x \in Packets : /\ Emit(x)
                               /\ pc[x] = "none" /\ pc'[x] # "none"
                               /\ \A r \in Packets \ {x} : pc'[r] = pc[r]
                               /\ begun' = Append(begun, x)
<1>1. CASE UNCHANGED <<socketVars, emitVars, netVars, clientVars>>
  BY <1>1 DEF emitVars
<1>2. ASSUME NEW x \in Packets, Emit(x)
      PROVE  /\ pc[x] = "none" /\ pc'[x] # "none" /\ begun' = Append(begun, x)
             /\ \A r \in Packets \ {x} : pc'[r] = pc[r]
  BY <1>2 DEF Emit, SocketTypeOK
<1>3. ASSUME NEW x \in Packets, EmitStep(x)
      PROVE  begun' = begun /\ \A r \in Packets : pc'[r] = "none" <=> pc[r] = "none"
  BY <1>3 DEF EmitStep, TestConnected, TakeQueued, SendQueued, SendOwn, PushPacket, EmitDone,
              SocketTypeOK
<1>4. CASE SocketNetStep \/ OnOpen \/ OnDisconnect \/ OnClose
  BY <1>4
  DEF SocketNetStep, NetSendPosted, OnConnected, NetTakeQueued, NetSendQueued, ClearFlag,
      ClearQueue, OnOpen, OnDisconnect, OnClose, emitVars
<1> QED
  BY <1>1, <1>2, <1>3, <1>4, SocketSteps

LEMMA BegunStep ==
  ASSUME SocketTypeOK, BegunInv, [Next]_vars
  PROVE  BegunInv'
<1>1. begun \in Seq(Packets)
  BY DEF SocketTypeOK
<1>2. CASE begun' = begun /\ \A r \in Packets : pc'[r] = "none" <=> pc[r] = "none"
  BY <1>2 DEF BegunInv
<1>3. ASSUME NEW x \in Packets, pc[x] = "none", pc'[x] # "none", begun' = Append(begun, x),
             \A r \in Packets \ {x} : pc'[r] = pc[r]
      PROVE  BegunInv'
  <2>1. x \notin Range(begun)
    BY <1>3 DEF BegunInv
  <2>2. Range(begun') = Range(begun) \cup {x}
    BY <1>1, <1>3, RangeAppend
  <2>3. \A r \in Packets : r \in Range(begun') <=> pc'[r] # "none"
    BY <1>3, <2>2 DEF BegunInv
  <2>4. /\ Len(begun) \in Nat /\ DOMAIN begun = 1 .. Len(begun)
        /\ DOMAIN begun' = 1 .. Len(begun) + 1
        /\ \A i \in 1 .. Len(begun) : begun'[i] = begun[i]
        /\ begun'[Len(begun) + 1] = x
    BY <1>1, <1>3, AppendProperties, LenProperties
  <2>5. \A i \in 1 .. Len(begun) : begun[i] # x
    BY <2>1, <2>4 DEF Range
  <2>6. ASSUME NEW i \in DOMAIN begun', NEW k \in DOMAIN begun', begun'[i] = begun'[k]
        PROVE  i = k
    <3>1. CASE i \in 1 .. Len(begun) /\ k \in 1 .. Len(begun)
      BY <2>4, <2>6, <3>1 DEF BegunInv
    <3>2. CASE i = Len(begun) + 1 \/ k = Len(begun) + 1
      BY <2>4, <2>5, <2>6, <3>2
    <3> QED
      BY <2>4, <3>1, <3>2
  <2> QED
    BY <2>3, <2>6 DEF BegunInv
<1> QED
  BY <1>2, <1>3, BegunGrows

\* Where a packet comes from that a step puts on the wire.
LEMMA SendWire ==
  ASSUME NEW sender, NEW p, send(sender, p)
  PROVE  \/ wire' = wire
         \/ wire' = Append(wire, p) /\ UNCHANGED posted
  BY DEF send, send_impl

LEMMA WireGrows ==
  ASSUME SocketTypeOK, [Next]_vars, wire' # wire
  PROVE  \E x \in Packets : /\ wire' = Append(wire, x)
                            /\ x \in Range(posted) \/ Taken(x) \/ Busy(x)
                            /\ begun' = begun
<1>1. ASSUME NEW p \in Packets, EmitStep(p)
      PROVE  \E x \in Packets : /\ wire' = Append(wire, x)
                                /\ x \in Range(posted) \/ Taken(x) \/ Busy(x)
                                /\ begun' = begun
  <2>1. CASE SendQueued(p)
    <3>1. m_client /\ send(p, front[p]) /\ front[p] \in Packets /\ begun' = begun
      BY <2>1 DEF SendQueued, clientVars, SocketTypeOK
    <3>2. wire' = Append(wire, front[p])
      BY <3>1, SendWire
    <3>3. Taken(front[p])
      BY <3>1 DEF Taken
    <3> QED
      BY <3>1, <3>2, <3>3
  <2>2. CASE SendOwn(p)
    <3>1. m_client /\ send(p, p) /\ begun' = begun /\ Busy(p)
      BY <2>2 DEF SendOwn, clientVars, Busy
    <3>2. wire' = Append(wire, p)
      BY <3>1, SendWire
    <3> QED
      BY <3>1, <3>2
  <2> QED
    BY <1>1, <2>1, <2>2 DEF EmitStep, TestConnected, TakeQueued, PushPacket, clientVars
<1>2. CASE NetSendPosted
  <2>1. posted # <<>> /\ posted \in Seq(Packets)
    BY <1>2 DEF NetSendPosted, SocketTypeOK
  <2>2. Head(posted) \in Packets /\ Head(posted) \in Range(posted)
    BY <2>1, RangeTail
  <2>3. wire' = Append(wire, Head(posted)) /\ begun' = begun
    BY <1>2 DEF NetSendPosted, send_impl, emitVars
  <2> QED
    BY <2>2, <2>3
<1>3. CASE NetSendQueued
  <2>1. netFront \in Packets
    BY <1>3 DEF NetSendQueued, SocketTypeOK
  <2>2. wire' = Append(wire, netFront) /\ begun' = begun
    BY <1>3 DEF NetSendQueued, send_impl, emitVars
  <2> QED
    BY <2>1, <2>2 DEF Taken
<1>4. CASE OnConnected \/ NetTakeQueued \/ ClearFlag \/ ClearQueue
             \/ OnOpen \/ OnDisconnect \/ OnClose
  BY <1>4
  DEF OnConnected, NetTakeQueued, ClearFlag, ClearQueue, OnOpen, OnDisconnect, OnClose, clientVars
<1> QED
  BY <1>1, <1>2, <1>3, <1>4, SocketSteps DEF SocketNetStep, Emit, clientVars

\* What is sent stays sent.
LEMMA WireKeeps ==
  ASSUME SocketTypeOK, [Next]_vars, NEW r \in Range(wire)
  PROVE  r \in Range(wire')
<1>1. wire \in Seq(Packets)
  BY DEF SocketTypeOK
<1>2. ASSUME NEW x \in Packets, wire' = Append(wire, x) PROVE r \in Range(wire')
  BY <1>1, <1>2, RangeAppend
<1> QED
  BY <1>2, WireGrows

\* What sending adds to the packets on the wire and to those posted.
LEMMA SendImplRange ==
  ASSUME SocketTypeOK, NEW p, p \in Packets, send_impl(p)
  PROVE  Range(wire') \subseteq Range(wire) \cup {p}
<1>1. wire \in Seq(Packets)
  BY DEF SocketTypeOK
<1>2. Range(Append(wire, p)) = Range(wire) \cup {p}
  BY <1>1, RangeAppend
<1>3. wire' = wire \/ wire' = Append(wire, p)
  BY DEF send_impl
<1> QED
  BY <1>2, <1>3

LEMMA SendRanges ==
  ASSUME SocketTypeOK, NEW sender, NEW p, p \in Packets, send(sender, p)
  PROVE  /\ Range(wire') \subseteq Range(wire) \cup {p}
         /\ Range(posted') \subseteq Range(posted) \cup {p}
<1>1. posted \in Seq(Packets)
  BY DEF SocketTypeOK
<1>2. Range(Append(posted, p)) = Range(posted) \cup {p}
  BY <1>1, RangeAppend
<1>3. CASE sender \in NetPackets
  BY <1>3, SendImplRange DEF send
<1>4. CASE sender \notin NetPackets
  <2>1. posted' = Append(posted, p) /\ wire' = wire
    BY <1>4 DEF send
  <2> QED
    BY <1>2, <2>1
<1> QED
  BY <1>3, <1>4

\* How a packet gets to where it may be sent from.
LEMMA TakenByEmit ==
  ASSUME SocketTypeOK, NEW x \in Packets, EmitStep(x), NEW r \in Packets
  PROVE  /\ Taken(r)' => \/ Taken(r)
                         \/ r = x /\ TestConnected(x) /\ ~m_connected
                         \/ r = x /\ x \in NetPackets /\ ~Busy(x)' /\ r \in Range(wire')
         /\ r \in Range(posted') => r \in Range(posted) \/ Taken(r) \/ (r = x /\ x \notin NetPackets)
<1>1. m_packet_queue \in Seq(Packets) /\ wire \in Seq(Packets) /\ posted \in Seq(Packets)
  BY DEF SocketTypeOK
<1>2. CASE TestConnected(x)
  <2>1. /\ UNCHANGED <<m_packet_queue, wire, front, netFront, posted>>
        /\ \A q \in Packets \ {x} : pc'[q] = pc[q]
        /\ pc'[x] = "push" => ~m_connected
    BY <1>2 DEF TestConnected, EmitDone, socketVars, netRest, SocketTypeOK
  <2> QED
    BY <1>2, <2>1 DEF Taken
<1>3. CASE TakeQueued(x)
  <2>1. UNCHANGED <<wire, netFront, posted>> /\ \A q \in Packets : pc'[q] = "push" => pc[q] = "push"
    BY <1>3 DEF TakeQueued, clientVars, netVars, SocketTypeOK
  <2>2. CASE m_packet_queue = <<>>
    <3>1. UNCHANGED <<front, m_packet_queue>>
      BY <1>3, <2>2 DEF TakeQueued
    <3> QED
      BY <2>1, <3>1 DEF Taken
  <2>3. CASE m_packet_queue # <<>>
    <3>1. /\ Head(m_packet_queue) \in Range(m_packet_queue)
          /\ Range(Tail(m_packet_queue)) \subseteq Range(m_packet_queue)
      BY <1>1, <2>3, RangeTail
    <3>2. /\ front' = [front EXCEPT ![x] = Head(m_packet_queue)]
          /\ m_packet_queue' = Tail(m_packet_queue)
      BY <1>3, <2>3 DEF TakeQueued
    <3>3. \A q \in Packets : front'[q] = front[q] \/ front'[q] \in Range(m_packet_queue)
      BY <3>1, <3>2 DEF SocketTypeOK
    <3>4. Range(m_packet_queue') \subseteq Range(m_packet_queue)
      BY <3>1, <3>2
    <3> QED
      BY <2>1, <3>3, <3>4 DEF Taken
  <2> QED
    BY <2>2, <2>3
<1>4. CASE SendQueued(x)
  <2>1. UNCHANGED <<m_packet_queue, netFront>> /\ \A q \in Packets : pc'[q] = "push" => pc[q] = "push"
    BY <1>4 DEF SendQueued, socketVars, netVars, SocketTypeOK
  <2>2. CASE m_client
    <3>1. send(x, front[x]) /\ front' = [front EXCEPT ![x] = NoPacket] /\ front[x] \in Packets
      BY <1>4, <2>2 DEF SendQueued, SocketTypeOK
    <3>2. \A q \in Packets : front'[q] \in Packets => front'[q] = front[q]
      BY <3>1, SocketAssumption DEF SocketTypeOK
    <3>3. /\ Range(wire') \subseteq Range(wire) \cup {front[x]}
          /\ Range(posted') \subseteq Range(posted) \cup {front[x]}
      BY <3>1, SendRanges
    <3>4. Taken(front[x])
      BY DEF Taken
    <3>5. r \in Range(posted') => r \in Range(posted) \/ Taken(r)
      BY <3>3, <3>4
    <3>6. Taken(r)' => Taken(r)
      <4>1. r \in Range(wire') => r \in Range(wire) \/ Taken(r)
        BY <3>3, <3>4
      <4>2. ASSUME NEW q \in Packets, front'[q] = r PROVE Taken(r)
        BY <3>2, <4>2 DEF Taken
      <4> QED
        BY <2>1, <4>1, <4>2 DEF Taken
    <3> QED
      BY <3>5, <3>6
  <2>3. CASE ~m_client
    <3>1. UNCHANGED <<wire, posted, front>>
      BY <1>4, <2>3 DEF SendQueued, clientVars
    <3> QED
      BY <2>1, <3>1 DEF Taken
  <2> QED
    BY <2>2, <2>3
<1>5. CASE SendOwn(x)
  <2>1. UNCHANGED <<m_packet_queue, front, netFront>>
        /\ \A q \in Packets : pc'[q] = "push" => pc[q] = "push"
    BY <1>5 DEF SendOwn, EmitDone, socketVars, netRest, SocketTypeOK
  <2>2. CASE m_client /\ x \in NetPackets
    <3>1. send_impl(x) /\ posted' = posted /\ pc'[x] = "done"
      BY <1>5, <2>2 DEF SendOwn, EmitDone, send, SocketTypeOK
    <3>2. Range(wire') \subseteq Range(wire) \cup {x}
      BY <3>1, SendImplRange
    <3> QED
      BY <2>1, <2>2, <3>1, <3>2 DEF Taken, Busy
  <2>3. CASE m_client /\ x \notin NetPackets
    <3>1. posted' = Append(posted, x) /\ wire' = wire
      BY <1>5, <2>3 DEF SendOwn, send
    <3>2. Range(posted') = Range(posted) \cup {x}
      BY <1>1, <3>1, RangeAppend
    <3> QED
      BY <2>1, <2>3, <3>1, <3>2 DEF Taken
  <2>4. CASE ~m_client
    <3>1. UNCHANGED <<wire, posted>>
      BY <1>5, <2>4 DEF SendOwn, clientVars
    <3> QED
      BY <2>1, <3>1 DEF Taken
  <2> QED
    BY <2>2, <2>3, <2>4
<1>6. CASE PushPacket(x)
  <2>1. /\ m_packet_queue' = Append(m_packet_queue, x) /\ pc[x] = "push"
        /\ UNCHANGED <<front, netFront, wire, posted>>
        /\ \A q \in Packets : pc'[q] = "push" => pc[q] = "push"
    BY <1>6 DEF PushPacket, EmitDone, netRest, clientVars, SocketTypeOK
  <2>2. Range(m_packet_queue') = Range(m_packet_queue) \cup {x}
    BY <1>1, <2>1, RangeAppend
  <2> QED
    BY <2>1, <2>2 DEF Taken
<1> QED
  BY <1>2, <1>3, <1>4, <1>5, <1>6 DEF EmitStep

LEMMA TakenByNet ==
  ASSUME SocketTypeOK, SocketNetStep \/ OnOpen \/ OnDisconnect \/ OnClose, NEW r \in Packets
  PROVE  /\ r \in Range(posted') => r \in Range(posted)
         /\ Taken(r)' => Taken(r) \/ r \in Range(posted)
<1>1. m_packet_queue \in Seq(Packets) /\ wire \in Seq(Packets) /\ posted \in Seq(Packets)
  BY DEF SocketTypeOK
<1>2. UNCHANGED <<pc, front>>
  BY DEF SocketNetStep, NetSendPosted, OnConnected, NetTakeQueued, NetSendQueued, ClearFlag,
         ClearQueue, OnOpen, OnDisconnect, OnClose, emitVars
<1>3. CASE OnConnected \/ ClearFlag \/ OnOpen \/ OnDisconnect \/ OnClose
  <2>1. UNCHANGED <<m_packet_queue, netFront, posted, wire>>
    BY <1>3 DEF OnConnected, ClearFlag, OnOpen, OnDisconnect, OnClose, netRest, clientVars,
                socketVars
  <2> QED
    BY <1>2, <2>1 DEF Taken
<1>4. CASE NetSendPosted
  <2>1. /\ Head(posted) \in Packets /\ Head(posted) \in Range(posted)
        /\ Range(Tail(posted)) \subseteq Range(posted)
    BY <1>1, <1>4, RangeTail DEF NetSendPosted
  <2>2. Range(wire') \subseteq Range(wire) \cup {Head(posted)}
    BY <1>4, <2>1, SendImplRange DEF NetSendPosted
  <2>3. UNCHANGED <<m_packet_queue, netFront>> /\ posted' = Tail(posted)
    BY <1>4 DEF NetSendPosted, socketVars, netVars
  <2> QED
    BY <1>2, <2>1, <2>2, <2>3 DEF Taken
<1>5. CASE NetTakeQueued
  <2>1. UNCHANGED <<posted, wire>>
    BY <1>5 DEF NetTakeQueued, clientVars
  <2>2. CASE m_packet_queue = <<>>
    BY <1>2, <1>5, <2>1, <2>2 DEF NetTakeQueued, Taken
  <2>3. CASE m_packet_queue # <<>>
    <3>1. /\ Head(m_packet_queue) \in Range(m_packet_queue)
          /\ Range(Tail(m_packet_queue)) \subseteq Range(m_packet_queue)
      BY <1>1, <2>3, RangeTail
    <3>2. netFront' = Head(m_packet_queue) /\ m_packet_queue' = Tail(m_packet_queue)
      BY <1>5, <2>3 DEF NetTakeQueued
    <3> QED
      BY <1>2, <2>1, <3>1, <3>2 DEF Taken
  <2> QED
    BY <2>2, <2>3
<1>6. CASE NetSendQueued
  <2>1. netFront \in Packets /\ netFront' = NoPacket /\ UNCHANGED <<m_packet_queue, posted>>
    BY <1>6 DEF NetSendQueued, SocketTypeOK, socketVars
  <2>2. Range(wire') \subseteq Range(wire) \cup {netFront}
    BY <1>6, <2>1, SendImplRange DEF NetSendQueued
  <2>3. netFront' # r
    BY <2>1, SocketAssumption
  <2> QED
    BY <1>2, <2>1, <2>2, <2>3 DEF Taken
<1>7. CASE ClearQueue
  <2>1. m_packet_queue' = <<>> /\ UNCHANGED <<netFront, posted, wire>>
    BY <1>7 DEF ClearQueue, netRest
  <2>2. Range(m_packet_queue') = {}
    BY <2>1 DEF Range
  <2> QED
    BY <1>2, <2>1, <2>2 DEF Taken
<1> QED
  BY <1>3, <1>4, <1>5, <1>6, <1>7 DEF SocketNetStep

LEMMA TakenByBegin ==
  ASSUME SocketTypeOK, NEW x \in Packets, Emit(x), NEW r \in Packets
  PROVE  posted' = posted /\ (Taken(r)' => Taken(r))
<1>1. /\ UNCHANGED <<m_packet_queue, front, netFront, posted, wire>>
      /\ \A q \in Packets : pc'[q] = "push" => pc[q] = "push"
  BY DEF Emit, socketVars, netRest, SocketTypeOK
<1> QED
  BY <1>1 DEF Taken

\* The network thread and the flag rest while a reply's handler runs.
LEMMA HandlerRests ==
  ASSUME HandlerAlone, NEW p \in NetPackets, Busy(p)
  PROVE  ~(SocketNetStep \/ OnOpen \/ OnDisconnect \/ OnClose)
  BY DEF HandlerAlone, SocketNetStep, NetSendPosted, OnConnected, NetTakeQueued, NetSendQueued,
         ClearFlag, ClearQueue, OnOpen, OnDisconnect, OnClose

LEMMA ReplyDirectStep ==
  ASSUME SocketTypeOK, HandlerAlone, ReplyDirect, [Next]_vars
  PROVE  ReplyDirect'
<1>1. NetPackets \subseteq Packets
  BY DEF Packets
<1>2. CASE UNCHANGED <<socketVars, emitVars, netVars, clientVars>>
  BY <1>2 DEF socketVars, emitVars, netVars, clientVars, ReplyDirect, Busy, Taken
<1>3. ASSUME NEW x \in Packets, Emit(x) PROVE ReplyDirect'
  <2>1. /\ UNCHANGED <<m_connected, wire>>
        /\ \A p \in Packets \ {x} : pc'[p] = pc[p]
        /\ x \in NetPackets => m_connected
    BY <1>3 DEF Emit, MayEmit, socketVars, SocketTypeOK
  <2>2. ASSUME NEW p \in NetPackets, Busy(p)' PROVE m_connected'
    <3>1. p = x \/ Busy(p)
      BY <1>1, <2>1, <2>2 DEF Busy
    <3> QED
      BY <2>1, <3>1 DEF ReplyDirect
  <2>3. ASSUME NEW p \in NetPackets, p \notin Range(wire')
        PROVE  p \notin Range(posted') /\ ~Taken(p)'
    <3>1. p \notin Range(posted) /\ ~Taken(p)
      BY <2>1, <2>3 DEF ReplyDirect
    <3> QED
      BY <1>1, <1>3, <3>1, TakenByBegin
  <2> QED
    BY <2>2, <2>3 DEF ReplyDirect
<1>4. ASSUME NEW x \in Packets, EmitStep(x) PROVE ReplyDirect'
  <2>1. m_connected' = m_connected
    BY <1>4 DEF EmitStep, TestConnected, TakeQueued, SendQueued, SendOwn, PushPacket, socketVars
  <2>2. /\ Busy(x)
        /\ \A p \in Packets \ {x} : pc'[p] = pc[p]
    BY <1>4 DEF EmitStep, TestConnected, TakeQueued, SendQueued, SendOwn, PushPacket, EmitDone,
                Busy, SocketTypeOK
  <2>3. ASSUME NEW p \in NetPackets, Busy(p)' PROVE m_connected'
    <3>1. Busy(p)
      BY <1>1, <2>2, <2>3 DEF Busy
    <3> QED
      BY <2>1, <3>1 DEF ReplyDirect
  <2>4. ASSUME NEW p \in NetPackets, p \notin Range(wire')
        PROVE  p \notin Range(posted') /\ ~Taken(p)'
    <3>1. p \notin Range(wire)
      BY <2>4, WireKeeps
    <3>2. p \notin Range(posted) /\ ~Taken(p)
      BY <3>1 DEF ReplyDirect
    <3>3. p = x => m_connected
      BY <2>2 DEF ReplyDirect
    <3> QED
      BY <1>1, <1>4, <2>4, <3>2, <3>3, TakenByEmit
  <2> QED
    BY <2>3, <2>4 DEF ReplyDirect
<1>5. CASE SocketNetStep \/ OnOpen \/ OnDisconnect \/ OnClose
  <2>1. pc' = pc
    BY <1>5
    DEF SocketNetStep, NetSendPosted, OnConnected, NetTakeQueued, NetSendQueued, ClearFlag,
        ClearQueue, OnOpen, OnDisconnect, OnClose, emitVars
  <2>2. ASSUME NEW p \in NetPackets PROVE ~Busy(p)'
    BY <1>5, <2>1, HandlerRests DEF Busy
  <2>3. ASSUME NEW p \in NetPackets, p \notin Range(wire')
        PROVE  p \notin Range(posted') /\ ~Taken(p)'
    <3>1. p \notin Range(wire)
      BY <2>3, WireKeeps
    <3>2. p \notin Range(posted) /\ ~Taken(p)
      BY <3>1 DEF ReplyDirect
    <3> QED
      BY <1>1, <1>5, <3>2, TakenByNet
  <2> QED
    BY <2>2, <2>3 DEF ReplyDirect
<1> QED
  BY <1>2, <1>3, <1>4, <1>5, SocketSteps

LEMMA AfterReplyStep ==
  ASSUME SocketTypeOK, HandlerAlone, OnceInv, BegunInv, ReplyDirect, AfterReply, [Next]_vars
  PROVE  AfterReply'
<1> SUFFICES ASSUME NEW p \in NetPackets, NEW q \in Packets,
                    Busy(p)', Before(p, q, begun'), Taken(q)'
             PROVE  FALSE
  BY DEF AfterReply
<1>1. p \in Packets /\ begun \in Seq(Packets)
  BY DEF Packets, SocketTypeOK
<1>2. CASE begun' = begun /\ \A r \in Packets : pc'[r] = "none" <=> pc[r] = "none"
  <2>1. Busy(p)
    <3>1. pc[p] # "done"
      <4>1. ASSUME pc[p] = "done" PROVE pc'[p] = "done"
        <5>1. ASSUME NEW x \in Packets, EmitStep(x) PROVE pc'[p] = "done"
          BY <1>1, <4>1, <5>1
          DEF EmitStep, TestConnected, TakeQueued, SendQueued, SendOwn, PushPacket, EmitDone,
              SocketTypeOK
        <5>2. ASSUME NEW x \in Packets, Emit(x) PROVE FALSE
          BY <1>2, <5>2 DEF Emit, SocketTypeOK
        <5>3. CASE SocketNetStep \/ OnOpen \/ OnDisconnect \/ OnClose
          BY <4>1, <5>3
          DEF SocketNetStep, NetSendPosted, OnConnected, NetTakeQueued, NetSendQueued, ClearFlag,
              ClearQueue, OnOpen, OnDisconnect, OnClose, emitVars
        <5> QED
          BY <4>1, <5>1, <5>2, <5>3, SocketSteps DEF emitVars
      <4> QED
        BY <4>1 DEF Busy
    <3> QED
      BY <1>1, <1>2, <3>1 DEF Busy
  <2>2. ~Taken(q) /\ m_connected
    BY <1>2, <2>1 DEF AfterReply, ReplyDirect
  <2>3. ASSUME NEW x \in Packets, EmitStep(x) PROVE FALSE
    <3>1. q = x /\ x \in NetPackets /\ ~Busy(x)'
      BY <2>2, <2>3, TakenByEmit
    <3>2. Busy(x)
      BY <2>3 DEF EmitStep, TestConnected, TakeQueued, SendQueued, SendOwn, PushPacket, Busy
    <3>3. x = p
      BY <2>1, <3>1, <3>2 DEF HandlerAlone
    <3> QED
      BY <3>1, <3>3
  <2>4. ASSUME NEW x \in Packets, Emit(x) PROVE FALSE
    BY <2>2, <2>4, TakenByBegin
  <2>5. ~(SocketNetStep \/ OnOpen \/ OnDisconnect \/ OnClose)
    BY <2>1, HandlerRests
  <2>6. CASE UNCHANGED <<socketVars, emitVars, netVars, clientVars>>
    BY <2>2, <2>6 DEF socketVars, emitVars, netVars, clientVars, Taken
  <2> QED
    BY <2>3, <2>4, <2>5, <2>6, SocketSteps
<1>3. ASSUME NEW x \in Packets, Emit(x), pc[x] = "none", begun' = Append(begun, x),
             \A r \in Packets \ {x} : pc'[r] = pc[r]
      PROVE  FALSE
  <2>1. Before(p, q, begun) \/ (x = q /\ p \in Range(begun))
    BY <1>1, <1>3, BeforeAppend
  <2>2. p \in Range(begun)
    BY <2>1 DEF Before, Range
  <2>3. p # x
    BY <1>3, <2>2 DEF BegunInv
  <2>4. Busy(p)
    BY <1>1, <1>3, <2>3 DEF Busy
  <2>5. Taken(q)
    BY <1>3, TakenByBegin
  <2>6. x # q
    BY <1>3, <2>5, NowhereYet
  <2> QED
    BY <2>1, <2>4, <2>5, <2>6 DEF AfterReply
<1> QED
  BY <1>2, <1>3, BegunGrows

LEMMA RepliesFirstStep ==
  ASSUME SocketTypeOK, SocketTypeOK', EachPacketOnce', FrontInv', OnceInv, BegunInv, ReplyDirect,
         AfterReply, RepliesFirst, [Next]_vars
  PROVE  RepliesFirst'
<1> SUFFICES ASSUME NEW p \in NetPackets, NEW q \in Packets,
                    Before(p, q, begun'), p \in Range(wire'), Before(q, p, wire')
             PROVE  FALSE
  BY DEF RepliesFirst
<1>1. p \in Packets /\ begun \in Seq(Packets) /\ wire \in Seq(Packets)
  BY DEF Packets, SocketTypeOK
<1>2. CASE wire' = wire
  <2>1. CASE begun' = begun
    BY <1>2, <2>1 DEF RepliesFirst
  <2>2. ASSUME NEW x \in Packets, pc[x] = "none", begun' = Append(begun, x)
        PROVE  FALSE
    <3>1. Before(p, q, begun) \/ x = q
      BY <1>1, <2>2, BeforeAppend
    <3>2. ASSUME x = q PROVE FALSE
      <4>1. q \in Range(wire)
        BY <1>2 DEF Before, Range
      <4> QED
        BY <2>2, <3>2, <4>1, NowhereYet DEF Taken
    <3> QED
      BY <1>2, <3>1, <3>2 DEF RepliesFirst
  <2> QED
    BY <2>1, <2>2, BegunGrows
<1>3. ASSUME NEW x \in Packets, wire' = Append(wire, x), begun' = begun,
             x \in Range(posted) \/ Taken(x) \/ Busy(x)
      PROVE  FALSE
  <2>1. Before(q, p, wire) \/ (x = p /\ q \in Range(wire))
    BY <1>1, <1>3, BeforeAppend
  <2>2. p \notin Range(wire)
    <3>1. ASSUME p \in Range(wire) PROVE FALSE
      <4>1. ~Before(q, p, wire)
        BY <1>3, <3>1 DEF RepliesFirst
      <4>2. x = p
        BY <2>1, <4>1
      <4>3. Occurrences(p, wire') = Occurrences(p, wire) + One(x = p)
        BY <1>1, <1>3, OccurrencesAppend
      <4>4. One(x = p) = 1
        BY <4>2 DEF One
      <4>5. Occurrences(p, wire) \in Nat /\ Occurrences(p, wire) # 0
        BY <1>1, <3>1, OccurrencesType
      <4>6. Occurrences(p, wire') <= 1
        <5>1. Places(p)' \in {0, 1}
          BY <1>1 DEF EachPacketOnce
        <5>2. Occurrences(p, wire') <= Places(p)'
          BY <1>1, PlacesNext
        <5>3. Occurrences(p, wire') \in Nat
          BY <4>3, <4>4, <4>5
        <5> QED
          BY <5>1, <5>2, <5>3
      <4> QED
        BY <4>3, <4>4, <4>5, <4>6
    <3> QED
      BY <3>1
  <2>3. x = p /\ q \in Range(wire)
    <3>1. ASSUME Before(q, p, wire) PROVE p \in Range(wire)
      BY <3>1 DEF Before, Range
    <3> QED
      BY <2>1, <2>2, <3>1
  <2>4. Busy(p)
    BY <1>3, <2>2, <2>3 DEF ReplyDirect
  <2>5. ~Taken(q)
    BY <1>3, <2>4 DEF AfterReply
  <2> QED
    BY <2>3, <2>5 DEF Taken
<1> QED
  BY <1>2, <1>3, WireGrows

LEMMA ReplyStep ==
  TypeOK /\ TypeOK' /\ HandlerAlone /\ OnceInv /\ OnceInv' /\ ReplyInv /\ [Next]_vars => ReplyInv'
<1> SUFFICES ASSUME TypeOK, TypeOK', HandlerAlone, OnceInv, OnceInv', ReplyInv, [Next]_vars
             PROVE  ReplyInv'
  OBVIOUS
<1>1. SocketTypeOK /\ SocketTypeOK'
  BY DEF TypeOK
<1>2. BegunInv /\ ReplyDirect /\ AfterReply /\ RepliesFirst
  BY DEF ReplyInv
<1>3. EachPacketOnce' /\ FrontInv'
  BY DEF OnceInv
<1> QED
  BY <1>1, <1>2, <1>3, BegunStep, ReplyDirectStep, AfterReplyStep, RepliesFirstStep DEF ReplyInv

(***************************************************************************)
(* A reply that a handler emits on the network thread is on the wire       *)
(* before every packet whose emit began after it.  Its handler has the     *)
(* network thread, so nothing that was posted is sent and the connection   *)
(* does not change while it runs; and its emit finds the socket connected, *)
(* so that it goes to the connection and not into the queue.               *)
(***************************************************************************)
THEOREM RepliesKeepTheirPlace == Spec => []RepliesFirst
<1>1. Init => ReplyInv
  <2> SUFFICES ASSUME Init PROVE ReplyInv
    OBVIOUS
  <2>1. Range(<<>>) = {} /\ DOMAIN <<>> = {}
    BY DEF Range
  <2>2. NoPacket \notin Packets /\ NetPackets \subseteq Packets
    BY SocketAssumption DEF Packets
  <2> QED
    BY <2>1, <2>2
    DEF Init, SocketInit, ReplyInv, BegunInv, ReplyDirect, AfterReply, RepliesFirst, Busy, Taken,
        Before
<1>2. ReplyInv => RepliesFirst
  BY DEF ReplyInv
<1> QED
  BY <1>1, <1>2, ReplyStep, OnceAlways, TypeCorrect, PTL DEF Spec
=============================================================================
