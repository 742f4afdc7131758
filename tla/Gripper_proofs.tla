--------------------------- MODULE Gripper_proofs ---------------------------
(***************************************************************************)
(* What holds of the calls of handlingService, the line and the board      *)
(* however the calls overlap and whatever bytes the board loses, for every *)
(* value of the constants of Gripper.                                      *)
(***************************************************************************)
EXTENDS Gripper, SequenceTheorems, FiniteSetTheorems, TLAPS

-----------------------------------------------------------------------------
\* The requests and the answers, byte by byte.

LEMMA Tuple3 == \A S : \A a, b, c \in S : \A s : s = <<a, b, c>> => s \in Seq(S)
  OBVIOUS

LEMMA Tuple4 == \A S : \A a, b, c, d \in S : \A s : s = <<a, b, c, d>> => s \in Seq(S)
  OBVIOUS

LEMMA OpenText ==
  /\ Text("OPEN") \in Seq(Bytes) /\ Len(Text("OPEN")) = 3 /\ DOMAIN Text("OPEN") = 1 .. 3
  /\ Text("OPEN")[1] = "{" /\ Text("OPEN")[2] = "OPEN"
  /\ Text("OPEN")[3] = "}"
<1>1. PICK s : s = Text("OPEN")
  OBVIOUS
<1>2. s = <<"{", "OPEN", "}">>
  BY <1>1 DEF Text
<1>3. "{" \in Bytes /\ "OPEN" \in Bytes /\ "}" \in Bytes
  BY DEF Bytes
<1>4. s \in Seq(Bytes)
  BY <1>2, <1>3, Tuple3
<1>5. /\ Len(s) = 3
      /\ s[1] = "{" /\ s[2] = "OPEN" /\ s[3] = "}"
  BY <1>2
<1>6. DOMAIN s = 1 .. 3
  BY <1>4, <1>5, LenProperties
<1> QED
  BY <1>1, <1>4, <1>5, <1>6

LEMMA CloseText ==
  /\ Text("CLOSE") \in Seq(Bytes) /\ Len(Text("CLOSE")) = 4 /\ DOMAIN Text("CLOSE") = 1 .. 4
  /\ Text("CLOSE")[1] = "{" /\ Text("CLOSE")[2] = "CLO"
  /\ Text("CLOSE")[3] = "SE" /\ Text("CLOSE")[4] = "}"
<1>1. PICK s : s = Text("CLOSE")
  OBVIOUS
<1>2. s = <<"{", "CLO", "SE", "}">>
  BY <1>1 DEF Text
<1>3. "{" \in Bytes /\ "CLO" \in Bytes /\ "SE" \in Bytes /\ "}" \in Bytes
  BY DEF Bytes
<1>4. s \in Seq(Bytes)
  BY <1>2, <1>3, Tuple4
<1>5. /\ Len(s) = 4
      /\ s[1] = "{" /\ s[2] = "CLO" /\ s[3] = "SE" /\ s[4] = "}"
  BY <1>2
<1>6. DOMAIN s = 1 .. 4
  BY <1>4, <1>5, LenProperties
<1> QED
  BY <1>1, <1>4, <1>5, <1>6

LEMMA ToggleText ==
  /\ Text("TOGGLE") \in Seq(Bytes) /\ Len(Text("TOGGLE")) = 4 /\ DOMAIN Text("TOGGLE") = 1 .. 4
  /\ Text("TOGGLE")[1] = "{" /\ Text("TOGGLE")[2] = "TOG"
  /\ Text("TOGGLE")[3] = "GLE" /\ Text("TOGGLE")[4] = "}"
<1>1. PICK s : s = Text("TOGGLE")
  OBVIOUS
<1>2. s = <<"{", "TOG", "GLE", "}">>
  BY <1>1 DEF Text
<1>3. "{" \in Bytes /\ "TOG" \in Bytes /\ "GLE" \in Bytes /\ "}" \in Bytes
  BY DEF Bytes
<1>4. s \in Seq(Bytes)
  BY <1>2, <1>3, Tuple4
<1>5. /\ Len(s) = 4
      /\ s[1] = "{" /\ s[2] = "TOG" /\ s[3] = "GLE" /\ s[4] = "}"
  BY <1>2
<1>6. DOMAIN s = 1 .. 4
  BY <1>4, <1>5, LenProperties
<1> QED
  BY <1>1, <1>4, <1>5, <1>6

LEMMA RequestCases ==
  ASSUME NEW r \in Requests
  PROVE  r = "OPEN" \/ r = "CLOSE" \/ r = "TOGGLE"
  BY DEF Requests

LEMMA TextShape ==
  ASSUME NEW r \in Requests
  PROVE  /\ Text(r) \in Seq(Bytes)
         /\ Len(Text(r)) \in {3, 4}
         /\ DOMAIN Text(r) = 1 .. Len(Text(r))
         /\ Text(r)[1] = "{" /\ Text(r)[Len(Text(r))] = "}"
         /\ \A i \in 2 .. Len(Text(r)) : Text(r)[i] # "{"
         /\ \A i \in 1 .. (Len(Text(r)) - 1) : Text(r)[i] # "}"
<1>1. CASE r = "OPEN"
  <2>1. 2 .. 3 = {2, 3} /\ 1 .. (3 - 1) = {1, 2}
    OBVIOUS
  <2> QED
    BY <1>1, <2>1, OpenText
<1>2. 2 .. 4 = {2, 3, 4} /\ 1 .. (4 - 1) = {1, 2, 3}
  OBVIOUS
<1>3. CASE r = "CLOSE"
  BY <1>2, <1>3, CloseText
<1>4. CASE r = "TOGGLE"
  BY <1>2, <1>4, ToggleText
<1> QED
  BY <1>1, <1>3, <1>4, RequestCases

\* Different requests have different texts.
LEMMA TextsDiffer ==
  ASSUME NEW r \in Requests, NEW t \in Requests, Text(r)[2] = Text(t)[2]
  PROVE  r = t
  BY RequestCases, OpenText, CloseText, ToggleText

\* Every byte between the braces has one place.
LEMMA OnePlace ==
  ASSUME NEW r \in Requests, NEW n \in 1 .. (Len(Text(r)) - 1),
         NEW t \in Requests, NEW i \in 1 .. (Len(Text(t)) - 1), Text(r)[n] = Text(t)[i]
  PROVE  i = n /\ (n = 1 \/ r = t)
<1>0. PICK lr, lt \in {3, 4} : lr = Len(Text(r)) /\ lt = Len(Text(t))
  BY TextShape
<1>1. /\ n \in 1 .. (lr - 1) /\ i \in 1 .. (lt - 1)
      /\ n \in 1 .. 3 /\ i \in 1 .. 3
      /\ n = 3 => lr = 4
      /\ i = 3 => lt = 4
  BY <1>0
<1>2. /\ n = 1 \/ n = 2 \/ n = 3
      /\ i = 1 \/ i = 2 \/ i = 3
  BY <1>1
<1>3. CASE r = "OPEN"
  BY <1>0, <1>1, <1>2, <1>3, RequestCases, OpenText, CloseText, ToggleText
<1>4. CASE r = "CLOSE"
  BY <1>0, <1>1, <1>2, <1>4, RequestCases, OpenText, CloseText, ToggleText
<1>5. CASE r = "TOGGLE"
  BY <1>0, <1>1, <1>2, <1>5, RequestCases, OpenText, CloseText, ToggleText
<1> QED
  BY <1>3, <1>4, <1>5, RequestCases

\* A byte that may follow the n-th of a text goes on with a text of the same beginning.
LEMMA PrefixExtends ==
  ASSUME NEW r \in Requests, NEW n \in 1 .. (Len(Text(r)) - 1), NEW b, Follows(Text(r)[n], b)
  PROVE  \E t \in Requests : /\ n < Len(Text(t))
                             /\ \A i \in 1 .. n : Text(t)[i] = Text(r)[i]
                             /\ Text(t)[n + 1] = b
<1>1. PICK t \in Requests : \E i \in 1 .. (Len(Text(t)) - 1) :
        Text(r)[n] = Text(t)[i] /\ b = Text(t)[i + 1]
  <2>1. Text(r)[n] # "}"
    BY TextShape
  <2> QED
    BY <2>1 DEF Follows
<1>2. PICK i \in 1 .. (Len(Text(t)) - 1) : Text(r)[n] = Text(t)[i] /\ b = Text(t)[i + 1]
  BY <1>1
<1>3. i = n /\ (n = 1 \/ r = t)
  BY <1>2, OnePlace
<1>4. \A k \in 1 .. n : Text(t)[k] = Text(r)[k]
  <2>1. Text(t)[1] = "{" /\ Text(r)[1] = "{"
    BY TextShape
  <2>2. CASE n = 1
    <3>1. \A k \in 1 .. n : k = 1
      BY <2>2
    <3> QED
      BY <2>1, <3>1
  <2> QED
    BY <1>3, <2>2
<1>5. Len(Text(t)) \in {3, 4}
  BY TextShape
<1> QED
  BY <1>2, <1>3, <1>4, <1>5

\* Nothing but an opening brace follows a closing one, and something follows every other byte.
LEMMA AfterClosing ==
  ASSUME NEW b, Follows("}", b)
  PROVE  b = "{"
  BY TextShape DEF Follows

-----------------------------------------------------------------------------
\* Sequences.

LEMMA SeqEnds ==
  ASSUME NEW S, NEW s \in Seq(S), s # <<>>
  PROVE  /\ Len(s) \in Nat \ {0} /\ DOMAIN s = 1 .. Len(s)
         /\ 1 \in DOMAIN s /\ Head(s) = s[1] /\ Head(s) \in S
         /\ Tail(s) \in Seq(S) /\ Len(Tail(s)) = Len(s) - 1
         /\ DOMAIN Tail(s) = 1 .. (Len(s) - 1)
         /\ \A i \in 1 .. (Len(s) - 1) : Tail(s)[i] = s[i + 1]
<1>1. Len(s) \in Nat \ {0} /\ DOMAIN s = 1 .. Len(s)
  BY EmptySeq, LenProperties
<1>2. /\ Tail(s) \in Seq(S) /\ Len(Tail(s)) = Len(s) - 1
      /\ \A i \in 1 .. Len(Tail(s)) : Tail(s)[i] = s[i + 1]
      /\ Head(s) \in S
  BY HeadTailProperties
<1>3. DOMAIN Tail(s) = 1 .. (Len(s) - 1)
  BY <1>2, LenProperties
<1>4. Head(s) = s[1] /\ 1 \in DOMAIN s
  BY <1>1
<1> QED
  BY <1>1, <1>2, <1>3, <1>4

LEMMA AppendEnds ==
  ASSUME NEW S, NEW s \in Seq(S), NEW e \in S
  PROVE  /\ Len(s) \in Nat /\ DOMAIN s = 1 .. Len(s)
         /\ Append(s, e) \in Seq(S) /\ Len(Append(s, e)) = Len(s) + 1
         /\ DOMAIN Append(s, e) = 1 .. (Len(s) + 1)
         /\ \A i \in 1 .. Len(s) : Append(s, e)[i] = s[i]
         /\ Append(s, e)[Len(s) + 1] = e
<1>1. Len(s) \in Nat /\ DOMAIN s = 1 .. Len(s)
  BY LenProperties
<1>2. /\ Append(s, e) \in Seq(S) /\ Len(Append(s, e)) = Len(s) + 1
      /\ \A i \in 1 .. Len(s) : Append(s, e)[i] = s[i]
      /\ Append(s, e)[Len(s) + 1] = e
  BY AppendProperties
<1> QED
  BY <1>1, <1>2, LenProperties

LEMMA ConcatEnds ==
  ASSUME NEW S, NEW s \in Seq(S), NEW t \in Seq(S)
  PROVE  /\ s \o t \in Seq(S)
         /\ Len(s) \in Nat /\ Len(t) \in Nat
         /\ DOMAIN (s \o t) = 1 .. (Len(s) + Len(t))
         /\ Len(s \o t) = Len(s) + Len(t)
         /\ \A i \in 1 .. Len(s) : (s \o t)[i] = s[i]
         /\ \A i \in 1 .. Len(t) : (s \o t)[Len(s) + i] = t[i]
<1>1. s \o t \in Seq(S) /\ Len(s \o t) = Len(s) + Len(t)
  BY ConcatProperties
<1>2. Len(s) \in Nat /\ Len(t) \in Nat
  BY LenProperties
<1>3. DOMAIN (s \o t) = 1 .. (Len(s) + Len(t))
  BY <1>1, LenProperties
<1>4. \A i \in 1 .. Len(s) : (s \o t)[i] = s[i]
  BY <1>2, ConcatProperties
<1>5. \A i \in 1 .. Len(t) : (s \o t)[Len(s) + i] = t[i]
  BY <1>2, ConcatProperties
<1> QED
  BY <1>1, <1>2, <1>3, <1>4, <1>5

\* The answers.
LEMMA DoneShape ==
  /\ Done \in Seq(Bytes) /\ Len(Done) = 3 /\ DOMAIN Done = 1 .. 3
  /\ Done[1] = "{" /\ Done[2] = "DONE"
  /\ Done[3] = "}"
<1>1. PICK s : s = Done
  OBVIOUS
<1>2. s = <<"{", "DONE", "}">>
  BY <1>1 DEF Done
<1>3. "{" \in Bytes /\ "DONE" \in Bytes /\ "}" \in Bytes
  BY DEF Bytes
<1>4. s \in Seq(Bytes)
  BY <1>2, <1>3, Tuple3
<1>5. /\ Len(s) = 3
      /\ s[1] = "{" /\ s[2] = "DONE" /\ s[3] = "}"
  BY <1>2
<1>6. DOMAIN s = 1 .. 3
  BY <1>4, <1>5, LenProperties
<1> QED
  BY <1>1, <1>4, <1>5, <1>6

LEMMA ErrorShape ==
  /\ Error \in Seq(Bytes) /\ Len(Error) = 3 /\ DOMAIN Error = 1 .. 3
  /\ Error[1] = "{" /\ Error[2] = "ERROR"
  /\ Error[3] = "}"
<1>1. PICK s : s = Error
  OBVIOUS
<1>2. s = <<"{", "ERROR", "}">>
  BY <1>1 DEF Error
<1>3. "{" \in Bytes /\ "ERROR" \in Bytes /\ "}" \in Bytes
  BY DEF Bytes
<1>4. s \in Seq(Bytes)
  BY <1>2, <1>3, Tuple3
<1>5. /\ Len(s) = 3
      /\ s[1] = "{" /\ s[2] = "ERROR" /\ s[3] = "}"
  BY <1>2
<1>6. DOMAIN s = 1 .. 3
  BY <1>4, <1>5, LenProperties
<1> QED
  BY <1>1, <1>4, <1>5, <1>6

LEMMA ToggleDoneShape ==
  /\ ToggleDone \in Seq(Bytes) /\ Len(ToggleDone) = 4 /\ DOMAIN ToggleDone = 1 .. 4
  /\ ToggleDone[1] = "ENTRO" /\ ToggleDone[2] = "{"
  /\ ToggleDone[3] = "DONE" /\ ToggleDone[4] = "}"
<1>1. PICK s : s = <<"ENTRO">>
  OBVIOUS
<1>2. s \in Seq(Bytes) /\ Len(s) = 1 /\ s[1] = "ENTRO"
  <2>1. "ENTRO" \in Bytes
    BY DEF Bytes
  <2>2. \A S : \A a \in S : \A t : t = <<a>> => t \in Seq(S)
    OBVIOUS
  <2>3. Len(s) = 1 /\ s[1] = "ENTRO"
    BY <1>1
  <2> QED
    BY <1>1, <2>1, <2>2, <2>3
<1>3. PICK d : d = Done
  OBVIOUS
<1>4. d \in Seq(Bytes) /\ Len(d) = 3 /\ d[1] = "{" /\ d[2] = "DONE" /\ d[3] = "}"
  BY <1>3, DoneShape
<1>5. PICK t : t = ToggleDone
  OBVIOUS
<1>6. t = s \o d
  BY <1>1, <1>3, <1>5 DEF ToggleDone
<1>7. /\ s \o d \in Seq(Bytes) /\ DOMAIN (s \o d) = 1 .. (Len(s) + Len(d))
      /\ Len(s \o d) = Len(s) + Len(d)
      /\ \A i \in 1 .. Len(s) : (s \o d)[i] = s[i]
      /\ \A i \in 1 .. Len(d) : (s \o d)[Len(s) + i] = d[i]
  <2>1. s \in Seq(Bytes) /\ d \in Seq(Bytes)
    BY <1>2, <1>4
  <2> QED
    BY <2>1, ConcatEnds
<1>8. Len(s) = 1 /\ Len(d) = 3
  BY <1>2, <1>4
<1>9. t \in Seq(Bytes) /\ DOMAIN t = 1 .. 4 /\ Len(t) = 4
  BY <1>6, <1>7, <1>8
<1>10. t[1] = s[1]
  BY <1>6, <1>7, <1>8
<1>11. t[2] = d[1]
  BY <1>6, <1>7, <1>8
<1>12. t[3] = d[2]
  BY <1>6, <1>7, <1>8
<1>13. t[4] = d[3]
  BY <1>6, <1>7, <1>8
<1> QED
  BY <1>2, <1>4, <1>5, <1>9, <1>10, <1>11, <1>12, <1>13

-----------------------------------------------------------------------------
\* Types.

LEMMA TypeInit == Init => TypeOK
<1> SUFFICES ASSUME Init PROVE TypeOK
  OBVIOUS
<1>1. <<>> \in Seq(Bytes)
  OBVIOUS
<1>2. 0 \in 0 .. MaxFds /\ 0 \in 0 .. BufferSize
  <2>1. MaxFds \in Nat /\ BufferSize \in Nat
    BY HandlingAssumption, FirmwareAssumption
  <2> QED
    BY <2>1
<1>3. /\ toBoard \in Seq(Bytes) /\ toHost \in Seq(Bytes) /\ sending \in Seq(Bytes)
      /\ fds \in 0 .. MaxFds /\ written \in Nat /\ bufferlength \in 0 .. BufferSize
  BY <1>1, <1>2 DEF Init, HostInit, FirmwareInit
<1>4. /\ call \in [Calls -> {"none", "check", "avail", "getchar", "returned"}]
      /\ reply \in [Calls -> Bytes \cup {NoChar, ""}]
      /\ countMSG \in [Calls -> Int]
      /\ result \in [Calls -> {0, 1}]
  <2>1. /\ call = [c \in Calls |-> "none"] /\ reply = [c \in Calls |-> ""]
        /\ countMSG = [c \in Calls |-> 0] /\ result = [c \in Calls |-> 1]
    BY DEF Init, HostInit
  <2>2. call \in [Calls -> {"none", "check", "avail", "getchar", "returned"}]
    BY <2>1
  <2>3. reply \in [Calls -> Bytes \cup {NoChar, ""}]
    BY <2>1
  <2>4. countMSG \in [Calls -> Int]
    <3>1. 0 \in Int
      OBVIOUS
    <3> QED
      BY <2>1, <3>1
  <2>5. result \in [Calls -> {0, 1}]
    BY <2>1
  <2> QED
    BY <2>2, <2>3, <2>4, <2>5
<1>5. /\ rxbuf \in Bytes \cup {NoByte}
      /\ LineBuffer \in [Indices -> Bytes \cup {NoByte}]
      /\ bracketsCount \in Int
      /\ isr \in {"idle", "replying", "corrupt"}
      /\ cts \in BOOLEAN
      /\ servo \in Requests
  <2>1. /\ rxbuf = NoByte /\ LineBuffer = [i \in Indices |-> NoByte] /\ bracketsCount = 0
        /\ isr = "idle" /\ cts = FALSE /\ servo = "CLOSE"
    BY DEF Init, FirmwareInit, Cleared
  <2>2. LineBuffer \in [Indices -> Bytes \cup {NoByte}]
    BY <2>1
  <2>3. servo \in Requests
    BY <2>1 DEF Requests
  <2>4. bracketsCount \in Int /\ cts \in BOOLEAN
    <3>1. 0 \in Int
      OBVIOUS
    <3> QED
      BY <2>1, <3>1
  <2>5. rxbuf \in Bytes \cup {NoByte} /\ isr \in {"idle", "replying", "corrupt"}
    BY <2>1
  <2> QED
    BY <2>2, <2>3, <2>4, <2>5
<1> QED
  BY <1>3, <1>4, <1>5 DEF TypeOK

\* What one character does to the call that reads it.
LEMMA TypeKeep ==
  ASSUME TypeOK, NEW c \in Calls, NEW char \in Bytes \cup {NoChar}, Keep(c, char)
  PROVE  /\ call' \in [Calls -> {"none", "check", "avail", "getchar", "returned"}]
         /\ reply' \in [Calls -> Bytes \cup {NoChar, ""}]
         /\ countMSG' \in [Calls -> Int]
         /\ UNCHANGED <<toBoard, result, fds, written>>
<1>1. /\ call \in [Calls -> {"none", "check", "avail", "getchar", "returned"}]
      /\ reply \in [Calls -> Bytes \cup {NoChar, ""}]
      /\ countMSG \in [Calls -> Int]
  BY DEF TypeOK
<1>2. call' \in [Calls -> {"none", "check", "avail", "getchar", "returned"}]
  BY <1>1 DEF Keep
<1>3. reply' \in [Calls -> Bytes \cup {NoChar, ""}]
  BY <1>1 DEF Keep
<1>4. countMSG' \in [Calls -> Int]
  <2>1. CASE reply[c] # "" \/ char = "{"
    <3>1. countMSG[c] \in Int
      BY <1>1
    <3>2. PICK n \in Int : countMSG' = [countMSG EXCEPT ![c] = n]
      <4>0. countMSG[c] + 1 \in Int /\ countMSG[c] - 1 \in Int
        BY <3>1
      <4>1. CASE char = "{"
        <5>1. countMSG' = [countMSG EXCEPT ![c] = countMSG[c] + 1]
          BY <2>1, <4>1 DEF Keep
        <5> QED
          BY <4>0, <5>1
      <4>2. CASE char = "}"
        <5>1. countMSG' = [countMSG EXCEPT ![c] = countMSG[c] - 1]
          BY <2>1, <4>2 DEF Keep
        <5> QED
          BY <4>0, <5>1
      <4>3. CASE char # "{" /\ char # "}"
        BY <2>1, <3>1, <4>3 DEF Keep
      <4> QED
        BY <4>1, <4>2, <4>3
    <3> QED
      BY <1>1, <3>2
  <2>2. CASE ~(reply[c] # "" \/ char = "{")
    BY <1>1, <2>2 DEF Keep
  <2> QED
    BY <2>1, <2>2
<1> QED
  BY <1>2, <1>3, <1>4 DEF Keep

LEMMA TypeHost ==
  ASSUME TypeOK, NEW c \in Calls, HostStep(c), UNCHANGED boardVars
  PROVE  TypeOK'
<1>0. UNCHANGED <<rxbuf, LineBuffer, bufferlength, bracketsCount, isr, sending, cts, servo>>
  BY DEF boardVars
<1> DEFINE BoardTypes ==
             /\ rxbuf \in Bytes \cup {NoByte}
             /\ LineBuffer \in [Indices -> Bytes \cup {NoByte}]
             /\ bufferlength \in 0 .. BufferSize
             /\ bracketsCount \in Int
             /\ isr \in {"idle", "replying", "corrupt"}
             /\ sending \in Seq(Bytes)
             /\ cts \in BOOLEAN
             /\ servo \in Requests
<1>1. BoardTypes'
  BY <1>0 DEF TypeOK
<1> HIDE DEF BoardTypes
<1>2. CASE Begin(c)
  <2>1. toBoard' \in Seq(Bytes)
    <3>1. Text(Request[c]) \in Seq(Bytes)
      BY HandlingAssumption, TextShape
    <3>2. toBoard \in Seq(Bytes) /\ toBoard' = toBoard \o Text(Request[c])
      BY <1>2 DEF Begin, TypeOK
    <3> QED
      BY <3>1, <3>2, ConcatEnds
  <2>2. fds' \in 0 .. MaxFds /\ written' \in Nat
    <3>1. MaxFds \in Nat
      BY HandlingAssumption
    <3>2. fds \in 0 .. MaxFds /\ fds < MaxFds /\ fds' = fds + 1
      BY <1>2 DEF Begin, TypeOK
    <3>3. written \in Nat /\ written' = written + 1
      BY <1>2 DEF Begin, TypeOK
    <3> QED
      BY <3>1, <3>2, <3>3
  <2> QED
    BY <1>1, <1>2, <2>1, <2>2 DEF Begin, TypeOK, BoardTypes
<1>3. CASE OpenFails(c) \/ CheckReply(c) \/ DataAvail(c)
  BY <1>1, <1>3 DEF OpenFails, CheckReply, DataAvail, TypeOK, BoardTypes, lineVars
<1>6. CASE SetupFails(c)
  <2>1. fds' \in 0 .. MaxFds
    <3>1. MaxFds \in Nat
      BY HandlingAssumption
    <3>2. fds \in 0 .. MaxFds /\ fds < MaxFds /\ fds' = fds + 1
      BY <1>6 DEF SetupFails, TypeOK
    <3> QED
      BY <3>1, <3>2
  <2> QED
    BY <1>1, <1>6, <2>1 DEF SetupFails, TypeOK, BoardTypes, lineVars
<1>4. CASE GetChar(c)
  <2>1. toHost \in Seq(Bytes) /\ toHost # <<>> /\ toHost' = Tail(toHost)
    BY <1>4 DEF GetChar, TypeOK
  <2>2. toHost' \in Seq(Bytes) /\ Head(toHost) \in Bytes
    BY <2>1, SeqEnds
  <2>3. Keep(c, Head(toHost))
    BY <1>4 DEF GetChar
  <2> QED
    BY <1>1, <2>2, <2>3, TypeKeep DEF TypeOK, BoardTypes
<1>5. CASE GetCharTimesOut(c)
  <2>1. Keep(c, NoChar) /\ UNCHANGED toHost
    BY <1>5 DEF GetCharTimesOut
  <2> QED
    BY <1>1, <2>1, TypeKeep DEF TypeOK, BoardTypes
<1> QED
  BY <1>2, <1>3, <1>4, <1>5, <1>6 DEF HostStep

\* What messageProcessing chooses.
LEMMA Processing ==
  ASSUME NEW buffer, messageProcessing(buffer)
  PROVE  \/ \E r \in Requests : /\ Matches(buffer, r) /\ servo' = r
                                /\ sending' = IF r = "TOGGLE" THEN ToggleDone ELSE Done
         \/ /\ \A r \in Requests : ~Matches(buffer, r)
            /\ sending' = Error /\ UNCHANGED servo
  BY DEF messageProcessing

LEMMA TypeBoard ==
  ASSUME TypeOK, BoardStep, UNCHANGED hostVars
  PROVE  TypeOK'
<1>0. UNCHANGED <<call, reply, countMSG, result, fds, written>>
  BY DEF hostVars
<1> DEFINE HostTypes ==
             /\ call \in [Calls -> {"none", "check", "avail", "getchar", "returned"}]
             /\ reply \in [Calls -> Bytes \cup {NoChar, ""}]
             /\ countMSG \in [Calls -> Int]
             /\ result \in [Calls -> {0, 1}]
             /\ fds \in 0 .. MaxFds /\ written \in Nat
<1>1. HostTypes'
  BY <1>0 DEF TypeOK
<1> HIDE DEF HostTypes
<1>2. CASE ReceiveByte
  <2>1. rxbuf \in Bytes /\ rxbuf' = NoByte /\ UNCHANGED <<toBoard, toHost, cts>>
    BY <1>2 DEF ReceiveByte, TypeOK, lineVars
  <2>2. CASE ~Stores(rxbuf) \/ bufferlength \notin Indices
    BY <1>1, <1>2, <2>1, <2>2 DEF ReceiveByte, TypeOK, HostTypes
  <2>3. CASE Stores(rxbuf) /\ bufferlength \in Indices
    <3>1. /\ LineBuffer' = [LineBuffer EXCEPT ![bufferlength] = rxbuf]
          /\ bufferlength' = bufferlength + 1
          /\ bracketsCount' = BracketsAfter(rxbuf)
          /\ \/ isr' = "replying" /\ messageProcessing(LineBuffer')
             \/ UNCHANGED <<isr, sending, servo>>
      BY <1>2, <2>3 DEF ReceiveByte
    <3>2. LineBuffer' \in [Indices -> Bytes \cup {NoByte}]
      BY <2>1, <2>3, <3>1 DEF TypeOK
    <3>3. bufferlength' \in 0 .. BufferSize
      BY <2>3, <3>1, FirmwareAssumption DEF Indices
    <3>4. bracketsCount' \in Int
      <4>1. bracketsCount \in Int
        BY DEF TypeOK
      <4>2. \/ bracketsCount' = bracketsCount + 1
            \/ bracketsCount' = bracketsCount - 1
            \/ bracketsCount' = bracketsCount
        BY <3>1 DEF BracketsAfter
      <4> QED
        BY <4>1, <4>2
    <3>5. /\ isr' \in {"idle", "replying", "corrupt"}
          /\ sending' \in Seq(Bytes) /\ servo' \in Requests
      <4>1. CASE isr' = "replying" /\ messageProcessing(LineBuffer')
        BY <4>1, Processing, DoneShape, ErrorShape, ToggleDoneShape DEF TypeOK
      <4>2. CASE UNCHANGED <<isr, sending, servo>>
        BY <4>2 DEF TypeOK
      <4> QED
        BY <3>1, <4>1, <4>2
    <3> QED
      BY <1>1, <2>1, <3>2, <3>3, <3>4, <3>5 DEF TypeOK, HostTypes
  <2> QED
    BY <2>2, <2>3
<1>3. CASE SendByte
  <2>1. sending \in Seq(Bytes) /\ sending # <<>> /\ toHost \in Seq(Bytes)
    BY <1>3 DEF SendByte, TypeOK
  <2>2. Head(sending) \in Bytes /\ Tail(sending) \in Seq(Bytes)
    BY <2>1, SeqEnds
  <2>3. Append(toHost, Head(sending)) \in Seq(Bytes)
    BY <2>1, <2>2, AppendEnds
  <2> QED
    BY <1>1, <1>3, <2>2, <2>3 DEF SendByte, TypeOK, HostTypes
<1>4. CASE EndMessage
  <2>1. LineBuffer' \in [Indices -> Bytes \cup {NoByte}]
    BY <1>4 DEF EndMessage, Cleared
  <2>2. 0 \in 0 .. BufferSize
    BY FirmwareAssumption
  <2>3. bufferlength' \in 0 .. BufferSize /\ bracketsCount' \in Int
    BY <1>4, <2>2 DEF EndMessage
  <2>4. isr' = "idle" /\ UNCHANGED <<toBoard, toHost, rxbuf, sending, cts, servo>>
    BY <1>4 DEF EndMessage, lineVars
  <2> QED
    BY <1>1, <2>1, <2>3, <2>4 DEF TypeOK, HostTypes
<1> QED
  BY <1>2, <1>3, <1>4 DEF BoardStep

LEMMA TypeStep == TypeOK /\ [Next]_vars => TypeOK'
<1> SUFFICES ASSUME TypeOK, [Next]_vars PROVE TypeOK'
  OBVIOUS
<1>1. ASSUME NEW c \in Calls, HostSteps(c) PROVE TypeOK'
  BY <1>1, TypeHost DEF HostSteps
<1>2. CASE BoardSteps
  BY <1>2, TypeBoard DEF BoardSteps
<1>3. CASE Arrives
  <2>1. /\ toBoard \in Seq(Bytes) /\ toBoard # <<>>
        /\ toBoard' = Tail(toBoard) /\ rxbuf' = Head(toBoard)
    BY <1>3 DEF Arrives, ByteArrives, TypeOK
  <2>2. toBoard' \in Seq(Bytes) /\ rxbuf' \in Bytes
    BY <2>1, SeqEnds
  <2> QED
    BY <1>3, <2>2 DEF Arrives, ByteArrives, TypeOK, hostVars
<1>4. CASE CtsMoves
  BY <1>4 DEF CtsMoves, CtsChanges, TypeOK, hostVars, lineVars
<1>5. CASE UNCHANGED vars
  BY <1>5 DEF vars, lineVars, hostVars, boardVars, TypeOK
<1> QED
  BY <1>1, <1>2, <1>3, <1>4, <1>5 DEF Next

\* The variables of the calls, the line and the board keep their types.
THEOREM TypeCorrect == Spec => []TypeOK
  BY TypeInit, TypeStep, PTL DEF Spec

-----------------------------------------------------------------------------
\* What is on its way to the board.

Linked(s) ==
  /\ \A i \in DOMAIN s : i + 1 \in DOMAIN s => Follows(s[i], s[i + 1])
  /\ s # <<>> => s[Len(s)] = "}"

LEMMA LinkedTail ==
  ASSUME NEW S, NEW s \in Seq(S), s # <<>>, Linked(s)
  PROVE  /\ Linked(Tail(s))
         /\ IF Tail(s) = <<>> THEN Head(s) = "}" ELSE Follows(Head(s), Head(Tail(s)))
<1>1. /\ Len(s) \in Nat \ {0} /\ DOMAIN s = 1 .. Len(s) /\ Head(s) = s[1]
      /\ Tail(s) \in Seq(S) /\ Len(Tail(s)) = Len(s) - 1
      /\ DOMAIN Tail(s) = 1 .. (Len(s) - 1)
      /\ \A i \in 1 .. (Len(s) - 1) : Tail(s)[i] = s[i + 1]
  BY SeqEnds
<1>2. ASSUME NEW i \in DOMAIN Tail(s), i + 1 \in DOMAIN Tail(s)
      PROVE  Follows(Tail(s)[i], Tail(s)[i + 1])
  <2>1. i + 1 \in DOMAIN s /\ (i + 1) + 1 \in DOMAIN s
    BY <1>1, <1>2
  <2>2. Tail(s)[i] = s[i + 1] /\ Tail(s)[i + 1] = s[(i + 1) + 1]
    BY <1>1, <1>2
  <2>3. Follows(s[i + 1], s[(i + 1) + 1])
    BY <2>1 DEF Linked
  <2> QED
    BY <2>2, <2>3
<1>3. CASE Tail(s) = <<>>
  <2>1. Len(s) = 1
    <3>1. \A t \in Seq(S) : t = <<>> => Len(t) = 0
      BY EmptySeq
    <3>2. Len(Tail(s)) = 0
      BY <1>1, <1>3, <3>1
    <3>3. Len(s) - 1 = 0 /\ Len(s) \in Nat
      BY <1>1, <3>2
    <3> QED
      BY <3>3
  <2>2. Head(s) = "}"
    BY <1>1, <2>1 DEF Linked
  <2> QED
    BY <1>2, <1>3, <2>2 DEF Linked
<1>4. CASE Tail(s) # <<>>
  <2>1. Len(Tail(s)) \in Nat \ {0} /\ Head(Tail(s)) = Tail(s)[1]
    BY <1>1, <1>4, SeqEnds
  <2>2. Len(s) - 1 \in Nat \ {0}
    BY <1>1, <2>1
  <2>3. Tail(s)[Len(Tail(s))] = s[Len(s)]
    <3>1. Len(s) - 1 \in 1 .. (Len(s) - 1) /\ (Len(s) - 1) + 1 = Len(s)
      BY <1>1, <2>2
    <3>2. Tail(s)[Len(s) - 1] = s[(Len(s) - 1) + 1]
      BY <1>1, <3>1
    <3> QED
      BY <1>1, <3>1, <3>2
  <2>4. Head(Tail(s)) = s[1 + 1] /\ 1 \in DOMAIN s /\ 1 + 1 \in DOMAIN s
    BY <1>1, <2>1, <2>2
  <2>5. Follows(s[1], s[1 + 1]) /\ s[Len(s)] = "}"
    BY <2>4 DEF Linked
  <2> QED
    BY <1>1, <1>2, <1>4, <2>3, <2>4, <2>5 DEF Linked
<1> QED
  BY <1>3, <1>4

LEMMA LinkedText ==
  ASSUME NEW s \in Seq(Bytes), Linked(s), NEW r \in Requests
  PROVE  /\ Linked(s \o Text(r))
         /\ s \o Text(r) # <<>>
         /\ Head(s \o Text(r)) = IF s = <<>> THEN "{" ELSE Head(s)
<1>1. PICK u : u = Text(r)
  OBVIOUS
<1>2. PICK n \in {3, 4} : n = Len(u)
  BY <1>1, TextShape
<1>3. u \in Seq(Bytes) /\ DOMAIN u = 1 .. n /\ u[1] = "{" /\ u[n] = "}"
  BY <1>1, <1>2, TextShape
<1>4. PICK w : w = s \o u
  OBVIOUS
<1>5. PICK m \in Nat : m = Len(s)
  BY LenProperties
<1>6. DOMAIN s = 1 .. m
  BY <1>5, LenProperties
<1>7. /\ w \in Seq(Bytes) /\ DOMAIN w = 1 .. (m + n) /\ Len(w) = m + n
      /\ \A i \in 1 .. m : w[i] = s[i]
      /\ \A i \in 1 .. n : w[m + i] = u[i]
  <2>1. /\ s \o u \in Seq(Bytes)
        /\ DOMAIN (s \o u) = 1 .. (Len(s) + Len(u))
        /\ Len(s \o u) = Len(s) + Len(u)
        /\ \A i \in 1 .. Len(s) : (s \o u)[i] = s[i]
        /\ \A i \in 1 .. Len(u) : (s \o u)[Len(s) + i] = u[i]
    <3>1. u \in Seq(Bytes)
      BY <1>3
    <3> QED
      BY <3>1, ConcatEnds
  <2> QED
    BY <1>2, <1>4, <1>5, <2>1
<1>8. m # 0 => s[m] = "}"
  <2>1. m # 0 => s # <<>>
    BY <1>5
  <2> QED
    BY <1>5, <2>1 DEF Linked
<1>9. w[m + n] = "}"
  <2>1. n \in 1 .. n
    BY <1>2
  <2> QED
    BY <1>3, <1>7, <2>1
<1>10. w[m + 1] = "{"
  <2>1. 1 \in 1 .. n
    BY <1>2
  <2> QED
    BY <1>3, <1>7, <2>1
<1>11. ASSUME NEW i \in DOMAIN w, i + 1 \in DOMAIN w PROVE Follows(w[i], w[i + 1])
  <2>1. i \in 1 .. (m + n) /\ i + 1 \in 1 .. (m + n)
    BY <1>7, <1>11
  <2>2. CASE i < m
    <3>1. i \in 1 .. m /\ i + 1 \in 1 .. m
      BY <2>1, <2>2
    <3>2. Follows(s[i], s[i + 1])
      BY <1>6, <3>1 DEF Linked
    <3> QED
      BY <1>7, <3>1, <3>2
  <2>3. CASE i = m
    <3>1. m # 0 /\ m \in 1 .. m
      BY <2>1, <2>3
    <3>2. w[i] = "}" /\ w[i + 1] = "{"
      BY <1>7, <1>8, <1>10, <2>3, <3>1
    <3> QED
      BY <3>2 DEF Follows
  <2>4. CASE i > m
    <3>1. PICK k \in Int : k = i - m
      BY <2>1
    <3>2. k \in 1 .. (n - 1) /\ k + 1 \in 1 .. n /\ k \in 1 .. n /\ i = m + k /\ i + 1 = m + (k + 1)
      BY <1>2, <2>1, <2>4, <3>1
    <3>3. w[i] = u[k]
      BY <1>7, <3>2
    <3>4. w[i + 1] = u[k + 1]
      BY <1>7, <3>2
    <3>5. k \in 1 .. (Len(Text(r)) - 1)
      BY <1>1, <1>2, <3>2
    <3>6. w[i] = Text(r)[k] /\ w[i + 1] = Text(r)[k + 1]
      BY <1>1, <3>3, <3>4
    <3> QED
      BY <3>5, <3>6 DEF Follows
  <2> QED
    BY <2>1, <2>2, <2>3, <2>4
<1>12. w # <<>>
  <2>1. m + n # 0
    BY <1>2
  <2> QED
    BY <1>7, <2>1
<1>13. Head(w) = w[1]
  BY <1>7, <1>12, SeqEnds
<1>14. CASE s = <<>>
  <2>1. m = 0
    BY <1>5, <1>14
  <2>2. Head(w) = "{"
    <3>1. m + 1 = 1
      BY <2>1
    <3> QED
      BY <1>10, <1>13, <3>1
  <2> QED
    BY <1>1, <1>4, <1>7, <1>9, <1>11, <1>12, <1>14, <2>2 DEF Linked
<1>15. CASE s # <<>>
  <2>1. Head(s) = s[1] /\ 1 \in 1 .. m
    BY <1>6, <1>15, SeqEnds
  <2>2. Head(w) = Head(s)
    BY <1>7, <1>13, <2>1
  <2> QED
    BY <1>1, <1>4, <1>7, <1>9, <1>11, <1>12, <1>15, <2>2 DEF Linked
<1> QED
  BY <1>14, <1>15

-----------------------------------------------------------------------------
\* What is in the board's buffer.

BufferSuffices == BufferSize > 4

LEMMA TextFits ==
  ASSUME BufferSuffices, NEW r \in Requests, NEW i \in 0 .. Len(Text(r))
  PROVE  i \in Indices
<1>1. PICK n \in {3, 4} : n = Len(Text(r))
  BY TextShape
<1>2. BufferSize \in Nat /\ BufferSize > 4
  BY FirmwareAssumption DEF BufferSuffices
<1> QED
  BY <1>1, <1>2 DEF Indices

\* A buffer matches one request at most.
LEMMA OneMatch ==
  ASSUME NEW buffer, NEW r \in Requests, NEW t \in Requests, Matches(buffer, r), Matches(buffer, t)
  PROVE  r = t
<1>1. 2 \in 1 .. Len(Text(r)) /\ 2 \in 1 .. Len(Text(t))
  <2>1. PICK n, m \in {3, 4} : n = Len(Text(r)) /\ m = Len(Text(t))
    BY TextShape
  <2>2. 2 \in 1 .. n /\ 2 \in 1 .. m
    OBVIOUS
  <2> QED
    BY <2>1, <2>2
<1>2. buffer[2 - 1] = Text(r)[2] /\ buffer[2 - 1] = Text(t)[2]
  BY <1>1 DEF Matches
<1> QED
  BY <1>2, TextsDiffer

\* The interrupt routine passes over a byte, keeps one of a request, or has a whole request.
Ignores ==
  /\ bufferlength = 0 /\ rxbuf # "{"
  /\ UNCHANGED <<LineBuffer, bufferlength, bracketsCount, isr, sending, servo>>

GoesOn(t) ==
  /\ rxbuf = "{" <=> bufferlength = 0
  /\ bufferlength' = bufferlength + 1 /\ bracketsCount' = 1
  /\ UNCHANGED <<isr, sending, servo>>
  /\ toBoard # <<>>
  /\ bufferlength + 1 < Len(Text(t)) /\ Head(toBoard) = Text(t)[(bufferlength + 1) + 1]

Completes(t) ==
  /\ rxbuf = "}" /\ bufferlength > 0 /\ bufferlength + 1 = Len(Text(t))
  /\ bufferlength' = bufferlength + 1
  /\ isr' = "replying"
  /\ servo' = t
  /\ sending' = IF t = "TOGGLE" THEN ToggleDone ELSE Done

LEMMA StoredAt ==
  ASSUME TypeOK, BufferSuffices, ReceiveByte, Stores(rxbuf),
         NEW r \in Requests, bufferlength < Len(Text(r))
  PROVE  /\ bufferlength \in Nat /\ bufferlength \in Indices
         /\ LineBuffer' = [LineBuffer EXCEPT ![bufferlength] = rxbuf]
<1>1. bufferlength \in Nat
  <2>1. bufferlength \in 0 .. BufferSize /\ BufferSize \in Nat
    BY FirmwareAssumption DEF TypeOK
  <2> QED
    BY <2>1
<1>2. PICK n \in {3, 4} : n = Len(Text(r))
  BY TextShape
<1>3. bufferlength \in Indices
  <2>1. bufferlength \in 0 .. n
    BY <1>1, <1>2
  <2> QED
    BY <1>2, <2>1, TextFits
<1>4. LineBuffer' = [LineBuffer EXCEPT ![bufferlength] = rxbuf]
  BY <1>3 DEF ReceiveByte
<1> QED
  BY <1>1, <1>3, <1>4

\* A byte that goes on with a request is kept behind its beginning.
LEMMA StartGrows ==
  ASSUME TypeOK, BufferSuffices, ReceiveByte, Stores(rxbuf),
         NEW r \in Requests, bufferlength < Len(Text(r)), HoldsStart(r),
         rxbuf = Text(r)[bufferlength + 1]
  PROVE  \A i \in 1 .. (bufferlength + 1) : LineBuffer'[i - 1] = Text(r)[i]
<1>1. PICK n \in {3, 4} : n = Len(Text(r))
  BY TextShape
<1>2. /\ bufferlength \in Nat /\ bufferlength \in Indices /\ bufferlength < n
      /\ LineBuffer' = [LineBuffer EXCEPT ![bufferlength] = rxbuf]
  BY <1>1, StoredAt
<1>3. ASSUME NEW i \in 1 .. (bufferlength + 1) PROVE LineBuffer'[i - 1] = Text(r)[i]
  <2>1. CASE i = bufferlength + 1
    <3>1. i - 1 = bufferlength
      BY <1>2, <2>1
    <3>2. LineBuffer'[bufferlength] = rxbuf
      BY <1>2 DEF TypeOK
    <3> QED
      BY <2>1, <3>1, <3>2
  <2>2. CASE i # bufferlength + 1
    <3>1. i \in 1 .. bufferlength /\ i - 1 \in Int /\ i - 1 # bufferlength
      BY <1>2, <2>2
    <3>2. i - 1 \in Indices
      <4>1. i - 1 \in 0 .. n
        BY <1>1, <1>2, <3>1
      <4> QED
        BY <1>1, <4>1, TextFits
    <3>3. LineBuffer'[i - 1] = LineBuffer[i - 1]
      BY <1>2, <3>1, <3>2 DEF TypeOK
    <3>4. LineBuffer[i - 1] = Text(r)[i]
      BY <3>1 DEF HoldsStart
    <3> QED
      BY <3>3, <3>4
  <2> QED
    BY <2>1, <2>2
<1> QED
  BY <1>3

LEMMA Received ==
  ASSUME TypeOK, WireInv, BufferInv, BufferSuffices, ReceiveByte
  PROVE  \/ Ignores
         \/ \E t \in Requests :
              /\ GoesOn(t) \/ Completes(t)
              /\ \A i \in 1 .. (bufferlength + 1) : LineBuffer'[i - 1] = Text(t)[i]
              /\ \A i \in Indices : i >= bufferlength + 1 => LineBuffer'[i] = NoByte
<1>0. bufferlength \in Nat
  <2>1. bufferlength \in 0 .. BufferSize /\ BufferSize \in Nat
    BY FirmwareAssumption DEF TypeOK
  <2> QED
    BY <2>1
<1>1. isr = "idle" /\ rxbuf # NoByte /\ bufferlength \in Nat
  BY <1>0 DEF ReceiveByte
<1>2. CASE ~Stores(rxbuf)
  <2>1. UNCHANGED <<LineBuffer, bufferlength, bracketsCount, isr, sending, servo>>
    BY <1>2 DEF ReceiveByte
  <2>2. rxbuf # "{" /\ ~(bufferlength > 0)
    BY <1>2 DEF Stores
  <2>3. bufferlength = 0
    <3>1. \A n \in Nat : n > 0 \/ n = 0
      OBVIOUS
    <3> QED
      BY <1>0, <2>2, <3>1
  <2> QED
    BY <2>1, <2>2, <2>3 DEF Ignores
<1>3. CASE Stores(rxbuf)
  <2>0. bufferlength = 0 => rxbuf = "{"
    <3>1. bufferlength = 0 => ~(bufferlength > 0)
      BY <1>0
    <3> QED
      BY <1>3, <3>1 DEF Stores
  <2>1. PICK r \in Requests : /\ bufferlength < Len(Text(r)) /\ HoldsStart(r)
                              /\ rxbuf = Text(r)[bufferlength + 1]
    <3>1. CASE bufferlength = 0
      <4>1. rxbuf = "{"
        BY <2>0, <3>1
      <4>2. "OPEN" \in Requests /\ Text("OPEN")[1] = "{" /\ Len(Text("OPEN")) = 3
        BY OpenText DEF Requests
      <4>3. 0 < 3 /\ 0 + 1 = 1 /\ \A i \in 1 .. 0 : FALSE
        OBVIOUS
      <4>4. /\ bufferlength < Len(Text("OPEN")) /\ HoldsStart("OPEN")
            /\ rxbuf = Text("OPEN")[bufferlength + 1]
        BY <3>1, <4>1, <4>2, <4>3 DEF HoldsStart
      <4> QED
        BY <4>2, <4>4
    <3>2. CASE bufferlength > 0
      BY <1>1, <3>2 DEF BufferInv
    <3> QED
      BY <1>1, <3>1, <3>2
  <2>2. PICK n \in {3, 4} : n = Len(Text(r))
    BY TextShape
  <2>3. bufferlength < n
    BY <2>1, <2>2
  <2>4. bufferlength \in Indices
    BY <1>3, <2>1, StoredAt
  <2>5. /\ LineBuffer' = [LineBuffer EXCEPT ![bufferlength] = rxbuf]
        /\ bufferlength' = bufferlength + 1
        /\ bracketsCount' = BracketsAfter(rxbuf)
        /\ IF rxbuf = "}" /\ bracketsCount' = 0
           THEN isr' = "replying" /\ messageProcessing(LineBuffer')
           ELSE UNCHANGED <<isr, sending, servo>>
    BY <1>3, <2>4 DEF ReceiveByte
  <2>6. \A i \in 1 .. (bufferlength + 1) : LineBuffer'[i - 1] = Text(r)[i]
    BY <1>3, <2>1, StartGrows
  <2>7. \A i \in Indices : i >= bufferlength + 1 => LineBuffer'[i] = NoByte
    <3>1. ASSUME NEW i \in Indices, i >= bufferlength + 1 PROVE LineBuffer'[i] = NoByte
      <4>1. i \in Nat
        BY DEF Indices
      <4>2. i # bufferlength /\ i >= bufferlength
        BY <1>1, <3>1, <4>1
      <4>3. LineBuffer'[i] = LineBuffer[i]
        BY <2>5, <4>2 DEF TypeOK
      <4> QED
        BY <4>2, <4>3 DEF BufferInv
    <3> QED
      BY <3>1
  <2>8. rxbuf = "{" <=> bufferlength = 0
    <3>2. ASSUME bufferlength # 0 PROVE rxbuf # "{"
      <4>1. bufferlength + 1 \in 2 .. n
        BY <1>1, <2>2, <2>3, <3>2
      <4> QED
        BY <2>1, <2>2, <4>1, TextShape
    <3> QED
      BY <2>0, <3>2
  <2>9. bracketsCount = IF bufferlength = 0 THEN 0 ELSE 1
    BY <1>1 DEF BufferInv
  <2>10. CASE bufferlength + 1 = n
    <3>1. rxbuf = "}"
      BY <2>1, <2>2, <2>10, TextShape
    <3>2. bufferlength # 0
      BY <2>2, <2>10
    <3>3. bracketsCount' = 0
      <4>1. bracketsCount = 1 /\ bracketsCount' = bracketsCount - 1
        BY <2>5, <2>9, <3>1, <3>2 DEF BracketsAfter
      <4> QED
        BY <4>1
    <3>4. isr' = "replying" /\ messageProcessing(LineBuffer')
      BY <2>5, <3>1, <3>3
    <3>5. Matches(LineBuffer', r)
      <4>1. n \in Indices
        <5>1. n \in 0 .. n
          BY <2>2
        <5> QED
          BY <2>2, <5>1, TextFits
      <4>2. LineBuffer'[n] = NoByte
        <5>1. n >= bufferlength + 1
          BY <2>2, <2>10
        <5> QED
          BY <2>7, <4>1, <5>1
      <4>3. n < BufferSize
        BY <4>1, FirmwareAssumption DEF Indices
      <4>4. \A i \in 1 .. n : LineBuffer'[i - 1] = Text(r)[i]
        BY <2>6, <2>10
      <4> QED
        BY <2>2, <4>2, <4>3, <4>4 DEF Matches
    <3>6. servo' = r /\ sending' = IF r = "TOGGLE" THEN ToggleDone ELSE Done
      BY <3>4, <3>5, Processing, OneMatch
    <3>7. Completes(r)
      <4>1. bufferlength > 0
        BY <1>1, <3>2
      <4> QED
        BY <2>2, <2>5, <2>10, <3>1, <3>4, <3>6, <4>1 DEF Completes
    <3> QED
      BY <2>6, <2>7, <3>7
  <2>11. CASE bufferlength + 1 # n
    <3>1. PICK m : m = bufferlength + 1
      OBVIOUS
    <3>2. m \in 1 .. (n - 1)
      BY <1>1, <2>2, <2>3, <2>11, <3>1
    <3>3. rxbuf # "}"
      BY <2>1, <2>2, <3>1, <3>2, TextShape
    <3>4. toBoard # <<>> /\ Follows(rxbuf, Head(toBoard))
      BY <1>1, <3>3 DEF WireInv
    <3>10. PICK b : b = Head(toBoard)
      OBVIOUS
    <3>5. PICK t \in Requests : /\ m < Len(Text(t))
                                /\ \A i \in 1 .. m : Text(t)[i] = Text(r)[i]
                                /\ Text(t)[m + 1] = b
      <4>1. m \in 1 .. (Len(Text(r)) - 1)
        BY <2>2, <3>2
      <4>2. Follows(Text(r)[m], b)
        BY <2>1, <3>1, <3>4, <3>10
      <4>3. r \in Requests
        BY <2>1
      <4>4. \A n1 \in 1 .. (Len(Text(r)) - 1) : \A b1 : Follows(Text(r)[n1], b1) =>
              \E t \in Requests : /\ n1 < Len(Text(t))
                                  /\ \A i \in 1 .. n1 : Text(t)[i] = Text(r)[i]
                                  /\ Text(t)[n1 + 1] = b1
        BY <4>3, PrefixExtends
      <4> QED
        BY <4>1, <4>2, <4>4
    <3>6. bracketsCount' = 1
      <4>1. CASE bufferlength = 0
        <5>1. bracketsCount = 0 /\ bracketsCount' = bracketsCount + 1
          BY <2>5, <2>8, <2>9, <4>1 DEF BracketsAfter
        <5> QED
          BY <5>1
      <4>2. CASE bufferlength # 0
        <5>1. bracketsCount = 1 /\ bracketsCount' = bracketsCount
          BY <2>5, <2>8, <2>9, <3>3, <4>2 DEF BracketsAfter
        <5> QED
          BY <5>1
      <4> QED
        BY <4>1, <4>2
    <3>7. UNCHANGED <<isr, sending, servo>>
      BY <2>5, <3>3
    <3>8. GoesOn(t)
      BY <2>5, <2>8, <3>1, <3>4, <3>5, <3>6, <3>7, <3>10 DEF GoesOn
    <3>9. \A i \in 1 .. (bufferlength + 1) : LineBuffer'[i - 1] = Text(t)[i]
      BY <2>6, <3>1, <3>5
    <3> QED
      BY <2>7, <3>8, <3>9
  <2> QED
    BY <2>10, <2>11
<1> QED
  BY <1>2, <1>3

LEMMA WireInit == Init => WireInv
<1> SUFFICES ASSUME Init PROVE WireInv
  OBVIOUS
<1>1. toBoard = <<>> /\ rxbuf = NoByte
  BY DEF Init, FirmwareInit
<1>2. DOMAIN toBoard = {}
  <2>1. \A s \in Seq(Bytes) : s = <<>> => DOMAIN s = {}
    OBVIOUS
  <2> QED
    BY <1>1, <2>1
<1> QED
  BY <1>1, <1>2 DEF WireInv

\* A request written to the line leaves what the board has still to receive in place.
LEMMA Writes ==
  ASSUME TypeOK, WireInv, NEW c \in Calls, Begin(c)
  PROVE  /\ Linked(toBoard')
         /\ toBoard' # <<>>
         /\ Head(toBoard') = IF toBoard = <<>> THEN "{" ELSE Head(toBoard)
<1>1. Request[c] \in Requests
  BY HandlingAssumption
<1>2. toBoard \in Seq(Bytes) /\ toBoard' = toBoard \o Text(Request[c])
  BY DEF Begin, TypeOK
<1>3. Linked(toBoard)
  BY DEF WireInv, Linked
<1> QED
  BY <1>1, <1>2, <1>3, LinkedText

LEMMA WireStep ==
  ASSUME TypeOK, WireInv, [Next]_vars
  PROVE  WireInv'
<1>0. ASSUME UNCHANGED <<toBoard, rxbuf>> PROVE WireInv'
  BY <1>0 DEF WireInv
<1>1. ASSUME NEW c \in Calls, HostSteps(c) PROVE WireInv'
  <2>1. UNCHANGED rxbuf
    BY <1>1 DEF HostSteps, boardVars
  <2>2. CASE Begin(c)
    <3>1. /\ Linked(toBoard') /\ toBoard' # <<>>
          /\ Head(toBoard') = IF toBoard = <<>> THEN "{" ELSE Head(toBoard)
      BY <2>2, Writes
    <3>2. rxbuf' # NoByte => Follows(rxbuf', Head(toBoard'))
      <4>1. Follows("}", "{")
        BY DEF Follows
      <4> QED
        BY <2>1, <3>1, <4>1 DEF WireInv
    <3> QED
      BY <3>1, <3>2 DEF WireInv, Linked
  <2>3. CASE ~Begin(c)
    <3>1. UNCHANGED toBoard
      BY <1>1, <2>3 DEF HostSteps, HostStep, OpenFails, SetupFails, CheckReply, DataAvail, GetChar,
           GetCharTimesOut, Keep, lineVars
    <3> QED
      BY <1>0, <2>1, <3>1
  <2> QED
    BY <2>2, <2>3
<1>2. CASE BoardSteps
  <2>1. CASE ReceiveByte
    <3>1. rxbuf' = NoByte /\ UNCHANGED toBoard
      BY <2>1 DEF ReceiveByte, lineVars
    <3> QED
      BY <3>1 DEF WireInv
  <2>2. CASE SendByte
    BY <1>0, <2>2 DEF SendByte
  <2>3. CASE EndMessage
    BY <1>0, <2>3 DEF EndMessage, lineVars
  <2> QED
    BY <1>2, <2>1, <2>2, <2>3 DEF BoardSteps, BoardStep
<1>3. CASE Arrives
  <2>1. /\ toBoard \in Seq(Bytes) /\ toBoard # <<>>
        /\ toBoard' = Tail(toBoard) /\ rxbuf' = Head(toBoard)
    BY <1>3 DEF Arrives, ByteArrives, TypeOK
  <2>2. Linked(toBoard)
    BY DEF WireInv, Linked
  <2>3. /\ Linked(toBoard')
        /\ IF toBoard' = <<>> THEN rxbuf' = "}" ELSE Follows(rxbuf', Head(toBoard'))
    BY <2>1, <2>2, LinkedTail
  <2> QED
    BY <2>3 DEF WireInv, Linked
<1>4. CASE CtsMoves
  BY <1>0, <1>4 DEF CtsMoves, CtsChanges, lineVars
<1>5. CASE UNCHANGED vars
  BY <1>0, <1>5 DEF vars, lineVars, boardVars
<1> QED
  BY <1>1, <1>2, <1>3, <1>4, <1>5 DEF Next

LEMMA BufferInit == Init => BufferInv
<1> SUFFICES ASSUME Init PROVE BufferInv
  OBVIOUS
<1>1. /\ LineBuffer = [i \in Indices |-> NoByte] /\ bufferlength = 0 /\ bracketsCount = 0
      /\ isr = "idle" /\ sending = <<>>
  BY DEF Init, FirmwareInit, Cleared
<1>2. ~(0 > 0)
  OBVIOUS
<1> QED
  BY <1>1, <1>2 DEF BufferInv

LEMMA BufferStep ==
  ASSUME TypeOK, WireInv, BufferInv, BufferSuffices, [Next]_vars
  PROVE  BufferInv'
<1>1. ASSUME NEW c \in Calls, HostSteps(c) PROVE BufferInv'
  <2>1. UNCHANGED <<rxbuf, LineBuffer, bufferlength, bracketsCount, isr, sending>>
    BY <1>1 DEF HostSteps, boardVars
  <2>2. CASE Begin(c)
    <3>1. toBoard' # <<>> /\ (toBoard # <<>> => Head(toBoard') = Head(toBoard))
      BY <2>2, Writes
    <3> QED
      BY <2>1, <3>1 DEF BufferInv, HoldsStart
  <2>3. CASE ~Begin(c)
    <3>1. UNCHANGED toBoard
      BY <1>1, <2>3 DEF HostSteps, HostStep, OpenFails, SetupFails, CheckReply, DataAvail, GetChar,
           GetCharTimesOut, Keep, lineVars
    <3> QED
      BY <2>1, <3>1 DEF BufferInv, HoldsStart
  <2> QED
    BY <2>2, <2>3
<1>2. CASE BoardSteps
  <2>1. CASE ReceiveByte
    <3>1. rxbuf' = NoByte /\ UNCHANGED toBoard /\ isr = "idle"
      BY <2>1 DEF ReceiveByte, lineVars
    <3>2. sending = <<>>
      BY <3>1 DEF BufferInv
    <3>3. CASE Ignores
      <4>1. ~(0 > 0)
        OBVIOUS
      <4> QED
        BY <3>1, <3>2, <3>3, <4>1 DEF Ignores, BufferInv
    <3>4. ASSUME NEW t \in Requests,
                 \A i \in 1 .. (bufferlength + 1) : LineBuffer'[i - 1] = Text(t)[i],
                 \A i \in Indices : i >= bufferlength + 1 => LineBuffer'[i] = NoByte,
                 GoesOn(t)
          PROVE  BufferInv'
      <4>1. bufferlength' = bufferlength + 1 /\ bufferlength' # 0
        <5>1. bufferlength \in Nat
          <6>1. bufferlength \in 0 .. BufferSize /\ BufferSize \in Nat
            BY FirmwareAssumption DEF TypeOK
          <6> QED
            BY <6>1
        <5>2. bufferlength' = bufferlength + 1
          BY <3>4 DEF GoesOn
        <5> QED
          BY <5>1, <5>2
      <4>2. bracketsCount' = 1 /\ UNCHANGED <<isr, sending>>
        BY <3>4 DEF GoesOn
      <4>3. /\ rxbuf' = NoByte /\ toBoard' # <<>> /\ HoldsStart(t)'
            /\ bufferlength' < Len(Text(t)) /\ Head(toBoard') = Text(t)[bufferlength' + 1]
        BY <3>1, <3>4, <4>1 DEF GoesOn, HoldsStart
      <4>4. \A i \in Indices : i >= bufferlength' => LineBuffer'[i] = NoByte
        BY <3>4, <4>1
      <4> QED
        BY <3>1, <3>2, <4>1, <4>2, <4>3, <4>4 DEF BufferInv
    <3>5. ASSUME NEW t \in Requests,
                 \A i \in 1 .. (bufferlength + 1) : LineBuffer'[i - 1] = Text(t)[i],
                 \A i \in Indices : i >= bufferlength + 1 => LineBuffer'[i] = NoByte,
                 Completes(t)
          PROVE  BufferInv'
      <4>1. bufferlength' = bufferlength + 1 /\ bufferlength' = Len(Text(t)) /\ isr' = "replying"
        BY <3>5 DEF Completes
      <4>2. HoldsStart(t)' /\ \A i \in Indices : i >= bufferlength' => LineBuffer'[i] = NoByte
        BY <3>5, <4>1 DEF HoldsStart
      <4> QED
        BY <4>1, <4>2 DEF BufferInv
    <3> QED
      BY <2>1, <3>3, <3>4, <3>5, Received
  <2>2. CASE SendByte
    BY <2>2 DEF SendByte, BufferInv, HoldsStart
  <2>3. CASE EndMessage
    <3>1. /\ LineBuffer' = [i \in Indices |-> NoByte] /\ bufferlength' = 0 /\ bracketsCount' = 0
          /\ isr' = "idle" /\ sending' = <<>>
      BY <2>3 DEF EndMessage, Cleared
    <3>2. ~(0 > 0)
      OBVIOUS
    <3> QED
      BY <3>1, <3>2 DEF BufferInv
  <2> QED
    BY <1>2, <2>1, <2>2, <2>3 DEF BoardSteps, BoardStep
<1>3. CASE Arrives
  <2>1. /\ toBoard \in Seq(Bytes) /\ toBoard # <<>> /\ rxbuf' = Head(toBoard)
        /\ rxbuf = NoByte \/ sending # <<>>
        /\ UNCHANGED <<LineBuffer, bufferlength, bracketsCount, isr, sending>>
    BY <1>3 DEF Arrives, ByteArrives, TypeOK
  <2>2. rxbuf' # NoByte
    BY <2>1, SeqEnds, FirmwareAssumption
  <2>3. isr = "idle" => rxbuf = NoByte
    BY <2>1 DEF BufferInv
  <2> QED
    BY <2>1, <2>2, <2>3 DEF BufferInv, HoldsStart
<1>4. CASE CtsMoves
  BY <1>4 DEF CtsMoves, CtsChanges, lineVars, BufferInv, HoldsStart
<1>5. CASE UNCHANGED vars
  BY <1>5 DEF vars, lineVars, boardVars, BufferInv, HoldsStart
<1> QED
  BY <1>1, <1>2, <1>3, <1>4, <1>5 DEF Next

LEMMA BufferIsOneRequest ==
  ASSUME TypeOK, BufferInv
  PROVE  BufferHoldsOneRequest
<1>1. bufferlength \in Nat
  <2>1. bufferlength \in 0 .. BufferSize /\ BufferSize \in Nat
    BY FirmwareAssumption DEF TypeOK
  <2> QED
    BY <2>1
<1>2. \E r \in Requests : bufferlength <= Len(Text(r)) /\ HoldsStart(r)
  <2>1. CASE bufferlength = 0
    <3>1. "OPEN" \in Requests /\ Len(Text("OPEN")) = 3
      BY OpenText DEF Requests
    <3>2. 0 <= 3 /\ \A i \in 1 .. 0 : FALSE
      OBVIOUS
    <3> QED
      BY <2>1, <3>1, <3>2 DEF HoldsStart
  <2>2. CASE bufferlength # 0
    <3>1. PICK r \in Requests : /\ bufferlength < Len(Text(r)) \/ bufferlength = Len(Text(r))
                                /\ HoldsStart(r)
      <4>1. bufferlength > 0
        BY <1>1, <2>2
      <4> QED
        BY <4>1 DEF BufferInv, TypeOK
    <3>2. PICK n \in {3, 4} : n = Len(Text(r))
      BY <3>1, TextShape
    <3>3. bufferlength <= n
      BY <1>1, <3>1, <3>2
    <3> QED
      BY <3>1, <3>2, <3>3
  <2> QED
    BY <2>1, <2>2
<1> QED
  BY <1>2 DEF BufferInv, BufferHoldsOneRequest, HoldsStart

\* LineBuffer holds the beginning of one request and zeros behind it, so the
\* missing bound check of USCI0RX_ISR is never needed with a buffer that holds
\* the longest request and its zero.
THEOREM OneRequestInTheBuffer ==
  ASSUME BufferSuffices
  PROVE  Spec => []BufferHoldsOneRequest
<1>1. Init => TypeOK /\ WireInv /\ BufferInv
  BY TypeInit, WireInit, BufferInit
<1>2. TypeOK /\ WireInv /\ BufferInv /\ [Next]_vars => (TypeOK /\ WireInv /\ BufferInv)'
  BY TypeStep, WireStep, BufferStep
<1>3. TypeOK /\ WireInv /\ BufferInv => BufferHoldsOneRequest
  BY BufferIsOneRequest
<1> QED
  BY <1>1, <1>2, <1>3, PTL DEF Spec

-----------------------------------------------------------------------------
\* No answer is ERROR.

NoError(s) == \A i \in DOMAIN s : s[i] # "ERROR"

LEMMA NoErrorTail ==
  ASSUME NEW s \in Seq(Bytes), s # <<>>, NoError(s)
  PROVE  NoError(Tail(s)) /\ Head(s) # "ERROR"
<1>1. /\ Len(s) \in Nat \ {0} /\ DOMAIN s = 1 .. Len(s) /\ 1 \in DOMAIN s /\ Head(s) = s[1]
      /\ DOMAIN Tail(s) = 1 .. (Len(s) - 1)
      /\ \A i \in 1 .. (Len(s) - 1) : Tail(s)[i] = s[i + 1]
  BY SeqEnds
<1>2. ASSUME NEW i \in DOMAIN Tail(s) PROVE Tail(s)[i] # "ERROR"
  <2>1. i + 1 \in DOMAIN s /\ Tail(s)[i] = s[i + 1]
    BY <1>1
  <2> QED
    BY <2>1 DEF NoError
<1> QED
  BY <1>1, <1>2 DEF NoError

LEMMA NoErrorAppend ==
  ASSUME NEW s \in Seq(Bytes), NoError(s), NEW e \in Bytes, e # "ERROR"
  PROVE  NoError(Append(s, e))
<1>1. /\ Len(s) \in Nat /\ DOMAIN s = 1 .. Len(s)
      /\ DOMAIN Append(s, e) = 1 .. (Len(s) + 1)
      /\ \A i \in 1 .. Len(s) : Append(s, e)[i] = s[i]
      /\ Append(s, e)[Len(s) + 1] = e
  BY AppendEnds
<1>2. ASSUME NEW i \in DOMAIN Append(s, e) PROVE Append(s, e)[i] # "ERROR"
  <2>1. i = Len(s) + 1 \/ i \in 1 .. Len(s)
    BY <1>1
  <2> QED
    BY <1>1, <2>1 DEF NoError
<1> QED
  BY <1>2 DEF NoError

LEMMA AnswersAreDone == NoError(Done) /\ NoError(ToggleDone)
<1>1. 1 .. 3 = {1, 2, 3} /\ 1 .. 4 = {1, 2, 3, 4}
  OBVIOUS
<1>2. NoError(Done)
  BY <1>1, DoneShape DEF NoError
<1>3. NoError(ToggleDone)
  BY <1>1, ToggleDoneShape DEF NoError
<1> QED
  BY <1>2, <1>3

NoErrors == NoError(sending) /\ NoError(toHost)

LEMMA NoErrorsInit == Init => NoErrors
<1>1. \A s \in Seq(Bytes) : s = <<>> => DOMAIN s = {}
  OBVIOUS
<1> QED
  BY <1>1 DEF Init, FirmwareInit, NoErrors, NoError

LEMMA NoErrorsStep ==
  ASSUME TypeOK, WireInv, BufferInv, BufferSuffices, NoErrors, [Next]_vars
  PROVE  NoErrors'
<1>0. ASSUME UNCHANGED <<sending, toHost>> PROVE NoErrors'
  BY <1>0 DEF NoErrors, NoError
<1>1. ASSUME NEW c \in Calls, HostSteps(c) PROVE NoErrors'
  <2>1. UNCHANGED sending
    BY <1>1 DEF HostSteps, boardVars
  <2>2. CASE GetChar(c)
    <3>1. toHost \in Seq(Bytes) /\ toHost # <<>> /\ toHost' = Tail(toHost) /\ NoError(toHost)
      BY <2>2 DEF GetChar, TypeOK, NoErrors
    <3>2. NoError(toHost')
      BY <3>1, NoErrorTail
    <3> QED
      BY <2>1, <3>2 DEF NoErrors, NoError
  <2>3. CASE ~GetChar(c)
    <3>1. UNCHANGED toHost
      BY <1>1, <2>3 DEF HostSteps, HostStep, Begin, OpenFails, SetupFails, CheckReply, DataAvail,
           GetCharTimesOut, lineVars
    <3> QED
      BY <1>0, <2>1, <3>1
  <2> QED
    BY <2>2, <2>3
<1>2. CASE BoardSteps
  <2>1. CASE ReceiveByte
    <3>1. UNCHANGED toHost
      BY <2>1 DEF ReceiveByte, lineVars
    <3>2. UNCHANGED sending \/ sending' = Done \/ sending' = ToggleDone
      BY <2>1, Received DEF Ignores, GoesOn, Completes
    <3>3. NoError(sending')
      BY <3>2, AnswersAreDone DEF NoErrors
    <3> QED
      BY <3>1, <3>3 DEF NoErrors
  <2>2. CASE SendByte
    <3>1. /\ sending \in Seq(Bytes) /\ sending # <<>> /\ sending' = Tail(sending)
          /\ toHost \in Seq(Bytes) /\ toHost' = Append(toHost, Head(sending))
          /\ NoError(sending) /\ NoError(toHost)
      BY <2>2 DEF SendByte, TypeOK, NoErrors
    <3>2. Head(sending) \in Bytes
      BY <3>1, SeqEnds
    <3>3. NoError(sending') /\ Head(sending) # "ERROR"
      BY <3>1, NoErrorTail
    <3>4. NoError(toHost')
      BY <3>1, <3>2, <3>3, NoErrorAppend
    <3> QED
      BY <3>3, <3>4 DEF NoErrors
  <2>3. CASE EndMessage
    BY <1>0, <2>3 DEF EndMessage, lineVars
  <2> QED
    BY <1>2, <2>1, <2>2, <2>3 DEF BoardSteps, BoardStep
<1>3. CASE Arrives
  BY <1>0, <1>3 DEF Arrives, ByteArrives
<1>4. CASE CtsMoves
  BY <1>0, <1>4 DEF CtsMoves, CtsChanges, lineVars
<1>5. CASE UNCHANGED vars
  BY <1>0, <1>5 DEF vars, lineVars, boardVars
<1> QED
  BY <1>1, <1>2, <1>3, <1>4, <1>5 DEF Next

\* messageProcessing never takes its last branch, the answer ERROR, however the
\* calls of handlingService overlap.
THEOREM NoErrorAnswer ==
  ASSUME BufferSuffices
  PROVE  Spec => []NeverError
<1>1. Init => TypeOK /\ WireInv /\ BufferInv /\ NoErrors
  BY TypeInit, WireInit, BufferInit, NoErrorsInit
<1>2. TypeOK /\ WireInv /\ BufferInv /\ NoErrors /\ [Next]_vars
        => (TypeOK /\ WireInv /\ BufferInv /\ NoErrors)'
  BY TypeStep, WireStep, BufferStep, NoErrorsStep
<1>3. NoErrors => NeverError
  BY DEF NoErrors, NoError, NeverError
<1> QED
  BY <1>1, <1>2, <1>3, PTL DEF Spec

-----------------------------------------------------------------------------
\* The opening braces of a sequence of bytes.

NumberOf(p, s) == Cardinality({i \in DOMAIN s : s[i] = p})

One(b) == IF b THEN 1 ELSE 0

LEMMA NumberType ==
  ASSUME NEW S, NEW s \in Seq(S), NEW p
  PROVE  /\ IsFiniteSet({i \in DOMAIN s : s[i] = p})
         /\ NumberOf(p, s) \in Nat
<1> DEFINE at == {i \in DOMAIN s : s[i] = p}
<1>1. Len(s) \in Nat /\ DOMAIN s = 1 .. Len(s)
  BY LenProperties
<1>2. IsFiniteSet(1 .. Len(s))
  BY <1>1, FS_Interval
<1>3. at \in SUBSET (1 .. Len(s))
  BY <1>1
<1>4. IsFiniteSet(at)
  BY <1>2, <1>3, FS_Subset
<1>5. Cardinality(at) \in Nat
  BY <1>4, FS_CardinalityType
<1>8. NumberOf(p, s) = Cardinality(at)
  BY DEF NumberOf
<1> HIDE DEF at
<1> QED
  BY <1>4, <1>5, <1>8 DEF at

\* Append adds one to the number of what it appends.
LEMMA NumberAppend ==
  ASSUME NEW S, NEW s \in Seq(S), NEW e \in S, NEW p
  PROVE  NumberOf(p, Append(s, e)) = NumberOf(p, s) + One(e = p)
<1> DEFINE at == {i \in DOMAIN s : s[i] = p}
           t == Append(s, e)
           end == Len(s) + 1
           atT == {i \in DOMAIN t : t[i] = p}
<1>1. /\ Len(s) \in Nat /\ DOMAIN s = 1 .. Len(s)
      /\ t \in Seq(S) /\ Len(t) = end
      /\ \A i \in 1 .. Len(s) : t[i] = s[i]
      /\ t[end] = e
  BY AppendProperties, LenProperties
<1>2. DOMAIN t = 1 .. end
  BY <1>1, LenProperties
<1>3. 1 .. end = (1 .. Len(s)) \cup {end} /\ end \notin 1 .. Len(s)
  BY <1>1
<1>4. IsFiniteSet(at)
  BY NumberType
<1>5. Cardinality(at) \in Nat
  BY <1>4, FS_CardinalityType
<1>6. NumberOf(p, s) = Cardinality(at) /\ NumberOf(p, t) = Cardinality(atT)
  BY DEF NumberOf
<1>7. end \notin at
  BY <1>1, <1>3
<1>8. CASE e = p
  <2>1. atT = at \cup {end}
    BY <1>1, <1>2, <1>3, <1>8
  <2>2. Cardinality(at \cup {end}) = Cardinality(at) + 1
    BY <1>4, <1>7, FS_AddElement
  <2> QED
    BY <1>5, <1>6, <1>8, <2>1, <2>2 DEF One
<1>9. CASE e # p
  <2>1. atT = at
    BY <1>1, <1>2, <1>3, <1>9
  <2> HIDE DEF at, atT
  <2> QED
    BY <1>5, <1>6, <1>9, <2>1 DEF One, t
<1> QED
  BY <1>8, <1>9

\* Tail takes one of the head away.
LEMMA NumberTail ==
  ASSUME NEW S, NEW s \in Seq(S), s # <<>>, NEW p
  PROVE  NumberOf(p, Tail(s)) = NumberOf(p, s) - One(Head(s) = p)
<1> DEFINE t == Tail(s)
           at == {i \in DOMAIN s : s[i] = p}
           atT == {i \in DOMAIN t : t[i] = p}
           later == {i \in at : i # 1}
           shift == [i \in atT |-> i + 1]
<1>1. /\ t \in Seq(S) /\ Len(t) = Len(s) - 1
      /\ \A i \in 1 .. Len(t) : t[i] = s[i + 1]
  BY HeadTailProperties
<1>2. /\ Len(s) \in Nat \ {0} /\ DOMAIN s = 1 .. Len(s)
      /\ DOMAIN t = 1 .. Len(t)
  BY <1>1, EmptySeq, LenProperties
<1>3. Head(s) = s[1]
  BY <1>2
<1>4. IsFiniteSet(atT) /\ IsFiniteSet(at)
  BY <1>1, NumberType
<1>5. Cardinality(atT) \in Nat
  BY <1>4, FS_CardinalityType
<1>6. NumberOf(p, s) = Cardinality(at) /\ NumberOf(p, t) = Cardinality(atT)
  BY DEF NumberOf
<1>7. shift \in Bijection(atT, later)
  <2>1. \A i \in atT : i \in 1 .. Len(t) /\ i + 1 \in 1 .. Len(s) /\ i + 1 # 1
    BY <1>1, <1>2
  <2>2. \A i \in atT : i + 1 \in later
    BY <1>1, <1>2, <2>1
  <2>3. \A i, k \in atT : shift[i] = shift[k] => i = k
    BY <2>1
  <2>4. \A k \in later : k - 1 \in 1 .. Len(t) /\ (k - 1) + 1 = k
    BY <1>1, <1>2
  <2>5. \A k \in later : k - 1 \in atT /\ shift[k - 1] = k
    BY <1>1, <1>2, <2>4
  <2>6. shift \in [atT -> later]
    BY <2>2
  <2> HIDE DEF shift, atT, later
  <2>7. shift \in Surjection(atT, later)
    BY <2>5, <2>6 DEF Surjection
  <2>8. shift \in Injection(atT, later)
    BY <2>3, <2>6 DEF Injection, IsInjective
  <2> QED
    BY <2>7, <2>8 DEF Bijection
<1>8. IsFiniteSet(later) /\ Cardinality(later) = Cardinality(atT)
  <2>1. ExistsBijection(atT, later)
    BY <1>7 DEF ExistsBijection
  <2> HIDE DEF atT, later
  <2> QED
    BY <1>4, <2>1, FS_Bijection
<1>9. CASE Head(s) = p
  <2>1. at = later \cup {1} /\ 1 \notin later
    BY <1>2, <1>3, <1>9
  <2>2. Cardinality(later \cup {1}) = Cardinality(later) + 1
    BY <1>8, <2>1, FS_AddElement
  <2> HIDE DEF at, atT, later
  <2> QED
    BY <1>5, <1>6, <1>8, <1>9, <2>1, <2>2 DEF One, t
<1>10. CASE Head(s) # p
  <2>1. at = later
    BY <1>2, <1>3, <1>10
  <2> HIDE DEF at, atT, later
  <2> QED
    BY <1>5, <1>6, <1>8, <1>10, <2>1 DEF One, t
<1> QED
  BY <1>9, <1>10

LEMMA NumberEmpty ==
  ASSUME NEW p
  PROVE  NumberOf(p, <<>>) = 0
<1>1. {i \in DOMAIN <<>> : <<>>[i] = p} = {}
  OBVIOUS
<1> QED
  BY <1>1, FS_EmptySet DEF NumberOf

\* A sequence put behind another adds the number in it.
LEMMA NumberConcat ==
  ASSUME NEW S, NEW s \in Seq(S), NEW u \in Seq(S), NEW p, NEW n \in Nat \ {0}, n = Len(u),
         u[1] = p, \A i \in 2 .. n : u[i] # p
  PROVE  NumberOf(p, s \o u) = NumberOf(p, s) + 1
<1> DEFINE at == {i \in DOMAIN s : s[i] = p}
           t == s \o u
           first == Len(s) + 1
           atT == {i \in DOMAIN t : t[i] = p}
<1>3. Len(s) \in Nat /\ DOMAIN s = 1 .. Len(s)
  BY LenProperties
<1>4. /\ DOMAIN t = 1 .. (Len(s) + n)
      /\ \A i \in 1 .. Len(s) : t[i] = s[i]
      /\ \A i \in 1 .. n : t[Len(s) + i] = u[i]
  BY ConcatEnds
<1>5. IsFiniteSet(at)
  BY NumberType
<1>6. Cardinality(at) \in Nat
  BY <1>5, FS_CardinalityType
<1>7. NumberOf(p, s) = Cardinality(at) /\ NumberOf(p, t) = Cardinality(atT)
  BY DEF NumberOf
<1>8. atT = at \cup {first} /\ first \notin at
  <2>1. ASSUME NEW i \in 1 .. (Len(s) + n)
        PROVE  t[i] = p <=> i \in at \cup {first}
    <3>1. CASE i <= Len(s)
      BY <1>3, <1>4, <3>1
    <3>2. CASE i = first
      <4>1. 1 \in 1 .. n
        OBVIOUS
      <4> QED
        BY <1>4, <3>2, <4>1
    <3>3. CASE i > first
      <4>1. PICK k \in Int : k = i - Len(s)
        <5>1. \A l \in Nat : \A j \in 1 .. (l + n) : j - l \in Int
          OBVIOUS
        <5> QED
          BY <1>3, <5>1
      <4>2. k \in 2 .. n /\ k \in 1 .. n /\ i = Len(s) + k
        BY <1>3, <3>3, <4>1
      <4>3. t[i] = u[k]
        BY <1>4, <4>2
      <4>4. i \notin at \cup {first}
        BY <1>3, <3>3
      <4> QED
        BY <4>2, <4>3, <4>4
    <3> QED
      BY <1>3, <3>1, <3>2, <3>3
  <2>2. at \cup {first} \subseteq 1 .. (Len(s) + n)
    BY <1>3
  <2>3. first \notin at
    BY <1>3
  <2> QED
    BY <1>4, <2>1, <2>2, <2>3
<1>9. Cardinality(at \cup {first}) = Cardinality(at) + 1
  BY <1>5, <1>8, FS_AddElement
<1> HIDE DEF at, atT, first
<1> QED
  BY <1>6, <1>7, <1>8, <1>9 DEF t

LEMMA OpeningsNumber == \A s : Openings(s) = NumberOf("{", s)
  BY DEF Openings, NumberOf

Opens(b) == One(b = "{")

\* What is written, sent, received and read changes the openings of a queue by.
LEMMA OpeningsQueue ==
  ASSUME NEW s \in Seq(Bytes)
  PROVE  /\ Openings(s) \in Nat
         /\ s = <<>> => Openings(s) = 0
         /\ \A e \in Bytes : Openings(Append(s, e)) = Openings(s) + Opens(e)
         /\ s # <<>> => Openings(Tail(s)) = Openings(s) - Opens(Head(s))
<1>1. Openings(s) \in Nat
  BY NumberType, OpeningsNumber
<1>2. s = <<>> => Openings(s) = 0
  BY NumberEmpty, OpeningsNumber
<1>3. ASSUME NEW e \in Bytes PROVE Openings(Append(s, e)) = Openings(s) + Opens(e)
  <2>1. PICK p : p = "{"
    OBVIOUS
  <2>2. NumberOf(p, Append(s, e)) = NumberOf(p, s) + One(e = p)
    BY NumberAppend
  <2> QED
    BY <2>1, <2>2, OpeningsNumber DEF Opens
<1>4. s # <<>> => Openings(Tail(s)) = Openings(s) - Opens(Head(s))
  BY NumberTail, OpeningsNumber DEF Opens
<1> QED
  BY <1>1, <1>2, <1>3, <1>4

\* A request opens once.
LEMMA OpeningsText ==
  ASSUME NEW s \in Seq(Bytes), NEW r \in Requests
  PROVE  Openings(s \o Text(r)) = Openings(s) + 1
<1>1. PICK n \in {3, 4} : n = Len(Text(r))
  BY TextShape
<1>2. /\ Text(r) \in Seq(Bytes) /\ Text(r)[1] = "{"
      /\ \A i \in 2 .. n : Text(r)[i] # "{"
  BY <1>1, TextShape
<1>3. n \in Nat \ {0}
  OBVIOUS
<1> QED
  BY <1>1, <1>2, <1>3, NumberConcat, OpeningsNumber

\* So does an answer.
LEMMA OpeningsAnswer == Openings(Done) = 1 /\ Openings(ToggleDone) = 1
<1>1. 1 .. 3 = {1, 2, 3} /\ 1 .. 4 = {1, 2, 3, 4}
  OBVIOUS
<1>2. {i \in DOMAIN Done : Done[i] = "{"} = {1}
  BY <1>1, DoneShape
<1>3. {i \in DOMAIN ToggleDone : ToggleDone[i] = "{"} = {2}
  BY <1>1, ToggleDoneShape
<1>4. Cardinality({1}) = 1 /\ Cardinality({2}) = 1
  BY FS_Singleton
<1> QED
  BY <1>2, <1>3, <1>4 DEF Openings

-----------------------------------------------------------------------------
\* Every call that has heard an answer has used up an exchange.

InBuffer == IF isr = "idle" /\ bufferlength > 0 THEN 1 ELSE 0

LEMMA HeardInit == Init => HeardInv
<1> SUFFICES ASSUME Init PROVE HeardInv
  OBVIOUS
<1>1. /\ toBoard = <<>> /\ toHost = <<>> /\ sending = <<>> /\ rxbuf = NoByte
      /\ bufferlength = 0 /\ written = 0
  BY DEF Init, HostInit, FirmwareInit
<1>2. Heard = {} /\ \A c \in Calls : result[c] # 0
  <2>1. reply = [c \in Calls |-> ""] /\ result = [c \in Calls |-> 1]
    BY DEF Init, HostInit
  <2>2. Heard = {}
    BY <2>1 DEF Heard
  <2>3. 1 # 0
    OBVIOUS
  <2>4. \A c \in Calls : result[c] # 0
    BY <2>1, <2>3
  <2> QED
    BY <2>2, <2>4
<1>3. Openings(<<>>) = 0
  <2>1. <<>> \in Seq(Bytes)
    OBVIOUS
  <2> QED
    BY <2>1, OpeningsQueue
<1>4. rxbuf # "{"
  BY <1>1, FirmwareAssumption DEF Bytes
<1>5. OpenExchanges = 0
  <2>1. ~(bufferlength > 0)
    BY <1>1
  <2>2. OpenExchanges = 0 + 0 + 0 + 0 + 0
    BY <1>1, <1>3, <1>4, <2>1 DEF OpenExchanges
  <2> QED
    BY <2>2
<1>6. IsFiniteSet(Heard) /\ Cardinality(Heard) = 0
  BY <1>2, FS_EmptySet
<1>7. Cardinality(Heard) + OpenExchanges <= written
  BY <1>1, <1>5, <1>6
<1> QED
  BY <1>2, <1>6, <1>7 DEF HeardInv

\* The first opening brace of an answer makes its reader one that has heard it.
LEMMA KeepHears ==
  ASSUME TypeOK, HeardInv, NEW c \in Calls, NEW char \in Bytes \cup {NoChar}, Keep(c, char)
  PROVE  /\ IsFiniteSet(Heard')
         /\ Cardinality(Heard) \in Nat /\ Cardinality(Heard') \in Nat
         /\ Cardinality(Heard') <= Cardinality(Heard) + Opens(char)
         /\ Heard \subseteq Heard'
<1>1. reply \in [Calls -> Bytes \cup {NoChar, ""}] /\ char # ""
  BY DEF TypeOK, Bytes, NoChar
<1>2. IsFiniteSet(Heard) /\ Cardinality(Heard) \in Nat
  BY FS_CardinalityType DEF HeardInv
<1>3. CASE reply[c] = "" /\ char = "{"
  <2>1. reply' = [reply EXCEPT ![c] = char]
    BY <1>3 DEF Keep
  <2>2. Heard' = Heard \cup {c} /\ c \notin Heard
    BY <1>1, <1>3, <2>1 DEF Heard
  <2>3. IsFiniteSet(Heard \cup {c}) /\ Cardinality(Heard \cup {c}) = Cardinality(Heard) + 1
    BY <1>2, <2>2, FS_AddElement
  <2>4. Opens(char) = 1
    BY <1>3 DEF Opens, One
  <2>5. Cardinality(Heard') = Cardinality(Heard) + 1 /\ IsFiniteSet(Heard')
    BY <2>2, <2>3
  <2>6. Heard \subseteq Heard'
    BY <2>2
  <2> HIDE DEF Heard
  <2> QED
    BY <1>2, <2>4, <2>5, <2>6
<1>4. CASE ~(reply[c] = "" /\ char = "{")
  <2>1. Heard' = Heard
    <3>1. CASE reply[c] # ""
      <4>1. reply' = [reply EXCEPT ![c] = char]
        BY <3>1 DEF Keep
      <4> QED
        BY <1>1, <3>1, <4>1 DEF Heard
    <3>2. CASE reply[c] = "" /\ char # "{"
      BY <3>2 DEF Keep, Heard
    <3> QED
      BY <1>4, <3>1, <3>2
  <2>2. Opens(char) \in Nat
    BY DEF Opens, One
  <2> QED
    BY <1>2, <2>1, <2>2
<1> QED
  BY <1>3, <1>4

\* The numbers that OpenExchanges adds.
LEMMA ExchangeTypes ==
  ASSUME TypeOK
  PROVE  /\ Openings(toBoard) \in Nat /\ Openings(sending) \in Nat /\ Openings(toHost) \in Nat
         /\ Opens(rxbuf) \in {0, 1} /\ InBuffer \in {0, 1}
         /\ OpenExchanges = Openings(toBoard) + Openings(sending) + Openings(toHost)
                            + Opens(rxbuf) + InBuffer
         /\ OpenExchanges \in Nat
<1>1. toBoard \in Seq(Bytes) /\ toHost \in Seq(Bytes) /\ sending \in Seq(Bytes)
  BY DEF TypeOK
<1>2. Openings(toBoard) \in Nat /\ Openings(sending) \in Nat /\ Openings(toHost) \in Nat
  BY <1>1, OpeningsQueue
<1>3. Opens(rxbuf) \in {0, 1} /\ InBuffer \in {0, 1}
  BY DEF Opens, One, InBuffer
<1>4. OpenExchanges = Openings(toBoard) + Openings(sending) + Openings(toHost)
                      + Opens(rxbuf) + InBuffer
  BY DEF OpenExchanges, Opens, One, InBuffer
<1> QED
  BY <1>2, <1>3, <1>4

\* Steps that hear nothing and leave the calls alone keep the invariant if they open nothing.
LEMMA HeardKept ==
  ASSUME TypeOK, TypeOK', HeardInv, UNCHANGED <<reply, result>>,
         OpenExchanges' - OpenExchanges <= written' - written
  PROVE  HeardInv'
<1>1. Heard' = Heard
  BY DEF Heard
<1>2. IsFiniteSet(Heard) /\ Cardinality(Heard) \in Nat
  BY FS_CardinalityType DEF HeardInv
<1>3. written \in Nat /\ written' \in Nat
  BY DEF TypeOK
<1>4. OpenExchanges \in Nat /\ OpenExchanges' \in Nat
  <2>1. (TypeOK => OpenExchanges \in Nat)'
    BY ExchangeTypes, PTL
  <2> QED
    BY <2>1, ExchangeTypes
<1>5. Cardinality(Heard) + OpenExchanges <= written
  BY DEF HeardInv
<1>6. Cardinality(Heard') + OpenExchanges' <= written'
  <2>1. \A n, x, y, f, g \in Nat : n + x <= f /\ y - x <= g - f => n + y <= g
    OBVIOUS
  <2>2. Cardinality(Heard) + OpenExchanges' <= written'
    BY <1>2, <1>3, <1>4, <1>5, <2>1
  <2> QED
    BY <1>1, <2>2
<1>7. \A c \in Calls : result'[c] = 0 => c \in Heard'
  BY <1>1 DEF HeardInv
<1> QED
  BY <1>1, <1>2, <1>6, <1>7 DEF HeardInv

LEMMA HeardStep ==
  ASSUME TypeOK, WireInv, BufferInv, BufferSuffices, HeardInv, [Next]_vars
  PROVE  HeardInv'
<1>1. TypeOK'
  BY TypeStep
<1>2. toBoard \in Seq(Bytes) /\ toHost \in Seq(Bytes) /\ sending \in Seq(Bytes)
  BY DEF TypeOK
<1>3. /\ Openings(toBoard) \in Nat /\ Openings(sending) \in Nat /\ Openings(toHost) \in Nat
      /\ Opens(rxbuf) \in {0, 1} /\ InBuffer \in {0, 1}
      /\ OpenExchanges = Openings(toBoard) + Openings(sending) + Openings(toHost)
                         + Opens(rxbuf) + InBuffer
  BY ExchangeTypes
<1>4. (TypeOK => /\ Openings(toBoard) \in Nat /\ Openings(sending) \in Nat
                 /\ Openings(toHost) \in Nat /\ Opens(rxbuf) \in {0, 1} /\ InBuffer \in {0, 1}
                 /\ OpenExchanges = Openings(toBoard) + Openings(sending) + Openings(toHost)
                                    + Opens(rxbuf) + InBuffer
                 /\ OpenExchanges \in Nat)'
  BY ExchangeTypes, PTL
<1>5. /\ Openings(toBoard') \in Nat /\ Openings(sending') \in Nat /\ Openings(toHost') \in Nat
      /\ Opens(rxbuf') \in {0, 1} /\ InBuffer' \in {0, 1}
      /\ OpenExchanges' = Openings(toBoard') + Openings(sending') + Openings(toHost')
                          + Opens(rxbuf') + InBuffer'
      /\ OpenExchanges' \in Nat
  BY <1>1, <1>4 DEF Openings, Opens
<1>6. written \in Nat /\ written' \in Nat
  BY <1>1 DEF TypeOK
<1>7. ASSUME UNCHANGED <<toBoard, toHost, sending, rxbuf, bufferlength, isr, written, reply,
                         result>>
      PROVE  HeardInv'
  <2>1. UNCHANGED OpenExchanges
    BY <1>7 DEF OpenExchanges, Openings
  <2>2. OpenExchanges' - OpenExchanges = 0 /\ written' - written = 0
    BY <1>3, <1>5, <1>6, <1>7, <2>1
  <2>3. OpenExchanges' - OpenExchanges <= written' - written
    BY <2>2
  <2> QED
    BY <1>1, <1>7, <2>3, HeardKept
<1>8. ASSUME NEW c \in Calls, HostSteps(c) PROVE HeardInv'
  <2>1. UNCHANGED <<rxbuf, bufferlength, isr, sending>>
    BY <1>8 DEF HostSteps, boardVars
  <2>2. UNCHANGED <<InBuffer, Opens(rxbuf), Openings(sending)>>
    BY <2>1 DEF InBuffer, Opens, Openings
  <2>3. CASE Begin(c)
    <3>1. Request[c] \in Requests
      BY HandlingAssumption
    <3>2. /\ toBoard' = toBoard \o Text(Request[c]) /\ written' = written + 1
          /\ UNCHANGED <<toHost, reply, result>>
      BY <2>3 DEF Begin
    <3>3. Openings(toBoard') = Openings(toBoard) + 1 /\ Openings(toHost') = Openings(toHost)
      BY <1>2, <3>1, <3>2, OpeningsText
    <3>4. OpenExchanges' - OpenExchanges <= written' - written
      <4>1. OpenExchanges' = OpenExchanges + 1
        BY <1>3, <1>5, <2>1, <2>2, <3>3
      <4>2. \A x, f \in Nat : (x + 1) - x <= (f + 1) - f
        OBVIOUS
      <4>3. (OpenExchanges + 1) - OpenExchanges <= (written + 1) - written
        BY <1>6, <4>2, ExchangeTypes
      <4> QED
        BY <3>2, <4>1, <4>3
    <3> QED
      BY <1>1, <3>2, <3>4, HeardKept
  <2>4. CASE OpenFails(c) \/ SetupFails(c) \/ DataAvail(c)
    BY <1>7, <2>1, <2>4 DEF OpenFails, SetupFails, DataAvail, lineVars
  <2>5. CASE CheckReply(c)
    <3>1. UNCHANGED <<toBoard, toHost, reply, written>>
      BY <2>5 DEF CheckReply, lineVars
    <3>2. Heard' = Heard /\ UNCHANGED OpenExchanges
      BY <2>1, <3>1 DEF Heard, OpenExchanges, Openings
    <3>3. ASSUME NEW d \in Calls, result'[d] = 0 PROVE d \in Heard
      <4>1. CASE result[d] = 0
        BY <4>1 DEF HeardInv
      <4>2. CASE result[d] # 0
        <5>1. d = c /\ Complete(c)
          BY <2>5, <3>3, <4>2 DEF CheckReply, TypeOK
        <5> QED
          BY <5>1 DEF Complete, Heard
      <4> QED
        BY <4>1, <4>2
    <3> QED
      BY <3>1, <3>2, <3>3 DEF HeardInv
  <2>6. ASSUME NEW char \in Bytes \cup {NoChar}, Keep(c, char),
               Openings(toHost') = Openings(toHost) - Opens(char)
        PROVE  HeardInv'
    <3>1. /\ IsFiniteSet(Heard')
          /\ Cardinality(Heard) \in Nat /\ Cardinality(Heard') \in Nat
          /\ Cardinality(Heard') <= Cardinality(Heard) + Opens(char)
          /\ Heard \subseteq Heard'
      BY <2>6, KeepHears
    <3>2. UNCHANGED <<toBoard, result, written>>
      BY <2>6 DEF Keep
    <3>3. UNCHANGED Openings(toBoard)
      BY <3>2 DEF Openings
    <3>4. Opens(char) \in {0, 1}
      BY DEF Opens, One
    <3>5. OpenExchanges' = OpenExchanges - Opens(char)
      BY <1>3, <1>5, <2>1, <2>2, <2>6, <3>2, <3>3, <3>4
    <3>6. Cardinality(Heard) + OpenExchanges <= written /\ OpenExchanges \in Nat
      BY ExchangeTypes DEF HeardInv
    <3>7. Cardinality(Heard') + OpenExchanges' <= written'
      <4>1. \A n, m, x, f \in Nat : \A o \in {0, 1} :
              m <= n + o /\ n + x <= f => m + (x - o) <= f
        OBVIOUS
      <4>2. Cardinality(Heard') + (OpenExchanges - Opens(char)) <= written
        BY <1>6, <3>1, <3>4, <3>6, <4>1
      <4> QED
        BY <3>2, <3>5, <4>2
    <3>8. \A d \in Calls : result'[d] = 0 => d \in Heard'
      BY <3>1, <3>2 DEF HeardInv
    <3> QED
      BY <3>1, <3>7, <3>8 DEF HeardInv
  <2>7. CASE GetChar(c)
    <3>1. /\ toHost \in Seq(Bytes) /\ toHost # <<>> /\ toHost' = Tail(toHost)
          /\ Keep(c, Head(toHost))
      BY <1>2, <2>7 DEF GetChar
    <3>2. Head(toHost) \in Bytes
      BY <3>1, SeqEnds
    <3>3. Openings(toHost') = Openings(toHost) - Opens(Head(toHost))
      BY <3>1, OpeningsQueue
    <3> QED
      BY <2>6, <3>1, <3>2, <3>3
  <2>8. CASE GetCharTimesOut(c)
    <3>1. Keep(c, NoChar) /\ UNCHANGED toHost
      BY <2>8 DEF GetCharTimesOut
    <3>2. Opens(NoChar) = 0
      BY DEF Opens, One, NoChar
    <3>3. Openings(toHost') = Openings(toHost) - Opens(NoChar)
      BY <1>3, <3>1, <3>2
    <3> QED
      BY <2>6, <3>1, <3>3
  <2> QED
    BY <1>8, <2>3, <2>4, <2>5, <2>7, <2>8 DEF HostSteps, HostStep
<1>9. ASSUME UNCHANGED <<reply, result, written>>, OpenExchanges' <= OpenExchanges PROVE HeardInv'
  <2>1. OpenExchanges' - OpenExchanges <= written' - written
    <3>1. \A x, y, f \in Nat : y <= x => y - x <= f - f
      OBVIOUS
    <3> QED
      BY <1>5, <1>6, <1>9, <3>1, ExchangeTypes
  <2> QED
    BY <1>1, <1>9, <2>1, HeardKept
<1>10. CASE BoardSteps
  <2>1. UNCHANGED <<reply, result, written>>
    BY <1>10 DEF BoardSteps, hostVars
  <2>2. CASE ReceiveByte
    <3>1. rxbuf' = NoByte /\ UNCHANGED <<toBoard, toHost>> /\ isr = "idle"
      BY <2>2 DEF ReceiveByte, lineVars
    <3>2. Opens(rxbuf') = 0 /\ UNCHANGED <<Openings(toBoard), Openings(toHost)>>
      BY <3>1, FirmwareAssumption DEF Opens, One, Bytes, Openings
    <3>3. sending = <<>> /\ Openings(sending) = 0
      BY <1>2, <3>1, OpeningsQueue DEF BufferInv
    <3>4. bufferlength \in Nat
      <4>1. bufferlength \in 0 .. BufferSize /\ BufferSize \in Nat
        BY FirmwareAssumption DEF TypeOK
      <4> QED
        BY <4>1
    <3>5. CASE Ignores
      <4>1. Opens(rxbuf) = 0 /\ UNCHANGED <<InBuffer, Openings(sending)>>
        BY <3>5 DEF Ignores, InBuffer, Opens, One, Openings
      <4>2. OpenExchanges' <= OpenExchanges
        BY <1>3, <1>5, <3>2, <4>1
      <4> QED
        BY <1>9, <2>1, <4>2
    <3>6. ASSUME NEW t \in Requests, GoesOn(t) PROVE HeardInv'
      <4>1. Openings(sending') = 0
        BY <3>3, <3>6 DEF GoesOn
      <4>2. Opens(rxbuf) + InBuffer = 1
        <5>1. CASE bufferlength = 0
          <6>1. ~(bufferlength > 0)
            BY <5>1
          <6>2. Opens(rxbuf) = 1 /\ InBuffer = 0
            BY <3>6, <5>1, <6>1 DEF GoesOn, InBuffer, Opens, One
          <6> QED
            BY <6>2
        <5>2. CASE bufferlength # 0
          <6>1. bufferlength > 0
            BY <3>4, <5>2
          <6>2. Opens(rxbuf) = 0 /\ InBuffer = 1
            BY <3>1, <3>6, <5>2, <6>1 DEF GoesOn, InBuffer, Opens, One
          <6> QED
            BY <6>2
        <5> QED
          BY <5>1, <5>2
      <4>3. OpenExchanges' <= OpenExchanges
        BY <1>3, <1>5, <3>2, <3>3, <4>1, <4>2
      <4> QED
        BY <1>9, <2>1, <4>3
    <3>7. ASSUME NEW t \in Requests, Completes(t) PROVE HeardInv'
      <4>1. Openings(sending') = 1
        BY <3>7, OpeningsAnswer DEF Completes
      <4>2. Opens(rxbuf) = 0 /\ InBuffer = 1
        BY <3>1, <3>7 DEF Completes, InBuffer, Opens, One
      <4>3. InBuffer' = 0
        BY <3>7 DEF Completes, InBuffer
      <4>4. OpenExchanges' <= OpenExchanges
        BY <1>3, <1>5, <3>2, <3>3, <4>1, <4>2, <4>3
      <4> QED
        BY <1>9, <2>1, <4>4
    <3> QED
      BY <2>2, <3>5, <3>6, <3>7, Received
  <2>3. CASE SendByte
    <3>1. /\ sending # <<>> /\ sending' = Tail(sending)
          /\ toHost' = Append(toHost, Head(sending))
          /\ UNCHANGED <<toBoard, rxbuf, bufferlength, isr>>
      BY <2>3 DEF SendByte
    <3>2. Head(sending) \in Bytes
      BY <1>2, <3>1, SeqEnds
    <3>3. Openings(sending') = Openings(sending) - Opens(Head(sending))
      BY <1>2, <3>1, OpeningsQueue
    <3>4. Openings(toHost') = Openings(toHost) + Opens(Head(sending))
      BY <1>2, <3>1, <3>2, OpeningsQueue
    <3>5. UNCHANGED <<InBuffer, Opens(rxbuf), Openings(toBoard)>>
      BY <3>1 DEF InBuffer, Opens, Openings
    <3>6. Opens(Head(sending)) \in {0, 1}
      BY DEF Opens, One
    <3>7. OpenExchanges' <= OpenExchanges
      <4>1. \A a, s, t, h, i \in Nat : \A o, r \in {0, 1} :
              t = s - o => a + t + (h + o) + r + i <= a + s + h + r + i
        OBVIOUS
      <4>2. InBuffer \in Nat
        BY <1>3
      <4>3. Openings(toBoard) + Openings(sending') + Openings(toHost') + Opens(rxbuf) + InBuffer
              <= Openings(toBoard) + Openings(sending) + Openings(toHost) + Opens(rxbuf) + InBuffer
        BY <1>3, <1>5, <3>3, <3>4, <3>6, <4>1, <4>2
      <4>4. OpenExchanges' = Openings(toBoard) + Openings(sending') + Openings(toHost')
                             + Opens(rxbuf) + InBuffer
        BY <1>5, <3>5
      <4> QED
        BY <1>3, <4>3, <4>4
    <3> QED
      BY <1>9, <2>1, <3>7
  <2>4. CASE EndMessage
    <3>1. UNCHANGED <<toBoard, toHost, rxbuf, sending>> /\ bufferlength' = 0
      BY <2>4 DEF EndMessage, lineVars
    <3>2. InBuffer' = 0
      <4>1. ~(bufferlength' > 0)
        BY <3>1
      <4> QED
        BY <4>1 DEF InBuffer
    <3>3. UNCHANGED <<Openings(toBoard), Openings(toHost), Opens(rxbuf), Openings(sending)>>
      BY <3>1 DEF Openings, Opens
    <3>4. OpenExchanges' <= OpenExchanges
      BY <1>3, <1>5, <3>2, <3>3
    <3> QED
      BY <1>9, <2>1, <3>4
  <2> QED
    BY <1>10, <2>2, <2>3, <2>4 DEF BoardSteps, BoardStep
<1>11. CASE Arrives
  <2>1. /\ toBoard # <<>> /\ toBoard' = Tail(toBoard) /\ rxbuf' = Head(toBoard)
        /\ UNCHANGED <<toHost, sending, bufferlength, isr, reply, result, written>>
    BY <1>11 DEF Arrives, ByteArrives, hostVars
  <2>2. Openings(toBoard') = Openings(toBoard) - Opens(rxbuf')
    BY <1>2, <2>1, OpeningsQueue
  <2>3. UNCHANGED <<InBuffer, Openings(toHost), Openings(sending)>>
    BY <2>1 DEF InBuffer, Openings
  <2>4. OpenExchanges' <= OpenExchanges
    <3>1. \A a, b, s, h, i \in Nat : \A q, r \in {0, 1} :
            b = a - q => b + s + h + q + i <= a + s + h + r + i
      OBVIOUS
    <3>2. InBuffer \in Nat
      BY <1>3
    <3>3. Openings(toBoard') + Openings(sending) + Openings(toHost) + Opens(rxbuf') + InBuffer
            <= Openings(toBoard) + Openings(sending) + Openings(toHost) + Opens(rxbuf) + InBuffer
      BY <1>3, <1>5, <2>2, <3>1, <3>2
    <3>4. OpenExchanges' = Openings(toBoard') + Openings(sending) + Openings(toHost)
                           + Opens(rxbuf') + InBuffer
      BY <1>5, <2>3
    <3> QED
      BY <1>3, <3>3, <3>4
  <2> QED
    BY <1>9, <2>1, <2>4
<1>12. CASE CtsMoves
  BY <1>7, <1>12 DEF CtsMoves, CtsChanges, lineVars, hostVars
<1>13. CASE UNCHANGED vars
  BY <1>7, <1>13 DEF vars, lineVars, boardVars, hostVars
<1> QED
  BY <1>8, <1>10, <1>11, <1>12, <1>13 DEF Next

\* The calls that returned 0.
Served == {c \in Calls : Returned(c) /\ result[c] = 0}

LEMMA ServedHaveHeard ==
  ASSUME TypeOK, HeardInv
  PROVE  /\ Cardinality(Served) \in Nat /\ OpenExchanges \in Nat /\ written \in Nat
         /\ Cardinality(Served) + OpenExchanges <= written
<1>1. Served \in SUBSET Heard /\ IsFiniteSet(Heard) /\ Cardinality(Heard) + OpenExchanges <= written
  BY DEF HeardInv, Served
<1>2. IsFiniteSet(Served) /\ Cardinality(Served) <= Cardinality(Heard)
  BY <1>1, FS_Subset
<1>3. Cardinality(Served) \in Nat /\ Cardinality(Heard) \in Nat
  BY <1>1, <1>2, FS_CardinalityType
<1>4. written \in Nat /\ OpenExchanges \in Nat
  BY ExchangeTypes DEF TypeOK
<1>5. \A n, m, x, f \in Nat : m <= n /\ n + x <= f => m + x <= f
  OBVIOUS
<1> QED
  BY <1>1, <1>2, <1>3, <1>4, <1>5

LEMMA WrittenStep ==
  ASSUME TypeOK, WrittenInv, [Next]_vars
  PROVE  WrittenInv'
<1>1. fds \in Nat /\ written \in Nat
  <2>1. MaxFds \in Nat /\ fds \in 0 .. MaxFds /\ written \in Nat
    BY HandlingAssumption DEF TypeOK
  <2> QED
    BY <2>1
<1>2. /\ \/ fds' = fds + 1 /\ written' \in {written, written + 1}
         \/ UNCHANGED <<fds, written>>
  <2>1. ASSUME NEW c \in Calls, HostSteps(c)
        PROVE  (fds' = fds + 1 /\ written' \in {written, written + 1}) \/ UNCHANGED <<fds, written>>
    BY <2>1 DEF HostSteps, HostStep, Begin, OpenFails, SetupFails, CheckReply, DataAvail, GetChar,
         GetCharTimesOut, Keep
  <2>2. CASE BoardSteps \/ Arrives \/ CtsMoves \/ UNCHANGED vars
    BY <2>2 DEF BoardSteps, Arrives, CtsMoves, vars, hostVars
  <2> QED
    BY <2>1, <2>2 DEF Next
<1> QED
  BY <1>1, <1>2 DEF WrittenInv

HeardInd == TypeOK /\ WireInv /\ BufferInv /\ HeardInv /\ WrittenInv

LEMMA HeardAlways ==
  ASSUME BufferSuffices
  PROVE  Spec => []HeardInd
<1>1. Init => HeardInd
  <2>1. Init => WrittenInv
    <3>1. 0 <= 0
      OBVIOUS
    <3> QED
      BY <3>1 DEF Init, HostInit, WrittenInv
  <2> QED
    BY <2>1, TypeInit, WireInit, BufferInit, HeardInit DEF HeardInd
<1>2. HeardInd /\ [Next]_vars => HeardInd'
  BY TypeStep, WireStep, BufferStep, HeardStep, WrittenStep DEF HeardInd
<1> QED
  BY <1>1, <1>2, PTL DEF Spec

\* A request gives at most one call its end: every call that returned 0 has used
\* up a request written that no call still under way can be answered by.
THEOREM OneReturnPerAnswer ==
  ASSUME BufferSuffices
  PROVE  Spec => []EachReturnUsesAnAnswer
<1>1. HeardInd => EachReturnUsesAnAnswer
  BY ServedHaveHeard DEF HeardInd, EachReturnUsesAnAnswer, Served
<1> QED
  BY <1>1, HeardAlways, PTL

\* Since no descriptor is closed, the process serves at most MaxFds requests.
THEOREM AtMostMaxFdsServed ==
  ASSUME BufferSuffices
  PROVE  Spec => []ServesAtMostMaxFds
<1>1. HeardInd => ServesAtMostMaxFds
  <2>1. MaxFds \in Nat
    BY HandlingAssumption
  <2>2. \A k \in Nat : \A f \in 0 .. k : \A m, x, w \in Nat : m + x <= w /\ w <= f => m <= k
    OBVIOUS
  <2>3. HeardInd => Cardinality(Served) <= MaxFds
    BY <2>1, <2>2, ServedHaveHeard DEF HeardInd, WrittenInv, TypeOK
  <2> QED
    BY <2>3 DEF ServesAtMostMaxFds, Served
<1> QED
  BY <1>1, HeardAlways, PTL

-----------------------------------------------------------------------------
\* One exchange at a time.

LEMMA AnswerShape ==
  ASSUME NEW r \in Requests
  PROVE  \E f \in {1, 2} :
           /\ f = Opening(r)
           /\ Answer(r) \in Seq(Bytes) /\ Len(Answer(r)) = f + 2
           /\ Answer(r)[f] = "{" /\ Answer(r)[f + 1] = "DONE" /\ Answer(r)[f + 2] = "}"
           /\ f = 2 => Answer(r)[1] = "ENTRO"
<1>1. CASE r = "TOGGLE"
  <2>1. 2 = Opening(r) /\ Answer(r) = ToggleDone
    BY <1>1 DEF Opening, Answer
  <2>2. 2 + 2 = 4 /\ 2 + 1 = 3
    OBVIOUS
  <2> QED
    BY <2>1, <2>2, ToggleDoneShape
<1>2. CASE r # "TOGGLE"
  <2>1. 1 = Opening(r) /\ Answer(r) = Done
    BY <1>2 DEF Opening, Answer
  <2>2. 1 + 2 = 3 /\ 1 + 1 = 2 /\ 1 # 2
    OBVIOUS
  <2> QED
    BY <2>1, <2>2, DoneShape
<1> QED
  BY <1>1, <1>2

LEMMA CarriesTail ==
  ASSUME NEW S, NEW s \in Seq(S), s # <<>>, NEW t, NEW n \in Int, Carries(s, t, n)
  PROVE  Head(s) = t[n + 1] /\ Carries(Tail(s), t, n + 1)
<1>1. /\ Len(s) \in Nat \ {0} /\ DOMAIN s = 1 .. Len(s) /\ 1 \in DOMAIN s /\ Head(s) = s[1]
      /\ DOMAIN Tail(s) = 1 .. (Len(s) - 1)
      /\ \A i \in 1 .. (Len(s) - 1) : Tail(s)[i] = s[i + 1]
  BY SeqEnds
<1>2. Head(s) = t[n + 1]
  BY <1>1 DEF Carries
<1>3. ASSUME NEW i \in DOMAIN Tail(s) PROVE Tail(s)[i] = t[(n + 1) + i]
  <2>1. i + 1 \in DOMAIN s /\ Tail(s)[i] = s[i + 1] /\ n + (i + 1) = (n + 1) + i
    BY <1>1
  <2>2. s[i + 1] = t[n + (i + 1)]
    BY <2>1 DEF Carries
  <2> QED
    BY <2>1, <2>2
<1> QED
  BY <1>2, <1>3 DEF Carries

LEMMA CarriesAppend ==
  ASSUME NEW S, NEW s \in Seq(S), NEW t, NEW n \in Int, Carries(s, t, n),
         NEW e \in S, e = t[(n + Len(s)) + 1]
  PROVE  Carries(Append(s, e), t, n)
<1>1. /\ Len(s) \in Nat /\ DOMAIN s = 1 .. Len(s)
      /\ DOMAIN Append(s, e) = 1 .. (Len(s) + 1)
      /\ \A i \in 1 .. Len(s) : Append(s, e)[i] = s[i]
      /\ Append(s, e)[Len(s) + 1] = e
  BY AppendEnds
<1>2. ASSUME NEW i \in DOMAIN Append(s, e) PROVE Append(s, e)[i] = t[n + i]
  <2>1. CASE i = Len(s) + 1
    <3>1. n + i = (n + Len(s)) + 1
      BY <1>1, <2>1
    <3> QED
      BY <1>1, <2>1, <3>1
  <2>2. CASE i # Len(s) + 1
    <3>1. i \in 1 .. Len(s)
      BY <1>1, <2>2
    <3> QED
      BY <1>1, <3>1 DEF Carries
  <2> QED
    BY <2>1, <2>2
<1> QED
  BY <1>2 DEF Carries

LEMMA RestTail ==
  ASSUME NEW S, NEW s \in Seq(S), s # <<>>, NEW t, Len(t) \in Nat, NEW n \in Int, Rest(s, t, n)
  PROVE  Head(s) = t[n + 1] /\ Rest(Tail(s), t, n + 1) /\ n < Len(t)
<1>1. Len(s) \in Nat \ {0} /\ Len(Tail(s)) = Len(s) - 1
  BY SeqEnds
<1>2. Carries(s, t, n) /\ Len(s) = Len(t) - n
  BY DEF Rest
<1>3. Head(s) = t[n + 1] /\ Carries(Tail(s), t, n + 1)
  BY <1>2, CarriesTail
<1>4. Len(Tail(s)) = Len(t) - (n + 1) /\ n < Len(t)
  BY <1>1, <1>2
<1> QED
  BY <1>3, <1>4 DEF Rest

\* Nothing is left of a sequence behind its last element, and all of it behind its zeroth.
LEMMA RestEnds ==
  ASSUME NEW S, NEW s \in Seq(S), NEW t, Len(t) \in Nat, NEW n \in Int
  PROVE  /\ Rest(s, t, n) /\ n = Len(t) => s = <<>>
         /\ s = <<>> /\ n = Len(t) => Rest(s, t, n)
         /\ s = t => Rest(s, t, 0)
         /\ s = <<>> => Carries(s, t, n)
         /\ s = <<>> /\ Rest(s, t, n) => n = Len(t)
<1>1. s # <<>> => Len(s) \in Nat \ {0}
  BY EmptySeq
<1>2. s = <<>> => Len(s) = 0 /\ DOMAIN s = {}
  OBVIOUS
<1>3. Rest(s, t, n) /\ n = Len(t) => s = <<>>
  BY <1>1 DEF Rest
<1>4. s = <<>> /\ n = Len(t) => Rest(s, t, n)
  BY <1>2 DEF Rest, Carries
<1>5. s = t => Rest(s, t, 0)
  <2>1. DOMAIN s = 1 .. Len(s) /\ Len(s) \in Nat
    BY LenProperties
  <2>2. \A i \in DOMAIN s : 0 + i = i
    BY <2>1
  <2>3. Len(s) - 0 = Len(s)
    BY <2>1
  <2> QED
    BY <2>2, <2>3 DEF Rest, Carries
<1>6. s = <<>> => Carries(s, t, n)
  BY <1>2 DEF Carries
<1>7. s = <<>> /\ Rest(s, t, n) => n = Len(t)
  BY <1>2 DEF Rest
<1> QED
  BY <1>3, <1>4, <1>5, <1>6, <1>7

\* A step of the board or of the line keeps the invariant if the exchange of the call goes on.
LEMMA ExchangeFrame ==
  ASSUME ExchangeInv, UNCHANGED <<call, reply, countMSG, result>>,
         AllQuiet => AllQuiet', toHost # <<>> => toHost' # <<>>,
         \A c \in Calls : UnderWay(c) => \E n \in 0 .. 4 : Awaits(c, n)' \/ Reads(c, n)'
  PROVE  ExchangeInv'
<1>1. \A c \in Calls : UnderWay(c)' <=> UnderWay(c)
  BY DEF UnderWay
<1>2. \A c, d \in Calls : UnderWay(c)' /\ UnderWay(d)' => c = d
  BY <1>1 DEF ExchangeInv
<1>3. \A c \in Calls : call'[c] = "none" => reply'[c] = "" /\ countMSG'[c] = 0 /\ result'[c] = 1
  BY DEF ExchangeInv
<1>4. (\A c \in Calls : ~UnderWay(c)') => AllQuiet'
  BY <1>1 DEF ExchangeInv
<1>5. \A c \in Calls : UnderWay(c)' => \E n \in 0 .. 4 : Awaits(c, n)' \/ Reads(c, n)'
  BY <1>1
<1>6. \A c \in Calls : call'[c] = "getchar" => toHost' # <<>>
  BY DEF ExchangeInv
<1> QED
  BY <1>2, <1>3, <1>4, <1>5, <1>6 DEF ExchangeInv

LEMMA RequestOf ==
  ASSUME NEW c \in Calls
  PROVE  /\ Request[c] \in Requests
         /\ Text(Request[c]) \in Seq(Bytes) /\ Len(Text(Request[c])) \in {3, 4}
         /\ Len(Text(Request[c])) \in Nat
<1>1. Request[c] \in Requests
  BY HandlingAssumption
<1>2. Text(Request[c]) \in Seq(Bytes) /\ Len(Text(Request[c])) \in {3, 4}
  BY <1>1, TextShape
<1>3. \A l \in {3, 4} : l \in Nat
  OBVIOUS
<1>4. Len(Text(Request[c])) \in Nat
  BY <1>2, <1>3
<1> QED
  BY <1>1, <1>2, <1>4

LEMMA AwaitsReceive ==
  ASSUME TypeOK, WireInv, BufferInv, BufferSuffices, ReceiveByte, UNCHANGED hostVars,
         NEW c \in Calls, NEW n \in 0 .. 4, Awaits(c, n)
  PROVE  \E k \in 0 .. 4 : Awaits(c, k)' \/ Reads(c, k)'
<1> DEFINE T == Text(Request[c])
<1>1. /\ Request[c] \in Requests /\ T \in Seq(Bytes) /\ Len(T) \in Nat
  BY RequestOf
<1>2. PICK l \in {3, 4} : l = Len(T)
  BY RequestOf
<1>3. /\ isr = "idle" /\ rxbuf # NoByte /\ rxbuf' = NoByte
      /\ UNCHANGED <<toBoard, toHost, reply, countMSG>>
  BY DEF ReceiveByte, lineVars, hostVars
<1>4. /\ bufferlength = n /\ HoldsStart(Request[c]) /\ rxbuf = T[n + 1] /\ Rest(toBoard, T, n + 1)
      /\ n < l
      /\ toHost = <<>> /\ sending = <<>> /\ reply[c] = "" /\ countMSG[c] = 0
  BY <1>2, <1>3 DEF Awaits
<1>0. n \in Nat /\ n + 1 \in Int /\ (n > 0 \/ n = 0)
  OBVIOUS
<1>5. toBoard \in Seq(Bytes) /\ n + 1 \in Int
  BY <1>0 DEF TypeOK
<1>6. ~Ignores
  <2>1. T[1] = "{"
    BY <1>1, TextShape
  <2>2. 0 + 1 = 1
    OBVIOUS
  <2>3. bufferlength = 0 => rxbuf = "{"
    BY <1>4, <2>1, <2>2
  <2> QED
    BY <2>3 DEF Ignores
<1>7. Stores(rxbuf)
  <2>1. CASE ~Stores(rxbuf)
    <3>1. n = 0
      <4>1. ~(n > 0)
        BY <1>4, <2>1 DEF Stores
      <4> QED
        BY <1>0, <4>1
    <3>2. T[1] = "{"
      BY <1>1, TextShape
    <3>3. rxbuf = "{"
      <4>1. 0 + 1 = 1
        OBVIOUS
      <4> QED
        BY <1>4, <3>1, <3>2, <4>1
    <3> QED
      BY <2>1, <3>3 DEF Stores
  <2> QED
    BY <2>1
<1>8. \A i \in 1 .. (n + 1) : LineBuffer'[i - 1] = T[i]
  <2>1. bufferlength < Len(T) /\ rxbuf = T[bufferlength + 1] /\ HoldsStart(Request[c])
    BY <1>2, <1>4
  <2> QED
    BY <1>1, <1>4, <1>7, <2>1, StartGrows
<1>9. ASSUME NEW t \in Requests, GoesOn(t) PROVE Awaits(c, n + 1)' /\ n + 1 \in 0 .. 4
  <2>1. /\ bufferlength' = n + 1 /\ toBoard # <<>> /\ UNCHANGED <<isr, sending>>
    BY <1>4, <1>9 DEF GoesOn
  <2>2. n + 1 < Len(T)
    BY <1>1, <1>4, <1>5, <2>1, RestTail
  <2>3. HoldsStart(Request[c])'
    BY <1>8, <2>1 DEF HoldsStart
  <2>4. n + 1 \in 0 .. 4
    <3>1. n + 1 < l
      BY <1>2, <2>2
    <3> QED
      BY <1>0, <3>1
  <2> QED
    BY <1>3, <1>4, <2>1, <2>2, <2>3, <2>4 DEF Awaits
<1>10. ASSUME NEW t \in Requests, Completes(t),
              \A i \in 1 .. (bufferlength + 1) : LineBuffer'[i - 1] = Text(t)[i]
       PROVE  Reads(c, 0)'
  <2>1. /\ rxbuf = "}" /\ bufferlength + 1 = Len(Text(t)) /\ isr' = "replying" /\ servo' = t
        /\ sending' = IF t = "TOGGLE" THEN ToggleDone ELSE Done
    BY <1>10 DEF Completes
  <2>2. n + 1 = l
    <3>1. CASE n + 1 # l
      <4>1. n + 1 \in 1 .. (l - 1)
        <5>1. n < l
          BY <1>4
        <5>2. \A m \in {3, 4} : \A x \in Nat : x < m /\ x + 1 # m => x + 1 \in 1 .. (m - 1)
          OBVIOUS
        <5> QED
          BY <1>0, <3>1, <5>1, <5>2
      <4>2. T[n + 1] # "}"
        BY <1>1, <1>2, <4>1, TextShape
      <4> QED
        BY <1>4, <2>1, <4>2
    <3> QED
      BY <3>1
  <2>3. t = Request[c]
    <3>1. 2 \in 1 .. (n + 1)
      BY <1>2, <2>2
    <3>2. LineBuffer'[2 - 1] = T[2] /\ LineBuffer'[2 - 1] = Text(t)[2]
      BY <1>4, <1>8, <1>10, <3>1
    <3> QED
      BY <1>1, <3>2, TextsDiffer
  <2>4. toBoard = <<>>
    BY <1>1, <1>2, <1>4, <1>5, <2>2, RestEnds
  <2>5. sending' = Answer(Request[c])
    BY <2>1, <2>3 DEF Answer
  <2>6. PICK f \in {1, 2} : /\ f = Opening(Request[c]) /\ Answer(Request[c]) \in Seq(Bytes)
                            /\ Len(Answer(Request[c])) = f + 2
    BY <1>1, AnswerShape
  <2>7. Len(Answer(Request[c])) \in Nat
    BY <2>6
  <2>8. Rest(Answer(Request[c]), Answer(Request[c]), 0) /\ Carries(<<>>, Answer(Request[c]), 0)
    <3>1. <<>> \in Seq(Bytes) /\ 0 \in Int
      OBVIOUS
    <3> QED
      BY <2>6, <2>7, <3>1, RestEnds
  <2>9. toHost' = <<>> /\ 0 + Len(toHost') = 0
    <3>1. Len(<<>>) = 0 /\ 0 + 0 = 0
      OBVIOUS
    <3> QED
      BY <1>3, <1>4, <3>1
  <2>10. 0 < Opening(Request[c]) /\ ~(Opening(Request[c]) <= 0)
    BY <2>6
  <2> QED
    BY <1>3, <1>4, <2>1, <2>3, <2>4, <2>5, <2>8, <2>9, <2>10 DEF Reads
<1>11. 0 \in 0 .. 4
  OBVIOUS
<1> QED
  BY <1>6, <1>9, <1>10, <1>11, Received

\* The exchange of a call does not depend on where the call is.
LEMMA ExchangeSame ==
  ASSUME UNCHANGED <<toBoard, toHost, reply, countMSG, rxbuf, LineBuffer, bufferlength, isr,
                     sending, servo>>
  PROVE  \A c \in Calls : \A n \in 0 .. 4 :
           (Awaits(c, n) => Awaits(c, n)') /\ (Reads(c, n) => Reads(c, n)')
<1> SUFFICES ASSUME NEW c \in Calls, NEW n \in 0 .. 4
             PROVE  (Awaits(c, n) => Awaits(c, n)') /\ (Reads(c, n) => Reads(c, n)')
  OBVIOUS
<1>1. Awaits(c, n) => Awaits(c, n)'
  BY DEF Awaits, HoldsStart
<1>2. Reads(c, n) => Reads(c, n)'
  BY DEF Reads
<1> QED
  BY <1>1, <1>2

\* A byte for the board leaves the line, or one of the answer enters it.
LEMMA ExchangeBoard ==
  ASSUME TypeOK, WireInv, BufferInv, BufferSuffices, ExchangeInv,
         BoardSteps \/ Arrives \/ CtsMoves
  PROVE  ExchangeInv'
<1>1. UNCHANGED <<call, reply, countMSG, result>> /\ UNCHANGED hostVars
  BY DEF BoardSteps, Arrives, CtsMoves, hostVars
<1>2. toHost \in Seq(Bytes) /\ toBoard \in Seq(Bytes) /\ sending \in Seq(Bytes)
  BY DEF TypeOK
<1>3. ASSUME NEW c \in Calls, UnderWay(c) PROVE \E n \in 0 .. 4 : Awaits(c, n) \/ Reads(c, n)
  BY <1>3 DEF ExchangeInv
<1>4. CASE Arrives
  <2>1. /\ toBoard # <<>> /\ toBoard' = Tail(toBoard) /\ rxbuf' = Head(toBoard)
        /\ rxbuf = NoByte \/ sending # <<>>
        /\ UNCHANGED <<toHost, LineBuffer, bufferlength, isr, sending>>
    BY <1>4 DEF Arrives, ByteArrives
  <2>2. rxbuf' # NoByte
    BY <1>2, <2>1, SeqEnds, FirmwareAssumption
  <2>3. ~AllQuiet
    BY <2>1 DEF AllQuiet
  <2>4. ASSUME NEW c \in Calls, UnderWay(c) PROVE \E n \in 0 .. 4 : Awaits(c, n)' \/ Reads(c, n)'
    <3>1. PICK n \in 0 .. 4 : Awaits(c, n)
      BY <1>3, <2>1, <2>4 DEF Reads
    <3>2. Rest(toBoard, Text(Request[c]), n)
      BY <2>1, <3>1 DEF Awaits
    <3>3. n \in Int
      OBVIOUS
    <3>4. rxbuf' = Text(Request[c])[n + 1] /\ Rest(toBoard', Text(Request[c]), n + 1)
      BY <1>2, <2>1, <3>2, <3>3, RequestOf, RestTail
    <3>5. Awaits(c, n)'
      BY <1>1, <2>1, <2>2, <3>1, <3>4 DEF Awaits, HoldsStart
    <3> QED
      BY <3>5
  <2> QED
    BY <1>1, <2>1, <2>3, <2>4, ExchangeFrame
<1>5. CASE CtsMoves
  <2>1. UNCHANGED <<toBoard, toHost, rxbuf, LineBuffer, bufferlength, isr, sending, servo>>
    BY <1>5 DEF CtsMoves, CtsChanges, lineVars
  <2>2. \A c \in Calls : \A n \in 0 .. 4 :
          /\ Awaits(c, n) => Awaits(c, n)'
          /\ Reads(c, n) => Reads(c, n)'
    BY <1>1, <2>1, ExchangeSame
  <2> QED
    BY <1>1, <1>3, <2>1, <2>2, ExchangeFrame DEF AllQuiet
<1>6. CASE ReceiveByte
  <2>1. rxbuf # NoByte /\ UNCHANGED toHost
    BY <1>6 DEF ReceiveByte, lineVars
  <2>2. ~AllQuiet
    BY <2>1 DEF AllQuiet
  <2>3. ASSUME NEW c \in Calls, UnderWay(c) PROVE \E n \in 0 .. 4 : Awaits(c, n)' \/ Reads(c, n)'
    <3>1. PICK n \in 0 .. 4 : Awaits(c, n)
      BY <1>3, <2>1, <2>3 DEF Reads
    <3> QED
      BY <1>1, <1>6, <3>1, AwaitsReceive
  <2> QED
    BY <1>1, <2>1, <2>2, <2>3, ExchangeFrame
<1>7. CASE SendByte
  <2>1. /\ isr = "replying" /\ sending # <<>> /\ sending' = Tail(sending)
        /\ toHost' = Append(toHost, Head(sending))
        /\ UNCHANGED <<toBoard, rxbuf, bufferlength, isr, servo>>
    BY <1>7 DEF SendByte
  <2>2. ~AllQuiet
    BY <2>1 DEF AllQuiet
  <2>3. Head(sending) \in Bytes
    BY <1>2, <2>1, SeqEnds
  <2>4. toHost' # <<>> /\ Len(toHost') = Len(toHost) + 1 /\ Len(toHost) \in Nat
    BY <1>2, <2>1, <2>3, AppendEnds, EmptySeq
  <2>5. ASSUME NEW c \in Calls, UnderWay(c) PROVE \E n \in 0 .. 4 : Awaits(c, n)' \/ Reads(c, n)'
    <3>1. PICK k \in 0 .. 4 : Reads(c, k)
      BY <1>3, <2>1, <2>5 DEF Awaits
    <3>2. PICK a : a = Answer(Request[c])
      OBVIOUS
    <3>3. Len(a) \in Nat
      <4>1. PICK f \in {1, 2} : Len(a) = f + 2
        BY <3>2, RequestOf, AnswerShape
      <4> QED
        BY <4>1
    <3>4. k \in Int /\ k + Len(toHost) \in Int /\ k + Len(toHost') = (k + Len(toHost)) + 1
      BY <2>4
    <3>5. Carries(toHost, a, k) /\ Rest(sending, a, k + Len(toHost))
      BY <3>1, <3>2 DEF Reads
    <3>6. /\ Head(sending) = a[(k + Len(toHost)) + 1]
          /\ Rest(sending', a, (k + Len(toHost)) + 1)
      BY <1>2, <2>1, <3>3, <3>4, <3>5, RestTail
    <3>7. Carries(toHost', a, k)
      BY <1>2, <2>1, <2>3, <3>4, <3>5, <3>6, CarriesAppend
    <3>8. Rest(sending', a, k + Len(toHost'))
      BY <3>4, <3>6
    <3>9. Reads(c, k)'
      BY <1>1, <2>1, <3>1, <3>2, <3>7, <3>8 DEF Reads
    <3> QED
      BY <3>9
  <2> QED
    BY <1>1, <2>2, <2>4, <2>5, ExchangeFrame
<1>8. CASE EndMessage
  <2>1. /\ isr = "replying" /\ bufferlength' = 0
        /\ UNCHANGED <<toBoard, toHost, rxbuf, sending, servo>>
    BY <1>8 DEF EndMessage, lineVars
  <2>2. isr' = "idle"
    BY <1>8 DEF EndMessage
  <2>3. \A i \in 1 .. bufferlength' : FALSE
    BY <2>1
  <2>4. ASSUME NEW c \in Calls, NEW n \in 0 .. 4
        PROVE  (Awaits(c, n) => Awaits(c, n)') /\ (Reads(c, n) => Reads(c, n)')
    <3>1. Awaits(c, n) => Awaits(c, n)'
      BY <1>1, <2>1, <2>2, <2>3 DEF Awaits, HoldsStart
    <3>2. Reads(c, n) => Reads(c, n)'
      BY <1>1, <2>1, <2>2 DEF Reads
    <3> QED
      BY <3>1, <3>2
  <2> QED
    BY <1>1, <1>3, <2>1, <2>4, ExchangeFrame DEF AllQuiet
<1> QED
  BY <1>4, <1>5, <1>6, <1>7, <1>8 DEF BoardSteps, BoardStep

\* A call reads a complete answer when nothing of it is left.
LEMMA CompleteReads ==
  ASSUME TypeOK, NEW c \in Calls, NEW k \in 0 .. 4, Awaits(c, k) \/ Reads(c, k), Complete(c)
  PROVE  /\ toBoard = <<>> /\ toHost = <<>> /\ sending = <<>> /\ rxbuf = NoByte
         /\ isr = "idle" => bufferlength = 0
         /\ servo = Request[c]
<1>1. Reads(c, k)
  BY DEF Awaits, Complete
<1>2. PICK a : a = Answer(Request[c])
  OBVIOUS
<1>3. PICK f \in {1, 2} :
           /\ f = Opening(Request[c])
           /\ a \in Seq(Bytes) /\ Len(a) = f + 2
           /\ a[f] = "{" /\ a[f + 1] = "DONE" /\ a[f + 2] = "}"
           /\ f = 2 => a[1] = "ENTRO"
  BY <1>2, RequestOf, AnswerShape
<1>4. /\ toBoard = <<>> /\ rxbuf = NoByte /\ servo = Request[c]
      /\ isr = "idle" => bufferlength = 0
      /\ Rest(sending, a, k + Len(toHost))
      /\ reply[c] = IF k < f THEN "" ELSE a[k]
      /\ countMSG[c] = IF f <= k /\ k < Len(a) THEN 1 ELSE 0
  BY <1>1, <1>2, <1>3 DEF Reads
<1>5. ~(k < f) /\ ~(f <= k /\ k < Len(a))
  <2>1. reply[c] = "}" /\ countMSG[c] = 0
    BY DEF Complete
  <2>2. ~(k < f)
    BY <1>4, <2>1
  <2>3. 0 # 1
    OBVIOUS
  <2>4. ~(f <= k /\ k < Len(a))
    BY <1>4, <2>1, <2>3
  <2> QED
    BY <2>2, <2>4
<1>6. k \in Nat /\ f \in Nat /\ Len(a) \in Nat
  <2>1. k \in Nat /\ f \in Nat /\ f + 2 \in Nat
    OBVIOUS
  <2> QED
    BY <1>3, <2>1
<1>7. k >= Len(a)
  BY <1>5, <1>6
<1>8. toHost \in Seq(Bytes) /\ sending \in Seq(Bytes)
  BY DEF TypeOK
<1>9. Len(toHost) \in Nat /\ Len(sending) \in Nat
  BY <1>8, LenProperties
<1>10. Len(sending) = Len(a) - (k + Len(toHost))
  BY <1>4 DEF Rest
<1>11. Len(toHost) = 0 /\ Len(sending) = 0
  BY <1>6, <1>7, <1>9, <1>10
<1>12. toHost = <<>> /\ sending = <<>>
  BY <1>8, <1>11, EmptySeq
<1> QED
  BY <1>4, <1>12

\* What a call reads is the next byte of its answer.
LEMMA ReadsNext ==
  ASSUME TypeOK, NEW c \in Calls, NEW k \in 0 .. 4, Reads(c, k), GetChar(c), UNCHANGED boardVars
  PROVE  k + 1 \in 0 .. 4 /\ Reads(c, k + 1)'
<1>1. PICK a : a = Answer(Request[c])
  OBVIOUS
<1>2. PICK f \in {1, 2} :
           /\ f = Opening(Request[c])
           /\ a \in Seq(Bytes) /\ Len(a) = f + 2
           /\ a[f] = "{" /\ a[f + 1] = "DONE" /\ a[f + 2] = "}"
           /\ f = 2 => a[1] = "ENTRO"
  BY <1>1, RequestOf, AnswerShape
<1>3. /\ toBoard = <<>> /\ rxbuf = NoByte /\ servo = Request[c]
      /\ isr = "idle" => bufferlength = 0
      /\ Carries(toHost, a, k)
      /\ Rest(sending, a, k + Len(toHost))
      /\ reply[c] = IF k < f THEN "" ELSE a[k]
      /\ countMSG[c] = IF f <= k /\ k < Len(a) THEN 1 ELSE 0
  BY <1>1, <1>2 DEF Reads
<1>4. /\ toHost # <<>> /\ toHost' = Tail(toHost) /\ Keep(c, Head(toHost)) /\ UNCHANGED toBoard
  BY DEF GetChar, Keep
<1>5. UNCHANGED <<rxbuf, servo, isr, bufferlength, sending>>
  BY DEF boardVars
<1>6. /\ toHost \in Seq(Bytes) /\ sending \in Seq(Bytes)
      /\ reply \in [Calls -> Bytes \cup {NoChar, ""}] /\ countMSG \in [Calls -> Int]
  BY DEF TypeOK
<1>7. /\ Len(toHost) \in Nat \ {0} /\ Len(sending) \in Nat
      /\ Len(toHost') = Len(toHost) - 1
  BY <1>4, <1>6, SeqEnds, LenProperties
<1>8. k \in Int /\ k \in Nat
  OBVIOUS
<1>9. Head(toHost) = a[k + 1] /\ Carries(toHost', a, k + 1)
  BY <1>3, <1>4, <1>6, <1>8, CarriesTail
<1>10. k + Len(toHost) = (k + 1) + Len(toHost')
  BY <1>7, <1>8
<1>11. Len(sending) = (f + 2) - (k + Len(toHost))
  BY <1>2, <1>3 DEF Rest
<1>12. k < f + 2 /\ k + 1 \in 0 .. 4
  BY <1>7, <1>8, <1>11
<1>13. Rest(sending', a, (k + 1) + Len(toHost'))
  BY <1>3, <1>5, <1>10
<1> DEFINE char == Head(toHost)
<1>14. /\ reply' = IF reply[c] # "" \/ char = "{" THEN [reply EXCEPT ![c] = char] ELSE reply
       /\ reply[c] = "" /\ char # "{" => countMSG' = countMSG
  BY <1>4 DEF Keep
<1>15. /\ reply[c] # "" \/ char = "{" =>
            /\ char = "{" => countMSG' = [countMSG EXCEPT ![c] = countMSG[c] + 1]
            /\ char = "}" => countMSG' = [countMSG EXCEPT ![c] = countMSG[c] - 1]
            /\ char # "{" /\ char # "}" => countMSG' = [countMSG EXCEPT ![c] = countMSG[c]]
  BY <1>4 DEF Keep
<1> HIDE DEF char
<1>16. char = a[k + 1]
  BY <1>9 DEF char
<1>17. /\ reply'[c] = IF k + 1 < f THEN "" ELSE a[k + 1]
       /\ countMSG'[c] = IF f <= k + 1 /\ k + 1 < f + 2 THEN 1 ELSE 0
  <2>1. CASE k + 1 < f
    <3>1. k = 0 /\ f = 2 /\ k < f
      BY <1>8, <2>1
    <3>2. char = "ENTRO"
      <4>1. k + 1 = 1
        BY <3>1
      <4> QED
        BY <1>2, <1>16, <3>1, <4>1
    <3>3. reply[c] = "" /\ countMSG[c] = 0
      <4>1. ~(f <= k /\ k < Len(a))
        BY <3>1
      <4> QED
        BY <1>3, <3>1, <4>1
    <3>4. reply'[c] = "" /\ countMSG'[c] = 0
      BY <1>14, <3>2, <3>3
    <3>5. ~(f <= k + 1)
      BY <2>1, <3>1
    <3> QED
      BY <2>1, <3>4, <3>5
  <2>2. CASE k + 1 = f
    <3>1. k < f /\ ~(f <= k) /\ ~(k + 1 < f) /\ f <= k + 1 /\ k + 1 < f + 2
      BY <1>8, <2>2
    <3>2. reply[c] = "" /\ countMSG[c] = 0 /\ char = "{"
      BY <1>2, <1>3, <1>16, <2>2, <3>1
    <3>3. reply' = [reply EXCEPT ![c] = char] /\ countMSG' = [countMSG EXCEPT ![c] = countMSG[c] + 1]
      BY <1>14, <1>15, <3>2
    <3>4. reply'[c] = "{" /\ countMSG'[c] = countMSG[c] + 1
      BY <1>6, <3>2, <3>3
    <3>5. countMSG'[c] = 1
      <4>1. \A x, y : x = 0 /\ y = x + 1 => y = 1
        OBVIOUS
      <4> QED
        BY <3>2, <3>4, <4>1
    <3> QED
      BY <1>2, <2>2, <3>1, <3>4, <3>5
  <2>3. CASE k = f
    <3>1. ~(k < f) /\ f <= k /\ k < f + 2 /\ ~(k + 1 < f) /\ f <= k + 1 /\ k + 1 < f + 2
      BY <1>8, <2>3
    <3>2. reply[c] = "{" /\ countMSG[c] = 1 /\ char = "DONE"
      BY <1>2, <1>3, <1>16, <2>3, <3>1
    <3>3. reply' = [reply EXCEPT ![c] = char] /\ countMSG' = [countMSG EXCEPT ![c] = countMSG[c]]
      BY <1>14, <1>15, <3>2
    <3>4. reply'[c] = char /\ countMSG'[c] = 1
      BY <1>6, <3>2, <3>3
    <3> QED
      BY <1>16, <3>1, <3>4
  <2>4. CASE k = f + 1
    <3>1. /\ ~(k < f) /\ f <= k /\ k < f + 2 /\ ~(k + 1 < f) /\ ~(k + 1 < f + 2)
          /\ k + 1 = f + 2
      BY <1>8, <2>4
    <3>2. reply[c] = "DONE" /\ countMSG[c] = 1 /\ char = "}"
      BY <1>2, <1>3, <1>16, <2>4, <3>1
    <3>3. reply' = [reply EXCEPT ![c] = char] /\ countMSG' = [countMSG EXCEPT ![c] = countMSG[c] - 1]
      BY <1>14, <1>15, <3>2
    <3>4. reply'[c] = char /\ countMSG'[c] = countMSG[c] - 1
      BY <1>6, <3>2, <3>3
    <3>5. countMSG'[c] = 0
      <4>1. \A x, y : x = 1 /\ y = x - 1 => y = 0
        OBVIOUS
      <4> QED
        BY <3>2, <3>4, <4>1
    <3> QED
      BY <1>16, <3>1, <3>4, <3>5
  <2>5. k + 1 < f \/ k + 1 = f \/ k = f \/ k = f + 1
    <3>1. k < f + 2
      BY <1>12
    <3> QED
      BY <1>8, <3>1
  <2> QED
    BY <2>1, <2>2, <2>3, <2>4, <2>5
<1>18. Reads(c, k + 1)'
  BY <1>1, <1>2, <1>3, <1>4, <1>5, <1>9, <1>13, <1>17 DEF Reads
<1> QED
  BY <1>12, <1>18

LEMMA ExchangeHost ==
  ASSUME TypeOK, ExchangeInv, OneAtATime, NEW c \in Calls, HostSteps(c)
  PROVE  ExchangeInv'
<1>1. UNCHANGED boardVars /\ HostStep(c)
  BY DEF HostSteps
<1>2. UNCHANGED <<rxbuf, LineBuffer, bufferlength, isr, sending, servo>>
  BY <1>1 DEF boardVars
<1>3. \A d \in Calls : d # c => /\ call'[d] = call[d] /\ reply'[d] = reply[d]
                                /\ countMSG'[d] = countMSG[d] /\ result'[d] = result[d]
  BY <1>1 DEF TypeOK, HostStep, Begin, OpenFails, SetupFails, CheckReply, DataAvail, GetChar,
       GetCharTimesOut, Keep
<1>4. ASSUME NEW d \in Calls, UnderWay(d) PROVE \E n \in 0 .. 4 : Awaits(d, n) \/ Reads(d, n)
  BY <1>4 DEF ExchangeInv
<1>5. toBoard \in Seq(Bytes) /\ call \in [Calls -> {"none", "check", "avail", "getchar", "returned"}]
  BY DEF TypeOK
<1>6. CASE Begin(c)
  <2>1. /\ call[c] = "none" /\ call' = [call EXCEPT ![c] = "check"]
        /\ toBoard' = toBoard \o Text(Request[c])
        /\ UNCHANGED <<toHost, reply, countMSG, result>>
    BY <1>6 DEF Begin
  <2>2. UnderWay(c)'
    BY <1>5, <2>1 DEF UnderWay
  <2>3. \A d \in Calls : ~UnderWay(d)
    BY <2>1, <2>2 DEF OneAtATime
  <2>4. \A d \in Calls : UnderWay(d)' => d = c
    BY <1>3, <2>3 DEF UnderWay
  <2>5. AllQuiet
    BY <2>3 DEF ExchangeInv
  <2>6. toBoard' = Text(Request[c])
    BY <2>1, <2>5, RequestOf, ConcatEmptySeq DEF AllQuiet
  <2>7. Rest(toBoard', Text(Request[c]), 0)
    <3>1. 0 \in Int
      OBVIOUS
    <3> QED
      BY <2>6, <3>1, RequestOf, RestEnds
  <2>8. 0 < Len(Text(Request[c]))
    <3>1. PICK l \in {3, 4} : l = Len(Text(Request[c]))
      BY RequestOf
    <3>2. 0 < l
      OBVIOUS
    <3> QED
      BY <3>1, <3>2
  <2>9. \A i \in 1 .. 0 : FALSE
    OBVIOUS
  <2>10. reply[c] = "" /\ countMSG[c] = 0
    BY <2>1 DEF ExchangeInv
  <2>11. Awaits(c, 0)'
    BY <1>2, <2>1, <2>5, <2>7, <2>8, <2>9, <2>10 DEF AllQuiet, Awaits, HoldsStart
  <2>12. \A d \in Calls : UnderWay(d)' => \E n \in 0 .. 4 : Awaits(d, n)' \/ Reads(d, n)'
    <3>1. 0 \in 0 .. 4
      OBVIOUS
    <3> QED
      BY <2>4, <2>11, <3>1
  <2>13. \A d \in Calls : call'[d] # "getchar"
    BY <1>5, <2>1, <2>3 DEF UnderWay
  <2>14. \A d \in Calls : call'[d] = "none" => reply'[d] = "" /\ countMSG'[d] = 0 /\ result'[d] = 1
    BY <1>5, <2>1 DEF ExchangeInv
  <2> QED
    BY <2>2, <2>4, <2>12, <2>13, <2>14 DEF ExchangeInv
<1>7. ASSUME call'[c] # "none", UNCHANGED <<toBoard, toHost, reply, countMSG>>,
             UnderWay(c)' <=> UnderWay(c), call'[c] = "getchar" => toHost # <<>>
      PROVE  ExchangeInv'
  <2>1. \A d \in Calls : UnderWay(d)' <=> UnderWay(d)
    BY <1>3, <1>7 DEF UnderWay
  <2>2. \A d \in Calls : \A n \in 0 .. 4 :
          /\ Awaits(d, n) => Awaits(d, n)'
          /\ Reads(d, n) => Reads(d, n)'
    BY <1>2, <1>7, ExchangeSame
  <2>3. \A d \in Calls : call'[d] = "none" => reply'[d] = "" /\ countMSG'[d] = 0 /\ result'[d] = 1
    BY <1>3, <1>7 DEF ExchangeInv
  <2>4. \A d \in Calls : call'[d] = "getchar" => toHost' # <<>>
    BY <1>3, <1>7 DEF ExchangeInv
  <2>5. AllQuiet => AllQuiet'
    BY <1>2, <1>7 DEF AllQuiet
  <2> QED
    BY <1>4, <2>1, <2>2, <2>3, <2>4, <2>5 DEF ExchangeInv
<1>8. CASE OpenFails(c) \/ SetupFails(c)
  <2>1. call[c] = "none" /\ call' = [call EXCEPT ![c] = "returned"]
        /\ UNCHANGED <<toBoard, toHost, reply, countMSG>>
    BY <1>8 DEF OpenFails, SetupFails, lineVars
  <2>2. call'[c] = "returned"
    BY <1>5, <2>1
  <2> QED
    BY <1>7, <2>1, <2>2 DEF UnderWay
<1>9. CASE CheckReply(c) /\ ~Complete(c)
  <2>1. call[c] = "check" /\ call' = [call EXCEPT ![c] = "avail"]
        /\ UNCHANGED <<toBoard, toHost, reply, countMSG>>
    BY <1>9 DEF CheckReply, lineVars
  <2>2. call'[c] = "avail"
    BY <1>5, <2>1
  <2> QED
    BY <1>7, <2>1, <2>2 DEF UnderWay
<1>10. CASE CheckReply(c) /\ Complete(c)
  <2>1. call[c] = "check" /\ call' = [call EXCEPT ![c] = "returned"]
        /\ UNCHANGED <<toBoard, toHost, reply, countMSG>>
    BY <1>10 DEF CheckReply, lineVars
  <2>2. call'[c] = "returned"
    BY <1>5, <2>1
  <2>3. UnderWay(c)
    BY <2>1 DEF UnderWay
  <2>4. \A d \in Calls : ~UnderWay(d)'
    <3>1. ASSUME NEW d \in Calls PROVE ~UnderWay(d)'
      <4>1. CASE d = c
        BY <2>2, <4>1 DEF UnderWay
      <4>2. CASE d # c
        <5>1. ~UnderWay(d)
          BY <2>3, <4>2 DEF ExchangeInv
        <5> QED
          BY <1>3, <4>2, <5>1 DEF UnderWay
      <4> QED
        BY <4>1, <4>2
    <3> QED
      BY <3>1
  <2>5. /\ toBoard = <<>> /\ toHost = <<>> /\ sending = <<>> /\ rxbuf = NoByte
        /\ isr = "idle" => bufferlength = 0
    BY <1>4, <1>10, <2>3, CompleteReads
  <2>6. AllQuiet'
    BY <1>2, <2>1, <2>5 DEF AllQuiet
  <2>7. \A d \in Calls : call'[d] = "none" => reply'[d] = "" /\ countMSG'[d] = 0 /\ result'[d] = 1
    BY <1>3, <2>2 DEF ExchangeInv
  <2>8. \A d \in Calls : call'[d] # "getchar"
    BY <2>4 DEF UnderWay
  <2> QED
    BY <2>4, <2>6, <2>7, <2>8 DEF ExchangeInv
<1>11. CASE DataAvail(c)
  <2>1. call[c] = "avail"
        /\ call' = [call EXCEPT ![c] = IF toHost = <<>> THEN "check" ELSE "getchar"]
        /\ UNCHANGED <<toBoard, toHost, reply, countMSG>>
    BY <1>11 DEF DataAvail, lineVars
  <2>2. call'[c] = IF toHost = <<>> THEN "check" ELSE "getchar"
    BY <1>5, <2>1
  <2> QED
    BY <1>7, <2>1, <2>2 DEF UnderWay
<1>12. CASE GetChar(c)
  <2>1. call[c] = "getchar" /\ toHost # <<>> /\ call' = [call EXCEPT ![c] = "avail"]
    BY <1>12 DEF GetChar, Keep
  <2>2. UnderWay(c) /\ call'[c] = "avail"
    BY <1>5, <2>1 DEF UnderWay
  <2>3. PICK k \in 0 .. 4 : Reads(c, k)
    BY <1>4, <2>1, <2>2 DEF Awaits
  <2>4. k + 1 \in 0 .. 4 /\ Reads(c, k + 1)'
    BY <1>1, <1>12, <2>3, ReadsNext
  <2>5. \A d \in Calls : UnderWay(d)' => d = c
    <3>1. ASSUME NEW d \in Calls, d # c PROVE ~UnderWay(d)'
      <4>1. ~UnderWay(d)
        BY <2>2, <3>1 DEF ExchangeInv
      <4> QED
        BY <1>3, <3>1, <4>1 DEF UnderWay
    <3> QED
      BY <3>1
  <2>6. UnderWay(c)'
    BY <2>2 DEF UnderWay
  <2>7. \A d \in Calls : UnderWay(d)' => \E n \in 0 .. 4 : Awaits(d, n)' \/ Reads(d, n)'
    BY <2>4, <2>5
  <2>8. \A d \in Calls : call'[d] = "none" => reply'[d] = "" /\ countMSG'[d] = 0 /\ result'[d] = 1
    BY <1>3, <2>2 DEF ExchangeInv
  <2>9. \A d \in Calls : call'[d] # "getchar"
    BY <2>2, <2>5 DEF UnderWay
  <2> QED
    BY <2>5, <2>6, <2>7, <2>8, <2>9 DEF ExchangeInv
<1>13. CASE GetCharTimesOut(c)
  BY <1>13 DEF GetCharTimesOut, ExchangeInv
<1> QED
  BY <1>1, <1>6, <1>8, <1>9, <1>10, <1>11, <1>12, <1>13 DEF HostStep

LEMMA ExchangeInit == Init => ExchangeInv
<1> SUFFICES ASSUME Init PROVE ExchangeInv
  OBVIOUS
<1>1. /\ call = [c \in Calls |-> "none"] /\ reply = [c \in Calls |-> ""]
      /\ countMSG = [c \in Calls |-> 0] /\ result = [c \in Calls |-> 1]
      /\ toBoard = <<>> /\ toHost = <<>> /\ sending = <<>> /\ rxbuf = NoByte /\ bufferlength = 0
  BY DEF Init, HostInit, FirmwareInit
<1>2. AllQuiet
  BY <1>1 DEF AllQuiet
<1>3. \A c \in Calls : ~UnderWay(c) /\ call[c] # "getchar"
  BY <1>1 DEF UnderWay
<1>4. \A c \in Calls : reply[c] = "" /\ countMSG[c] = 0 /\ result[c] = 1
  <2>1. \A c \in Calls : reply[c] = ""
    BY <1>1
  <2>2. \A c \in Calls : countMSG[c] = 0
    BY <1>1
  <2>3. \A c \in Calls : result[c] = 1
    BY <1>1
  <2> QED
    BY <2>1, <2>2, <2>3
<1> QED
  BY <1>2, <1>3, <1>4 DEF ExchangeInv

LEMMA ExchangeStep ==
  ASSUME TypeOK, WireInv, BufferInv, BufferSuffices, ExchangeInv, [Next /\ OneAtATime]_vars
  PROVE  ExchangeInv'
<1>1. CASE UNCHANGED vars
  <2>1. UNCHANGED <<toBoard, toHost, call, reply, countMSG, result, rxbuf, LineBuffer,
                    bufferlength, isr, sending, servo>>
    BY <1>1 DEF vars, lineVars, hostVars, boardVars
  <2>2. \A c \in Calls : \A n \in 0 .. 4 :
          (Awaits(c, n) => Awaits(c, n)') /\ (Reads(c, n) => Reads(c, n)')
    BY <2>1, ExchangeSame
  <2>3. \A c \in Calls : UnderWay(c) => \E n \in 0 .. 4 : Awaits(c, n)' \/ Reads(c, n)'
    BY <2>2 DEF ExchangeInv
  <2> QED
    BY <2>1, <2>3, ExchangeFrame DEF AllQuiet
<1> QED
  BY <1>1, ExchangeHost, ExchangeBoard DEF Next

ExchangeInd == TypeOK /\ WireInv /\ BufferInv /\ ExchangeInv

LEMMA ExchangeAlways ==
  ASSUME BufferSuffices
  PROVE  Spec /\ [][OneAtATime]_vars => []ExchangeInd
<1>1. Init => ExchangeInd
  BY TypeInit, WireInit, BufferInit, ExchangeInit DEF ExchangeInd
<1>2. ExchangeInd /\ [Next /\ OneAtATime]_vars => ExchangeInd'
  BY TypeStep, WireStep, BufferStep, ExchangeStep DEF ExchangeInd
<1>3. [Next]_vars /\ [OneAtATime]_vars => [Next /\ OneAtATime]_vars
  OBVIOUS
<1> QED
  BY <1>1, <1>2, <1>3, PTL DEF Spec

\* What a call that returns 0 leaves behind.
LEMMA ReturnStep ==
  ASSUME ExchangeInd, [Next]_vars, NEW c \in Calls, ~Returned(c), Returned(c)', result'[c] = 0
  PROVE  /\ servo = Request[c] /\ toBoard = <<>> /\ toHost = <<>> /\ sending = <<>>
         /\ rxbuf = NoByte
<1>1. TypeOK /\ ExchangeInv
  BY DEF ExchangeInd
<1>2. CheckReply(c) /\ Complete(c)
  <2>1. ASSUME NEW d \in Calls, HostSteps(d) PROVE CheckReply(c) /\ Complete(c)
    <3>1. HostStep(d)
      BY <2>1 DEF HostSteps
    <3>2. CASE OpenFails(d) \/ SetupFails(d)
      <4>1. call[d] = "none" /\ call' = [call EXCEPT ![d] = "returned"] /\ UNCHANGED result
        BY <3>2 DEF OpenFails, SetupFails
      <4>2. c = d
        BY <1>1, <4>1 DEF TypeOK, Returned
      <4>3. result'[c] = 1
        BY <1>1, <4>1, <4>2 DEF ExchangeInv
      <4>4. 1 # 0
        OBVIOUS
      <4> QED
        BY <4>3, <4>4
    <3>3. CASE ~(OpenFails(d) \/ SetupFails(d))
      BY <1>1, <3>1, <3>3 DEF HostStep, Begin, CheckReply, DataAvail, GetChar, GetCharTimesOut,
           Keep, TypeOK, Returned
    <3> QED
      BY <3>2, <3>3
  <2>2. CASE BoardSteps \/ Arrives \/ CtsMoves \/ UNCHANGED vars
    BY <2>2 DEF BoardSteps, Arrives, CtsMoves, vars, hostVars, Returned
  <2> QED
    BY <2>1, <2>2 DEF Next
<1>3. UnderWay(c)
  BY <1>2 DEF CheckReply, UnderWay
<1>4. PICK k \in 0 .. 4 : Awaits(c, k) \/ Reads(c, k)
  BY <1>1, <1>3 DEF ExchangeInv
<1> QED
  BY <1>1, <1>2, <1>4, CompleteReads

\* When calls do not overlap, a call that returns 0 leaves the servo where it
\* asked for, and nothing of its exchange behind on the line, whatever the calls
\* before it were and however slowly the bytes come.
THEOREM ReturnsMeanMoved ==
  ASSUME BufferSuffices
  PROVE  Spec /\ [][OneAtATime]_vars => ReturnsAfterMove
<1>1. ExchangeInd /\ [Next]_vars
        => [\A c \in Calls : ~Returned(c) /\ Returned(c)' /\ result'[c] = 0 =>
              servo = Request[c] /\ toBoard = <<>> /\ toHost = <<>> /\ sending = <<>>]_vars
  BY ReturnStep
<1> QED
  BY <1>1, ExchangeAlways, PTL DEF Spec, ReturnsAfterMove
=============================================================================
