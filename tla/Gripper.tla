------------------------------- MODULE Gripper -------------------------------
(***************************************************************************)
(* The calls of handlingService on the ODROID and the firmware of the      *)
(* board, over the serial line.                                            *)
(***************************************************************************)
EXTENDS HandlingService, Firmware

vars == <<lineVars, hostVars, boardVars>>

Init ==
  /\ toBoard = <<>>
  /\ toHost = <<>>
  /\ HostInit
  /\ FirmwareInit

HostSteps(c) == HostStep(c) /\ UNCHANGED boardVars

BoardSteps == BoardStep /\ UNCHANGED hostVars

Arrives == ByteArrives /\ UNCHANGED hostVars

CtsMoves == CtsChanges /\ UNCHANGED hostVars

\* Nothing comes to the board, and it has nothing to do.
BoardQuiet == toBoard = <<>> /\ rxbuf = NoByte /\ isr = "idle"

Finished == BoardQuiet /\ \A c \in Calls : Returned(c)

Next ==
  \/ \E c \in Calls : HostSteps(c)
  \/ BoardSteps
  \/ Arrives
  \/ CtsMoves
  \/ Finished /\ UNCHANGED vars

Spec == Init /\ [][Next]_vars

-----------------------------------------------------------------------------
\* Properties.

TypeOK ==
  /\ toBoard \in Seq(Bytes)
  /\ toHost \in Seq(Bytes)
  /\ call \in [Calls -> {"none", "check", "avail", "getchar", "returned"}]
  /\ reply \in [Calls -> Bytes \cup {NoChar, ""}]
  /\ countMSG \in [Calls -> Int]
  /\ result \in [Calls -> {0, 1}]
  /\ fds \in 0 .. MaxFds /\ written \in Nat
  /\ rxbuf \in Bytes \cup {NoByte}
  /\ LineBuffer \in [Indices -> Bytes \cup {NoByte}]
  /\ bufferlength \in 0 .. BufferSize
  /\ bracketsCount \in Int
  /\ isr \in {"idle", "replying", "corrupt"}
  /\ sending \in Seq(Bytes)
  /\ cts \in BOOLEAN
  /\ servo \in Requests

(***************************************************************************)
(* LineBuffer always holds the beginning of one request and zeros behind   *)
(* it, even when calls overlap and the board loses bytes while it answers: *)
(* so the missing bound check of the interrupt routine is never needed.    *)
(***************************************************************************)
BufferHoldsOneRequest ==
  /\ isr # "corrupt"
  /\ \E r \in Requests :
       /\ bufferlength <= Len(Text(r))
       /\ \A i \in 1 .. bufferlength : LineBuffer[i - 1] = Text(r)[i]
       /\ \A i \in Indices : i >= bufferlength => LineBuffer[i] = NoByte

\* The board never answers ERROR to what handlingService writes.
NeverError ==
  "ERROR" \notin {sending[i] : i \in DOMAIN sending} \cup {toHost[i] : i \in DOMAIN toHost}

(***************************************************************************)
(* When calls do not overlap, a call that returns 0 leaves the servo where *)
(* it asked for, and nothing of its exchange behind on the line.           *)
(***************************************************************************)
ReturnsAfterMove ==
  [][\A c \in Calls :
       ~Returned(c) /\ Returned(c)' /\ result'[c] = 0 =>
         servo = Request[c] /\ toBoard = <<>> /\ toHost = <<>> /\ sending = <<>>]_vars

Openings(s) == Cardinality({i \in DOMAIN s : s[i] = "{"})

\* Exchanges that no call has ended: the openings on the line, in the board, in answers.
OpenExchanges ==
  Openings(toBoard) + Openings(sending) + Openings(toHost)
  + (IF rxbuf = "{" THEN 1 ELSE 0)
  + (IF isr = "idle" /\ bufferlength > 0 THEN 1 ELSE 0)

(***************************************************************************)
(* A request gives at most one call its end.  Calls that overlap may share *)
(* the bytes of an answer, take each other's answer, or wait for ever, but *)
(* every call that returned 0 has used up one request written, and none    *)
(* still under way.                                                        *)
(***************************************************************************)
EachReturnUsesAnAnswer ==
  Cardinality({c \in Calls : Returned(c) /\ result[c] = 0}) + OpenExchanges <= written

\* Descriptors are never closed: the module serves MaxFds requests in its life.
ServesAtMostMaxFds == Cardinality({c \in Calls : Returned(c) /\ result[c] = 0}) <= MaxFds

-----------------------------------------------------------------------------
(***************************************************************************)
(* The parts of the inductive invariants that the proofs use.              *)
(***************************************************************************)

\* b is what a request has behind a, or the start of the next request.
Follows(a, b) ==
  \/ a = "}" /\ b = "{"
  \/ \E r \in Requests : \E i \in 1 .. (Len(Text(r)) - 1) : a = Text(r)[i] /\ b = Text(r)[i + 1]

\* What is on its way to the board is whole requests, but for the beginning of the first.
WireInv ==
  /\ \A i \in DOMAIN toBoard : i + 1 \in DOMAIN toBoard => Follows(toBoard[i], toBoard[i + 1])
  /\ toBoard # <<>> => toBoard[Len(toBoard)] = "}"
  /\ rxbuf # NoByte => IF toBoard = <<>> THEN rxbuf = "}" ELSE Follows(rxbuf, Head(toBoard))

\* LineBuffer begins as r does.
HoldsStart(r) == \A i \in 1 .. bufferlength : LineBuffer[i - 1] = Text(r)[i]

\* While no answer is under way, the next byte goes on with the request in LineBuffer.
BufferInv ==
  /\ \A i \in Indices : i >= bufferlength => LineBuffer[i] = NoByte
  /\ isr = "idle" =>
       /\ sending = <<>>
       /\ bracketsCount = IF bufferlength = 0 THEN 0 ELSE 1
       /\ bufferlength > 0 =>
            /\ rxbuf # NoByte \/ toBoard # <<>>
            /\ \E r \in Requests :
                 /\ bufferlength < Len(Text(r)) /\ HoldsStart(r)
                 /\ (IF rxbuf # NoByte THEN rxbuf ELSE Head(toBoard)) = Text(r)[bufferlength + 1]
  /\ isr = "replying" => \E r \in Requests : bufferlength = Len(Text(r)) /\ HoldsStart(r)
  /\ isr # "corrupt"

\* The calls that have kept the opening brace of an answer.
Heard == {c \in Calls : reply[c] # ""}

\* Each has used up an exchange of its own.
HeardInv ==
  /\ IsFiniteSet(Heard)
  /\ Cardinality(Heard) + OpenExchanges <= written
  /\ \A c \in Calls : result[c] = 0 => c \in Heard

\* Each request is written to a descriptor of its own.
WrittenInv == written <= fds

UnderWay(c) == call[c] \in {"check", "avail", "getchar"}

(***************************************************************************)
(* When calls do not overlap: a call starts when none is under way.        *)
(***************************************************************************)
OneAtATime == \A c \in Calls : call[c] = "none" /\ UnderWay(c)' => \A d \in Calls : ~UnderWay(d)

\* s has bytes of t from the one behind the n-th on, or all of them.
Carries(s, t, n) == \A i \in DOMAIN s : s[i] = t[n + i]

Rest(s, t, n) == Carries(s, t, n) /\ Len(s) = Len(t) - n

\* The board has kept n bytes of the request of c, the others are on their way.
Awaits(c, n) ==
  /\ toHost = <<>> /\ sending = <<>>
  /\ reply[c] = "" /\ countMSG[c] = 0
  /\ n < Len(Text(Request[c]))
  /\ isr = "idle" => bufferlength = n /\ HoldsStart(Request[c])
  /\ isr = "replying" => n = 0
  /\ IF rxbuf = NoByte THEN Rest(toBoard, Text(Request[c]), n)
     ELSE rxbuf = Text(Request[c])[n + 1] /\ Rest(toBoard, Text(Request[c]), n + 1)

Answer(r) == IF r = "TOGGLE" THEN ToggleDone ELSE Done

\* The place of the opening brace of an answer.
Opening(r) == IF r = "TOGGLE" THEN 2 ELSE 1

\* c has read k bytes of its answer, the others are on their way.
Reads(c, k) ==
  /\ toBoard = <<>> /\ rxbuf = NoByte /\ servo = Request[c]
  /\ isr = "idle" => bufferlength = 0
  /\ Carries(toHost, Answer(Request[c]), k)
  /\ Rest(sending, Answer(Request[c]), k + Len(toHost))
  /\ reply[c] = IF k < Opening(Request[c]) THEN "" ELSE Answer(Request[c])[k]
  /\ countMSG[c] = IF Opening(Request[c]) <= k /\ k < Len(Answer(Request[c])) THEN 1 ELSE 0

AllQuiet ==
  /\ toBoard = <<>> /\ rxbuf = NoByte
  /\ toHost = <<>> /\ sending = <<>>
  /\ isr = "idle" => bufferlength = 0

\* The exchange of the one call under way.
ExchangeInv ==
  /\ \A c, d \in Calls : UnderWay(c) /\ UnderWay(d) => c = d
  /\ \A c \in Calls : call[c] = "none" => reply[c] = "" /\ countMSG[c] = 0 /\ result[c] = 1
  /\ (\A c \in Calls : ~UnderWay(c)) => AllQuiet
  /\ \A c \in Calls : UnderWay(c) => \E n \in 0 .. 4 : Awaits(c, n) \/ Reads(c, n)
  /\ \A c \in Calls : call[c] = "getchar" => toHost # <<>>
=============================================================================
