----------------------------- MODULE SerialLine -----------------------------
(***************************************************************************)
(* The serial line between the ODROID (/dev/ttyS1) and the MSP430G2553,    *)
(* 9600 baud each way.  A byte is a token: the two braces that both sides  *)
(* count are tokens of their own, what stands between them is one or two,  *)
(* so that messages differ in length as they do in the code.               *)
(***************************************************************************)
EXTENDS Integers, Sequences, FiniteSets

VARIABLES
  toBoard,  \* bytes written by the ODROID and not yet received by the board
  toHost    \* bytes sent by the board and not yet read: the tty's input queue

lineVars == <<toBoard, toHost>>

\* handlingService(0) sends OPEN, (1) CLOSE, (2) TOGGLE.
Requests == {"OPEN", "CLOSE", "TOGGLE"}

\* What serialPuts writes, and messageProcessing compares with.
Text(r) ==
  CASE r = "OPEN"   -> <<"{", "OPEN", "}">>
    [] r = "CLOSE"  -> <<"{", "CLO", "SE", "}">>
    [] r = "TOGGLE" -> <<"{", "TOG", "GLE", "}">>

\* The literals of the board's answers; the one to TOGGLE has a word before its braces.
Done == <<"{", "DONE", "}">>
Error == <<"{", "ERROR", "}">>
ToggleDone == <<"ENTRO">> \o Done

Bytes == {"{", "}", "OPEN", "CLO", "SE", "TOG", "GLE", "DONE", "ERROR", "ENTRO"}
=============================================================================
