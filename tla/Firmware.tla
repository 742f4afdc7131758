------------------------------ MODULE Firmware ------------------------------
(***************************************************************************)
(* The program of the MSP430G2553 (handling-module-MSP430G2553/main.c).    *)
(* All of it runs in the receive interrupt: a byte is stored, and the one  *)
(* that balances the braces makes the routine execute the message and send *)
(* the whole answer before it returns.  The UART holds one received byte;  *)
(* while the routine sends, the next ones overwrite it.                    *)
(***************************************************************************)
EXTENDS SerialLine

CONSTANTS
  BufferSize,  \* sizeof LineBuffer
  NoByte       \* no byte in UCA0RXBUF, and the zero that ends a string

ASSUME FirmwareAssumption == BufferSize \in Nat \ {0} /\ NoByte \notin Bytes

VARIABLES
  rxbuf,          \* UCA0RXBUF, with its interrupt flag
  LineBuffer, bufferlength, bracketsCount,
  isr,            \* "idle", "replying", or "corrupt" once it wrote past LineBuffer
  sending,        \* what uartSend has still to send
  cts,            \* P2.0: while high, uartSend waits
  servo           \* the duty cycle, as the request it belongs to

boardVars == <<rxbuf, LineBuffer, bufferlength, bracketsCount, isr, sending, cts, servo>>

Indices == 0 .. (BufferSize - 1)

Cleared == [i \in Indices |-> NoByte]

\* main(): counters cleared, the servo moved to 0.09, interrupts enabled.
FirmwareInit ==
  /\ rxbuf = NoByte
  /\ LineBuffer = Cleared
  /\ bufferlength = 0
  /\ bracketsCount = 0
  /\ isr = "idle"
  /\ sending = <<>>
  /\ cts = FALSE
  /\ servo = "CLOSE"

(***************************************************************************)
(* A byte reaches the UART.  Apart from sending, the routine takes less    *)
(* than the time of two bytes (about 2 ms), so only while it sends does a  *)
(* byte overwrite another; one overwritten just after the last byte sent   *)
(* might as well have been overwritten just before it.                     *)
(***************************************************************************)
ByteArrives ==
  /\ toBoard # <<>>
  /\ rxbuf = NoByte \/ sending # <<>>
  /\ rxbuf' = Head(toBoard)
  /\ toBoard' = Tail(toBoard)
  /\ UNCHANGED <<toHost, LineBuffer, bufferlength, bracketsCount, isr, sending, cts, servo>>

\* strcmp(string, Text(r)) = 0: equal up to the zero that ends both.
Matches(buffer, r) ==
  /\ Len(Text(r)) < BufferSize
  /\ \A i \in 1 .. Len(Text(r)) : buffer[i - 1] = Text(r)[i]
  /\ buffer[Len(Text(r))] = NoByte

\* messageProcessing up to its calls of uartSend: the servo and the bytes to send.
messageProcessing(buffer) ==
  IF \E r \in Requests : Matches(buffer, r)
  THEN LET r == CHOOSE x \in Requests : Matches(buffer, x)
       IN  /\ servo' = r
           /\ sending' = IF r = "TOGGLE" THEN ToggleDone ELSE Done
  ELSE /\ sending' = Error
       /\ UNCHANGED servo

\* A slip in the interrupt routine: a closing brace is not counted.
NeverCloses(dato) == IF dato = "{" THEN bracketsCount + 1 ELSE bracketsCount

\* A slip in the interrupt routine: bytes before an opening brace are kept.
StoresAny(dato) == TRUE

\* A byte is kept when it opens a message or a message is open.
Stores(dato) == dato = "{" \/ bufferlength > 0

BracketsAfter(dato) ==
  CASE dato = "{" -> bracketsCount + 1
    [] dato = "}" -> bracketsCount - 1
    [] OTHER -> bracketsCount

\* USCI0RX_ISR with one byte, as far as the answer is known.
ReceiveByte ==
  /\ isr = "idle"
  /\ rxbuf # NoByte
  /\ rxbuf' = NoByte
  /\ IF ~Stores(rxbuf)
     THEN UNCHANGED <<LineBuffer, bufferlength, bracketsCount, isr, sending, servo>>
     ELSE IF bufferlength \notin Indices
     THEN /\ isr' = "corrupt"
          /\ UNCHANGED <<LineBuffer, bufferlength, bracketsCount, sending, servo>>
     ELSE /\ LineBuffer' = [LineBuffer EXCEPT ![bufferlength] = rxbuf]
          /\ bufferlength' = bufferlength + 1
          /\ bracketsCount' = BracketsAfter(rxbuf)
          /\ IF rxbuf = "}" /\ bracketsCount' = 0
             THEN isr' = "replying" /\ messageProcessing(LineBuffer')
             ELSE UNCHANGED <<isr, sending, servo>>
  /\ UNCHANGED <<lineVars, cts>>

\* One turn of uartSend's loop: it waits for CTS to be low.
SendByte ==
  /\ isr = "replying"
  /\ sending # <<>>
  /\ ~cts
  /\ toHost' = Append(toHost, Head(sending))
  /\ sending' = Tail(sending)
  /\ UNCHANGED <<toBoard, rxbuf, LineBuffer, bufferlength, bracketsCount, isr, cts, servo>>

\* A slip at the end of the interrupt routine: the buffer keeps the old message.
EndMessageNoMemset ==
  /\ isr = "replying"
  /\ sending = <<>>
  /\ bufferlength' = 0
  /\ bracketsCount' = 0
  /\ isr' = "idle"
  /\ UNCHANGED <<lineVars, rxbuf, LineBuffer, sending, cts, servo>>

\* The end of the routine after the answer: memset, counters cleared, return.
EndMessage ==
  /\ isr = "replying"
  /\ sending = <<>>
  /\ LineBuffer' = Cleared
  /\ bufferlength' = 0
  /\ bracketsCount' = 0
  /\ isr' = "idle"
  /\ UNCHANGED <<lineVars, rxbuf, sending, cts, servo>>

\* P2.0 goes up or down; it is only looked at while there is something to send.
CtsChanges ==
  /\ sending # <<>>
  /\ cts' = ~cts
  /\ UNCHANGED <<lineVars, rxbuf, LineBuffer, bufferlength, bracketsCount, isr, sending, servo>>

BoardStep == ReceiveByte \/ SendByte \/ EndMessage
=============================================================================
