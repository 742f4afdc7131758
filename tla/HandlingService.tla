--------------------------- MODULE HandlingService ---------------------------
(***************************************************************************)
(* handlingService of OpenService.cpp and CloseService.cpp: open the tty,  *)
(* write a request, and read until an answer has balanced braces.  Each    *)
(* call runs in the consumeService thread of its command; all calls of the *)
(* process share the tty's input queue, each has a descriptor of its own,  *)
(* and no call closes it.                                                  *)
(***************************************************************************)
EXTENDS SerialLine

CONSTANTS
  Calls,       \* the calls of handlingService
  Request,     \* what each asks for
  MaxFds       \* descriptors the process may have open on the tty

ASSUME HandlingAssumption ==
  /\ Request \in [Calls -> Requests]
  /\ MaxFds \in Nat

VARIABLES
  call,      \* where each call is
  reply,     \* the last char of the string reply, "" while it is empty
  countMSG,  \* opening braces it has kept, less the closing ones
  result,    \* what it returned: 0, or 1 when the tty could not be opened or set up
  fds,       \* descriptors open on the tty
  written    \* history: how many requests have been written

hostVars == <<call, reply, countMSG, result, fds, written>>

\* The char made of serialGetchar's -1 when nothing came in ten seconds.
NoChar == "0xFF"

Returned(c) == call[c] = "returned"

HostInit ==
  /\ call = [c \in Calls |-> "none"]
  /\ reply = [c \in Calls |-> ""]
  /\ countMSG = [c \in Calls |-> 0]
  /\ result = [c \in Calls |-> 1]
  /\ fds = 0
  /\ written = 0

\* serialOpen, wiringPiSetup and serialPuts, which writes the request in one piece.
Begin(c) ==
  /\ call[c] = "none"
  /\ fds < MaxFds
  /\ fds' = fds + 1
  /\ written' = written + 1
  /\ toBoard' = toBoard \o Text(Request[c])
  /\ call' = [call EXCEPT ![c] = "check"]
  /\ UNCHANGED <<toHost, reply, countMSG, result>>

\* serialOpen fails: return 1, with nothing written.
OpenFails(c) ==
  /\ call[c] = "none"
  /\ fds = MaxFds
  /\ call' = [call EXCEPT ![c] = "returned"]
  /\ UNCHANGED <<lineVars, reply, countMSG, result, fds, written>>

\* wiringPiSetup fails: return 1, with nothing written and the descriptor left open.
SetupFails(c) ==
  /\ call[c] = "none"
  /\ fds < MaxFds
  /\ fds' = fds + 1
  /\ call' = [call EXCEPT ![c] = "returned"]
  /\ UNCHANGED <<lineVars, reply, countMSG, result, written>>

\* A slip of mainTest.cpp: the reply keeps its first value "{}", which looks complete.
StaleComplete(c) == reply[c] \in {"", "}"} /\ countMSG[c] = 0

\* The condition of the break.
Complete(c) == reply[c] = "}" /\ countMSG[c] = 0

\* A slip at the end: serialClose is called after all.
CheckAndClose(c) ==
  /\ call[c] = "check"
  /\ call' = [call EXCEPT ![c] = IF Complete(c) THEN "returned" ELSE "avail"]
  /\ result' = IF Complete(c) THEN [result EXCEPT ![c] = 0] ELSE result
  /\ fds' = IF Complete(c) THEN fds - 1 ELSE fds
  /\ UNCHANGED <<lineVars, reply, countMSG, written>>

\* A slip in the loop: serialClose stands beside serialFlush, and runs on every turn.
CheckAndCloseEachTurn(c) ==
  /\ call[c] = "check"
  /\ call' = [call EXCEPT ![c] = IF Complete(c) THEN "returned" ELSE "avail"]
  /\ result' = IF Complete(c) THEN [result EXCEPT ![c] = 0] ELSE result
  /\ fds' = fds - 1
  /\ UNCHANGED <<lineVars, reply, countMSG, written>>

\* The head of the endless for: break and return 0, or wait 3 ms.
CheckReply(c) ==
  /\ call[c] = "check"
  /\ call' = [call EXCEPT ![c] = IF Complete(c) THEN "returned" ELSE "avail"]
  /\ result' = IF Complete(c) THEN [result EXCEPT ![c] = 0] ELSE result
  /\ UNCHANGED <<lineVars, reply, countMSG, fds, written>>

\* while (serialDataAvail(fd))
DataAvail(c) ==
  /\ call[c] = "avail"
  /\ call' = [call EXCEPT ![c] = IF toHost = <<>> THEN "check" ELSE "getchar"]
  /\ UNCHANGED <<lineVars, reply, countMSG, result, fds, written>>

\* The body of the inner loop: a char is kept from the first opening brace on.
Keep(c, char) ==
  /\ call' = [call EXCEPT ![c] = "avail"]
  /\ IF reply[c] # "" \/ char = "{"
     THEN /\ reply' = [reply EXCEPT ![c] = char]
          /\ countMSG' = [countMSG EXCEPT ![c] =
               CASE char = "{" -> @ + 1
                 [] char = "}" -> @ - 1
                 [] OTHER -> @]
     ELSE UNCHANGED <<reply, countMSG>>
  /\ UNCHANGED <<toBoard, result, fds, written>>

GetChar(c) ==
  /\ call[c] = "getchar"
  /\ toHost # <<>>
  /\ toHost' = Tail(toHost)
  /\ Keep(c, Head(toHost))

\* Another call has read what serialDataAvail saw, and nothing more comes.
GetCharTimesOut(c) ==
  /\ call[c] = "getchar"
  /\ toHost = <<>>
  /\ UNCHANGED toHost
  /\ Keep(c, NoChar)

HostStep(c) ==
  \/ Begin(c) \/ OpenFails(c) \/ SetupFails(c)
  \/ CheckReply(c) \/ DataAvail(c) \/ GetChar(c) \/ GetCharTimesOut(c)
=============================================================================
