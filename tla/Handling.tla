------------------------------ MODULE Handling ------------------------------
(***************************************************************************)
(* The handling module from the brain's events to the servo and back: the  *)
(* channel (CommunicationChannel), whose consumeService threads run        *)
(* execute of OpenService and CloseService (HandlingService), the serial   *)
(* line and the board (Firmware).                                          *)
(*                                                                         *)
(* A command is a call of handlingService.  Its thread is in "execute"     *)
(* from its creation until that call has returned.  The brain begins one   *)
(* group at a time, and Gripper says what is left to hold when it does     *)
(* not.                                                                    *)
(***************************************************************************)
EXTENDS Integers, Sequences, FiniteSets

CONSTANTS
  \* Of the channel.
  Commands, Groups, CommandGroup, CommandName, Begins, BeginGroup, StatusOf, ModuleIds,
  InitialId, Discipline, MaxInFlight, MayClose, NoCommand, NoReply,
  AssignOrder,  \* the order in which the brain assigns the commands
  \* Of the gripper.
  MaxFds, BufferSize, NoByte

VARIABLES
  commandsInfo, keys, working, sent, inbox, outbox, locked, net, moduleId, drainPc, drainCmd,
  jobs, fault

VARIABLES
  toBoard, toHost, call, reply, countMSG, result, fds, written, rxbuf, LineBuffer, bufferlength,
  bracketsCount, isr, sending, cts, servo

Channel == INSTANCE CommunicationChannel

\* execute calls handlingService(0) in OpenService and handlingService(1) in CloseService.
Request == [c \in Commands |-> IF CommandName[c] = "OPEN-GRIP" THEN "OPEN" ELSE "CLOSE"]

Grip == INSTANCE Gripper WITH Calls <- Commands

channelVars ==
  <<commandsInfo, keys, working, sent, inbox, outbox, locked, net, moduleId, drainPc, drainCmd,
    jobs, fault>>
hostVars == <<call, reply, countMSG, result, fds, written>>
gripVars ==
  <<toBoard, toHost, hostVars, rxbuf, LineBuffer, bufferlength, bracketsCount, isr, sending,
    cts, servo>>
vars == <<channelVars, gripVars>>

\* The parts are given what they ask for.
ASSUME PartsAssumption ==
  /\ Channel!CommandsAssumption
  /\ Channel!ChannelAssumption
  /\ Grip!HandlingAssumption
  /\ Grip!FirmwareAssumption

\* The brain assigns everything first, and no group has two ALL_BEGINS.
ASSUME HandlingAssumption ==
  /\ Discipline = "all first"
  /\ AssignOrder \in [1 .. Cardinality(Commands) -> Commands]
  /\ \A b, d \in Begins : BeginGroup[b] = BeginGroup[d] => b = d
  /\ \A c, d \in Commands : CommandGroup[c] = CommandGroup[d] => c = d

Init == Channel!Init /\ Grip!Init

-----------------------------------------------------------------------------
\* A group is begun when every command begun before it has been refused or reported.
OneByOne ==
  \A b \in Begins, c \in Commands :
    Channel!Begin(b) \in sent /\ CommandGroup[c] = BeginGroup[b] =>
      Channel!RefuseSent(c) \/ Channel!FinishSent(c)

\* With one command in a group, the order of assignation makes no difference to the queues.
InAssignOrder(c) ==
  \A i, k \in DOMAIN AssignOrder :
    k < i /\ AssignOrder[i] = c => Channel!Assignation(AssignOrder[k]) \in sent

BrainSends(m) ==
  /\ m.event = "ALL_BEGINS" => OneByOne
  /\ m.event = "WORK_ASSIGNATION" => InAssignOrder(m.cmd)
  /\ Channel!BrainSends(m)
  /\ UNCHANGED gripVars

\* The thread of a command that has a creator is in handlingService.
Executing(c) ==
  /\ fault = "none"
  /\ \E b \in Begins : jobs[<<b, c>>] = "execute"
  /\ Channel!Creatable(c)

Move(c) ==
  /\ Executing(c)
  /\ Grip!HostSteps(c)
  /\ UNCHANGED channelVars

\* A slip: the service is run in yet another thread, which nobody joins.
ExecuteDetached(j) ==
  /\ Channel!Creatable(j[2]) => call[j[2]] # "none"
  /\ Channel!Execute(j)
  /\ UNCHANGED gripVars

\* execute returns true when handlingService has returned, whatever that gave.
Execute(j) ==
  /\ Channel!Creatable(j[2]) => Grip!Returned(j[2])
  /\ Channel!Execute(j)
  /\ UNCHANGED gripVars

JobStep(j) ==
  \/ Execute(j)
  \/ (Channel!LockToEmit(j) \/ Channel!EmitFinished(j)) /\ UNCHANGED gripVars

\* The board and the line.
Board == Grip!BoardSteps /\ UNCHANGED channelVars
Line == Grip!Arrives /\ UNCHANGED channelVars
Cts == Grip!CtsMoves /\ UNCHANGED channelVars
SendByte == Grip!SendByte /\ UNCHANGED <<channelVars, hostVars>>

Quiescent == Channel!Quiescent /\ Grip!BoardQuiet

NetStep == Channel!NetStep /\ UNCHANGED gripVars
DrainStep(b) == Channel!DrainStep(b) /\ UNCHANGED gripVars

Next ==
  \/ \E m \in Channel!Messages : BrainSends(m)
  \/ NetStep
  \/ \E b \in Begins : DrainStep(b)
  \/ \E j \in Channel!Jobs : JobStep(j)
  \/ \E c \in Commands : Move(c)
  \/ Board \/ Line \/ Cts
  \/ Quiescent /\ UNCHANGED vars

Spec == Init /\ [][Next]_vars

(***************************************************************************)
(* The system runs some thread of each kind when one can run, the line     *)
(* delivers, the board executes, and whoever drives P2.0 keeps lowering    *)
(* it.  Nothing says that execute returns: its thread takes that step only *)
(* when handlingService has returned (Execute).                            *)
(***************************************************************************)
FairSpec ==
  /\ Spec
  /\ WF_vars(NetStep)
  /\ WF_vars(\E b \in Begins : DrainStep(b))
  /\ WF_vars(\E j \in Channel!Jobs : JobStep(j))
  /\ WF_vars(\E c \in Commands : Move(c))
  /\ WF_vars(Board)
  /\ SF_vars(SendByte)
  /\ WF_vars(Line)
  /\ WF_vars(Cts)

-----------------------------------------------------------------------------
\* Properties.

TypeOK == Channel!TypeOK /\ Grip!TypeOK

\* The board never answers ERROR to what handlingService writes.
NeverError == Grip!NeverError

\* Descriptors are never closed: the module serves MaxFds commands in its life.
ServesAtMostMaxFds == Grip!ServesAtMostMaxFds

\* When groups are begun one by one, a call that returns 0 leaves nothing of itself behind.
ReturnsAfterMove == Grip!ReturnsAfterMove

(***************************************************************************)
(* When ACTION_FINISHED of a command is emitted, the servo stands where    *)
(* the command asked for; or handlingService has returned 1, because the   *)
(* tty could not be opened or set up, which the event does not tell.       *)
(***************************************************************************)
ReportsTheMove ==
  [][\A c \in Commands :
       ~Channel!FinishSent(c) /\ Channel!FinishSent(c)' =>
         servo = Request[c] \/ (Grip!Returned(c) /\ result[c] = 1)]_vars

(***************************************************************************)
(* From the event to the answer: a command that waits while an ALL_BEGINS  *)
(* of its group is on its way, or while its drain still looks at the       *)
(* queue, is executed and reported, unless the process ends.               *)
(***************************************************************************)
EveryBegunCommandFinishes ==
  \A c \in Commands, b \in Begins :
    BeginGroup[b] = CommandGroup[c] =>
      (Channel!Waits(c) /\ Channel!Draining(b) ~> Channel!FinishSent(c) \/ fault # "none")

-----------------------------------------------------------------------------
(***************************************************************************)
(* The parts of the inductive invariant that the proofs use.               *)
(***************************************************************************)

\* c has been begun, and has been neither refused nor reported.
Active(c) ==
  /\ \E b \in Begins : Channel!Begin(b) \in sent /\ BeginGroup[b] = CommandGroup[c]
  /\ ~Channel!RefuseSent(c) /\ ~Channel!FinishSent(c)

\* What a brain that begins one group at a time achieves.
OneActive == \A c, d \in Commands : Active(c) /\ Active(d) => c = d

\* A call of handlingService is made by the thread of its command, which waits for its return.
CallInv ==
  /\ \A c \in Commands :
       /\ call[c] # "none" => \E b \in Begins : jobs[<<b, c>>] # "none"
       /\ Grip!UnderWay(c) => \E b \in Begins : jobs[<<b, c>>] = "execute"
  /\ \A j \in Channel!Jobs : jobs[j] \in {"lock", "emit"} => Grip!Returned(j[2])

\* Until it is reported, the move of a call that returned is not undone.
MovedInv ==
  \A c \in Commands :
    Grip!Returned(c) /\ ~Channel!FinishSent(c) =>
      servo = Request[c] \/ result[c] = 1
=============================================================================
