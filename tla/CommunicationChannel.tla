------------------------ MODULE CommunicationChannel ------------------------
(***************************************************************************)
(* The channel between the brain and the services of the handling module   *)
(* (libs/AIO/CommunicationChannel.cpp), from the moment start() has bound  *)
(* the events and sent REGISTRATION.  Three kinds of threads share the     *)
(* registry of module Services and one mutex:                              *)
(*                                                                         *)
(*   - the network thread of the socket.io client, which runs one handler  *)
(*     of bind_events at a time, each under the mutex;                     *)
(*   - one all_begins thread per ALL_BEGINS event, which drains the queue  *)
(*     of a group without the mutex;                                       *)
(*   - one consumeService thread per command taken from a queue, which     *)
(*     executes it and takes the mutex to emit ACTION_FINISHED.            *)
(*                                                                         *)
(* The brain is external: any order of the events it may send.  Undefined  *)
(* behaviour ends the run with a fault that says which rule was broken.    *)
(***************************************************************************)
EXTENDS Services

CONSTANTS
  Begins,      \* the ALL_BEGINS events; each is also the name of the thread it creates
  BeginGroup,  \* the GROUP_ID of each
  StatusOf,    \* the commands whose WORK_STATUS is asked
  ModuleIds,   \* the MODULE_IDs a REGISTRATION_REPLY may carry
  InitialId,   \* the MODULE_ID given on the command line
  Discipline,  \* what the brain keeps to, see MaySend
  MaxInFlight, \* bound on the events on their way to the module
  MayClose,    \* may the connection close or fail ?
  NoCommand,   \* the commandInfo of a thread that has read none yet
  NoReply      \* the reply_info of a network thread that is in no handler

ASSUME ChannelAssumption ==
  /\ BeginGroup \in [Begins -> Groups]
  /\ StatusOf \subseteq Commands
  /\ Discipline \in {"all first", "any"}
  /\ MaxInFlight \in Nat
  /\ MayClose \in BOOLEAN

VARIABLES
  sent,      \* the events the brain has sent
  inbox,     \* events that reached the client, oldest first
  outbox,    \* every event emitted, oldest first
  locked,    \* the mutex returned by getLock()
  net,       \* what the network thread does: [pc, reply]
  moduleId,  \* ModuleInfo::module_id
  drainPc, drainCmd,  \* per all_begins thread: where it is, its commandInfo
  jobs,      \* per <<all_begins thread, command>>: where the consumeService thread is
  fault      \* "none", or why the process is no more

threadVars == <<locked, net, drainPc, drainCmd, jobs>>
brainVars == <<sent, inbox>>
vars == <<servicesVars, threadVars, brainVars, outbox, moduleId, fault>>

-----------------------------------------------------------------------------
\* Events in both directions.

Assignation(c) == [event |-> "WORK_ASSIGNATION", cmd |-> c]
Status(c) == [event |-> "WORK_STATUS", cmd |-> c]
Begin(b) == [event |-> "ALL_BEGINS", begin |-> b]
Registration(id) == [event |-> "REGISTRATION_REPLY", id |-> id]

Messages ==
  {Assignation(c) : c \in Commands} \cup {Status(c) : c \in StatusOf}
    \cup {Begin(b) : b \in Begins} \cup {Registration(id) : id \in ModuleIds}

Ids == ModuleIds \cup {InitialId, "handling_module"}

Replies ==
  [event : {"WORK_ASSIGNATION_REPLY", "WORK_STATUS_REPLY", "ACTION_FINISHED"},
   id : Ids, cmd : Commands,
   answer : {"ACCEPTED", "REFUSE", "WORKING", "ERROR", "DONE"}]

Reply(e, id, c, a) == [event |-> e, id |-> id, cmd |-> c, answer |-> a]

Jobs == Begins \X Commands

-----------------------------------------------------------------------------
Init ==
  /\ ServicesInit
  /\ sent = {}
  /\ inbox = <<>>
  /\ outbox = <<>>
  /\ locked = FALSE
  /\ net = [pc |-> "idle", reply |-> NoReply]
  /\ moduleId = InitialId
  /\ drainPc = [b \in Begins |-> "none"]
  /\ drainCmd = [b \in Begins |-> NoCommand]
  /\ jobs = [j \in Jobs |-> "none"]
  /\ fault = "none"

Running == fault = "none"

-----------------------------------------------------------------------------
(***************************************************************************)
(* The brain sends each event once.  Its discipline is one of              *)
(*   "all first"    every assignation comes before the first ALL_BEGINS;   *)
(*   "any"          no rule: nothing in the code asks for one.             *)
(***************************************************************************)
MaySend(m) ==
  Discipline = "all first" /\ m.event = "ALL_BEGINS" =>
    \A c \in Commands : Assignation(c) \in sent

BrainSends(m) ==
  /\ Running
  /\ Len(inbox) < MaxInFlight
  /\ m \in Messages \ sent
  /\ MaySend(m)
  /\ sent' = sent \cup {m}
  /\ inbox' = Append(inbox, m)
  /\ UNCHANGED <<servicesVars, threadVars, outbox, moduleId, fault>>

-----------------------------------------------------------------------------
(***************************************************************************)
(* The network thread.  A handler starts with the oldest event, and with   *)
(* l.getLock()->lock().                                                    *)
(***************************************************************************)
Delivered(e) ==
  /\ Running
  /\ net.pc = "idle"
  /\ inbox # <<>>
  /\ Head(inbox).event = e
  /\ ~locked
  /\ inbox' = Tail(inbox)
  /\ UNCHANGED sent

\* WORK_ASSIGNATION: a reply is built with ACCEPTED, then assessWork is called.
TakeWorkAssignation ==
  /\ Delivered("WORK_ASSIGNATION")
  /\ locked' = TRUE
  /\ net' = [pc |-> "assess",
             reply |-> Reply("WORK_ASSIGNATION_REPLY", moduleId, Head(inbox).cmd, "ACCEPTED")]
  /\ UNCHANGED <<servicesVars, drainPc, drainCmd, jobs, outbox, moduleId, fault>>

\* A slip: the mutex is released once the registry is up to date, before the emit.
AssessWorkUnlocks ==
  /\ Running
  /\ net.pc = "assess"
  /\ IF Assessable(net.reply.cmd)
     THEN /\ Push(net.reply.cmd)
          /\ net' = [net EXCEPT !.pc = "emit"]
     ELSE /\ net' = [pc |-> "emit", reply |-> [net.reply EXCEPT !.answer = "REFUSE"]]
          /\ UNCHANGED servicesVars
  /\ locked' = FALSE
  /\ UNCHANGED <<drainPc, drainCmd, jobs, brainVars, outbox, moduleId, fault>>

\* A slip: the command joins its queue before its service is looked up.
AssessWorkPushesFirst ==
  /\ Running
  /\ net.pc = "assess"
  /\ Push(net.reply.cmd)
  /\ net' = [pc |-> "emit",
             reply |-> IF Assessable(net.reply.cmd) THEN net.reply
                       ELSE [net.reply EXCEPT !.answer = "REFUSE"]]
  /\ UNCHANGED <<locked, drainPc, drainCmd, jobs, brainVars, outbox, moduleId, fault>>

AssessWork ==
  /\ Running
  /\ net.pc = "assess"
  /\ LET c == net.reply.cmd
     IN  IF Assessable(c)
         THEN /\ Push(c)
              /\ net' = [net EXCEPT !.pc = "emit"]
         ELSE /\ net' = [pc |-> "emit", reply |-> [net.reply EXCEPT !.answer = "REFUSE"]]
              /\ UNCHANGED servicesVars
  /\ UNCHANGED <<locked, drainPc, drainCmd, jobs, brainVars, outbox, moduleId, fault>>

\* A slip: a handler that returns without unlock().
EmitReplyKeepsLock ==
  /\ Running
  /\ net.pc = "emit"
  /\ outbox' = Append(outbox, net.reply)
  /\ net' = [pc |-> "idle", reply |-> NoReply]
  /\ UNCHANGED <<servicesVars, locked, drainPc, drainCmd, jobs, brainVars, moduleId, fault>>

\* The end of a handler with an answer: emit, then unlock.
EmitReply ==
  /\ Running
  /\ net.pc = "emit"
  /\ outbox' = Append(outbox, net.reply)
  /\ locked' = FALSE
  /\ net' = [pc |-> "idle", reply |-> NoReply]
  /\ UNCHANGED <<servicesVars, drainPc, drainCmd, jobs, brainVars, moduleId, fault>>

\* ALL_BEGINS: a thread is created for the group, the lock only spans its creation.
TakeAllBegins ==
  /\ Delivered("ALL_BEGINS")
  /\ drainPc' = [drainPc EXCEPT ![Head(inbox).begin] = "setWorking"]
  /\ UNCHANGED <<servicesVars, locked, net, drainCmd, jobs, outbox, moduleId, fault>>

\* WORK_STATUS: the answer is ERROR unless the flag reads false.
TakeWorkStatus ==
  /\ Delivered("WORK_STATUS")
  /\ locked' = TRUE
  /\ net' = [pc |-> "status",
             reply |-> Reply("WORK_STATUS_REPLY", moduleId, Head(inbox).cmd, "ERROR")]
  /\ UNCHANGED <<servicesVars, drainPc, drainCmd, jobs, outbox, moduleId, fault>>

ReadStatus ==
  /\ Running
  /\ net.pc = "status"
  /\ net' = [pc |-> "emit",
             reply |-> IF working THEN net.reply ELSE [net.reply EXCEPT !.answer = "WORKING"]]
  /\ UNCHANGED <<servicesVars, locked, drainPc, drainCmd, jobs, brainVars, outbox, moduleId,
                 fault>>

TakeRegistrationReply ==
  /\ Delivered("REGISTRATION_REPLY")
  /\ moduleId' = Head(inbox).id
  /\ UNCHANGED <<servicesVars, threadVars, outbox, fault>>

-----------------------------------------------------------------------------
(***************************************************************************)
(* The thread of one ALL_BEGINS (all_begins), and the threads it creates   *)
(* (consumeService).                                                       *)
(***************************************************************************)
At(b, pc) == Running /\ drainPc[b] = pc

GoTo(b, pc) == drainPc' = [drainPc EXCEPT ![b] = pc]

drainFrame == <<locked, net, brainVars, outbox, moduleId>>

BeginWorking(b) ==
  /\ At(b, "setWorking")
  /\ setWorking(TRUE)
  /\ GoTo(b, "check")
  /\ UNCHANGED <<drainFrame, drainCmd, jobs, fault>>

\* A slip: the loop goes on while the queue's size, an unsigned number, is >= 0.
CheckEmptyNever(b) ==
  /\ At(b, "check")
  /\ Touch(BeginGroup[b])
  /\ GoTo(b, "front")
  /\ UNCHANGED <<drainFrame, commandsInfo, working, drainCmd, jobs, fault>>

CheckEmpty(b) ==
  /\ At(b, "check")
  /\ Touch(BeginGroup[b])
  /\ GoTo(b, IF isEmptyCommands(BeginGroup[b]) THEN "clear" ELSE "front")
  /\ UNCHANGED <<drainFrame, commandsInfo, working, drainCmd, jobs, fault>>

\* A slip: the result of front() is not kept.
GetFrontDropped(b) ==
  /\ At(b, "front")
  /\ GoTo(b, "pop")
  /\ UNCHANGED <<drainFrame, servicesVars, drainCmd, jobs, fault>>

\* getNextWork, first line: front() of an empty queue is undefined.
GetFront(b) ==
  /\ At(b, "front")
  /\ IF isEmptyCommands(BeginGroup[b])
     THEN /\ fault' = "empty queue"
          /\ UNCHANGED <<drainPc, drainCmd>>
     ELSE /\ drainCmd' = [drainCmd EXCEPT ![b] = FrontOf(BeginGroup[b])]
          /\ GoTo(b, "pop")
          /\ UNCHANGED fault
  /\ UNCHANGED <<drainFrame, servicesVars, jobs>>

\* getNextWork, second line.
Pop(b) ==
  /\ At(b, "pop")
  /\ IF isEmptyCommands(BeginGroup[b])
     THEN /\ fault' = "empty queue"
          /\ UNCHANGED <<servicesVars, drainPc>>
     ELSE /\ PopFront(BeginGroup[b])
          /\ GoTo(b, "spawn")
          /\ UNCHANGED fault
  /\ UNCHANGED <<drainFrame, drainCmd, jobs>>

\* A slip: an if instead of the while, so that one ALL_BEGINS starts one command.
SpawnAndStop(b) ==
  /\ At(b, "spawn")
  /\ jobs' = [jobs EXCEPT ![<<b, drainCmd[b]>>] = "execute"]
  /\ GoTo(b, "clear")
  /\ UNCHANGED <<drainFrame, servicesVars, drainCmd, fault>>

Spawn(b) ==
  /\ At(b, "spawn")
  /\ jobs' = [jobs EXCEPT ![<<b, drainCmd[b]>>] = "execute"]
  /\ GoTo(b, "check")
  /\ UNCHANGED <<drainFrame, servicesVars, drainCmd, fault>>

\* A slip: the second setWorking is forgotten.
EndWorkingForgets(b) ==
  /\ At(b, "clear")
  /\ GoTo(b, "done")
  /\ UNCHANGED <<drainFrame, servicesVars, drainCmd, jobs, fault>>

EndWorking(b) ==
  /\ At(b, "clear")
  /\ setWorking(FALSE)
  /\ GoTo(b, "done")
  /\ UNCHANGED <<drainFrame, drainCmd, jobs, fault>>

JobAt(j, pc) == Running /\ jobs[j] = pc

jobFrame == <<servicesVars, net, brainVars, drainPc, drainCmd, moduleId, fault>>

\* createFromString and execute; a name without a creator ends the thread in silence.
Execute(j) ==
  /\ JobAt(j, "execute")
  /\ jobs' = [jobs EXCEPT ![j] = IF Creatable(j[2]) THEN "lock" ELSE "done"]
  /\ UNCHANGED <<jobFrame, locked, outbox>>

\* A slip: the emit of a finished command is not locked.
NoLockToEmit(j) ==
  /\ JobAt(j, "lock")
  /\ locked' = TRUE
  /\ jobs' = [jobs EXCEPT ![j] = "emit"]
  /\ UNCHANGED <<jobFrame, outbox>>

LockToEmit(j) ==
  /\ JobAt(j, "lock")
  /\ ~locked
  /\ locked' = TRUE
  /\ jobs' = [jobs EXCEPT ![j] = "emit"]
  /\ UNCHANGED <<jobFrame, outbox>>

\* The MODULE_ID and the STATUS of this event are literals, whatever execute returned.
EmitFinished(j) ==
  /\ JobAt(j, "emit")
  /\ outbox' = Append(outbox, Reply("ACTION_FINISHED", "handling_module", j[2], "DONE"))
  /\ locked' = FALSE
  /\ jobs' = [jobs EXCEPT ![j] = "done"]
  /\ UNCHANGED jobFrame

-----------------------------------------------------------------------------
(***************************************************************************)
(* Undefined behaviour and exit.  Two threads each about to make one of    *)
(* two conflicting accesses may make them at once.                         *)
(***************************************************************************)
Accesses(t) ==
  IF t \in Begins
  THEN IF drainPc[t] \in {"check", "front", "pop"}
       THEN {Access(BeginGroup[t], drainPc[t] = "pop")} ELSE {}
  ELSE IF net.pc = "assess" /\ Assessable(net.reply.cmd)
       THEN {Access(CommandGroup[net.reply.cmd], TRUE)} ELSE {}

DataRace ==
  /\ Running
  /\ \E t, u \in Begins \cup {"net"} :
       t # u /\ \E x \in Accesses(t), y \in Accesses(u) : Conflict(x, y)
  /\ fault' = "data race"
  /\ UNCHANGED <<servicesVars, threadVars, brainVars, outbox, moduleId>>

\* on_close and on_fail of the connection_listener call exit(0).
OnClose ==
  /\ Running
  /\ MayClose
  /\ fault' = "exit"
  /\ UNCHANGED <<servicesVars, threadVars, brainVars, outbox, moduleId>>

-----------------------------------------------------------------------------
NetStep ==
  \/ TakeWorkAssignation \/ AssessWork \/ EmitReply
  \/ TakeAllBegins
  \/ TakeWorkStatus \/ ReadStatus
  \/ TakeRegistrationReply

DrainStep(b) ==
  \/ BeginWorking(b) \/ CheckEmpty(b) \/ GetFront(b) \/ Pop(b) \/ Spawn(b)
  \/ EndWorking(b)

JobStep(j) == Execute(j) \/ LockToEmit(j) \/ EmitFinished(j)

\* Nothing left to do: no thread is waiting for anything but the brain's next event.
Quiescent ==
  \/ ~Running
  \/ /\ inbox = <<>>
     /\ net.pc = "idle"
     /\ \A b \in Begins : drainPc[b] \in {"none", "done"}
     /\ \A j \in Jobs : jobs[j] \in {"none", "done"}

Next ==
  \/ \E m \in Messages : BrainSends(m)
  \/ NetStep
  \/ \E b \in Begins : DrainStep(b)
  \/ \E j \in Jobs : JobStep(j)
  \/ DataRace
  \/ OnClose
  \/ Quiescent /\ UNCHANGED vars

Spec == Init /\ [][Next]_vars

(***************************************************************************)
(* Every thread that can run does: the io_service thread of the client and *)
(* the threads created here are scheduled by the system, and one that      *)
(* waits for the mutex gets it.  The brain, a race and exit() are never    *)
(* forced, and neither is the return of execute: handlingService reads the *)
(* tty until it has seen its answer, and two calls at once may read each   *)
(* other's.                                                                *)
(***************************************************************************)
FairSpec ==
  /\ Spec
  /\ WF_vars(NetStep)
  /\ \A b \in Begins : WF_vars(DrainStep(b))
  /\ \A j \in Jobs : WF_vars(LockToEmit(j) \/ EmitFinished(j))

-----------------------------------------------------------------------------
\* Properties.

\* The values of the variables.
TypeOK ==
  /\ ServicesTypeOK
  /\ sent \subseteq Messages
  /\ inbox \in Seq(Messages)
  /\ outbox \in Seq(Replies)
  /\ locked \in BOOLEAN
  /\ net \in [pc : {"idle", "assess", "status", "emit"}, reply : Replies \cup {NoReply}]
  /\ net.pc # "idle" => net.reply \in Replies
  /\ moduleId \in Ids
  /\ drainPc \in [Begins -> {"none", "setWorking", "check", "front", "pop", "spawn", "clear",
                             "done"}]
  /\ drainCmd \in [Begins -> Commands \cup {NoCommand}]
  /\ \A b \in Begins : drainPc[b] \in {"pop", "spawn"} => drainCmd[b] \in Commands
  /\ jobs \in [Jobs -> {"none", "execute", "lock", "emit", "done"}]
  /\ fault \in {"none", "empty queue", "data race", "exit"}

IsAccept(r, c) == r.event = "WORK_ASSIGNATION_REPLY" /\ r.cmd = c /\ r.answer = "ACCEPTED"
IsFinish(r, c) == r.event = "ACTION_FINISHED" /\ r.cmd = c

AcceptSent(c) == \E i \in DOMAIN outbox : IsAccept(outbox[i], c)
FinishSent(c) == \E i \in DOMAIN outbox : IsFinish(outbox[i], c)

(***************************************************************************)
(* The brain never hears that an action finished before it heard that the  *)
(* command was accepted, although a drain may take the command as soon as  *)
(* assessWork has pushed it: the handler holds the mutex from the push to  *)
(* the emit, and the finished thread needs it.                             *)
(***************************************************************************)
AcceptedBeforeFinished ==
  \A c \in Commands : \A i \in DOMAIN outbox :
    IsFinish(outbox[i], c) => \E k \in 1..(i - 1) : IsAccept(outbox[k], c)

\* The commands past assessWork: their reply says ACCEPTED or is about to.
takenOn ==
  {c \in Commands : AcceptSent(c) \/ (net.pc = "emit" /\ IsAccept(net.reply, c))}

\* How many copies of a command the module holds or has reported finished.
Copies(c) ==
  Cardinality({i \in DOMAIN commandsInfo[CommandGroup[c]] :
                 commandsInfo[CommandGroup[c]][i] = c})
  + Cardinality({b \in Begins : drainPc[b] = "spawn" /\ drainCmd[b] = c})
  + Cardinality({b \in Begins : jobs[<<b, c>>] \in {"execute", "lock", "emit"}})
  + Cardinality({i \in DOMAIN outbox : IsFinish(outbox[i], c)})

(***************************************************************************)
(* A command taken on is in exactly one place, whatever the threads do: a  *)
(* queue, the hands of a drain, a thread that executes it, or the events   *)
(* sent.  None is lost and none is executed or reported twice.             *)
(***************************************************************************)
EachCommandOnce ==
  \A c \in Commands : Copies(c) = IF c \in takenOn THEN 1 ELSE 0

\* No front() or pop() of an empty queue, and no two conflicting accesses at once.
NoUndefinedBehaviour == fault \in {"none", "exit"}

(***************************************************************************)
(* Between its check of empty() and its pop() a drain's queue keeps its    *)
(* front: pop removes the very command that front() returned.              *)
(***************************************************************************)
PopsWhatItRead ==
  /\ \A b \in Begins :
       /\ drainPc[b] \in {"front", "pop"} => commandsInfo[BeginGroup[b]] # <<>>
       /\ drainPc[b] = "pop" => FrontOf(BeginGroup[b]) = drainCmd[b]
  /\ fault # "empty queue"

\* The brain sends at most one ALL_BEGINS for a group.
OneBegin == \A b, d \in Begins : BeginGroup[b] = BeginGroup[d] => b = d

\* assessWork took on c before d: the order of their ACCEPTED replies, sent or about to be.
TakenBefore(c, d) ==
  \/ \E i, k \in DOMAIN outbox : i < k /\ IsAccept(outbox[i], c) /\ IsAccept(outbox[k], d)
  \/ AcceptSent(c) /\ net.pc = "emit" /\ IsAccept(net.reply, d)

\* all_begins has created the thread that executes c.
HasThread(c) == \E b \in Begins : jobs[<<b, c>>] # "none"

(***************************************************************************)
(* With one ALL_BEGINS for a group, the thread of a command is created     *)
(* after the threads of all commands of its group that were taken on       *)
(* before it, although assessWork pushes while the drain runs. Two drains  *)
(* of one group would not keep to this: one may stand between its pop and  *)
(* its thread's creation while the other goes on.                          *)
(***************************************************************************)
StartedInOrder ==
  \A c, d \in Commands :
    CommandGroup[c] = CommandGroup[d] /\ TakenBefore(c, d) /\ HasThread(d) => HasThread(c)

\* The working flag is only up while some drain is between its two setWorking calls.
WorkingOnlyWhileDraining ==
  working => \E b \in Begins : drainPc[b] \in {"check", "front", "pop", "spawn", "clear"}

\* Every assignation that reached the module is answered, unless the process ends.
EveryAssignationAnswered ==
  \A c \in Commands :
    Assignation(c) \in sent ~>
      \/ ~Running
      \/ \E i \in DOMAIN outbox :
           outbox[i].event = "WORK_ASSIGNATION_REPLY" /\ outbox[i].cmd = c

\* An ALL_BEGINS that reached the module and whose thread has not seen the queue empty yet.
Draining(b) ==
  \/ Begin(b) \in {inbox[i] : i \in DOMAIN inbox}
  \/ drainPc[b] \in {"setWorking", "check", "front", "pop", "spawn"}

Waits(c) == c \in {commandsInfo[CommandGroup[c]][i] : i \in DOMAIN commandsInfo[CommandGroup[c]]}

(***************************************************************************)
(* A command that is in its queue while an ALL_BEGINS of its group is on   *)
(* its way, or while the drain that it created still looks at the queue,   *)
(* gets its thread, unless the process ends: whatever is assigned          *)
(* meanwhile, and although other commands may never come back from         *)
(* execute.                                                                *)
(***************************************************************************)
EveryBegunCommandStarts ==
  \A c \in Commands, b \in Begins :
    BeginGroup[b] = CommandGroup[c] =>
      (Waits(c) /\ Draining(b) ~> HasThread(c) \/ ~Running)

-----------------------------------------------------------------------------
(***************************************************************************)
(* The parts of the inductive invariants that the proofs use.              *)
(***************************************************************************)

\* At most one thread is between lock() and unlock(), and then the mutex is taken.
LockInv ==
  /\ net.pc # "idle" => locked
  /\ \A j \in Jobs : jobs[j] = "emit" => locked /\ net.pc = "idle"
  /\ \A j, k \in Jobs : jobs[j] = "emit" /\ jobs[k] = "emit" => j = k

\* The reply a handler is building: never ACTION_FINISHED, and ACCEPTED until assessed.
ReplyInv ==
  /\ net.pc # "idle" => net.reply.event # "ACTION_FINISHED"
  /\ net.pc = "assess" => IsAccept(net.reply, net.reply.cmd)

\* Every command in a queue, in a drain or in a thread of its own was taken on.
HeldInv ==
  /\ \A g \in Groups : \A i \in DOMAIN commandsInfo[g] : commandsInfo[g][i] \in takenOn
  /\ \A b \in Begins : drainPc[b] \in {"pop", "spawn"} => drainCmd[b] \in takenOn
  /\ \A j \in Jobs : jobs[j] # "none" => j[2] \in takenOn

\* An ALL_BEGINS event creates its thread once.
BeginOnceInv ==
  /\ \A i \in DOMAIN inbox : inbox[i] \in sent
  /\ \A i, k \in DOMAIN inbox : inbox[i] = inbox[k] => i = k
  /\ \A b \in Begins : drainPc[b] # "none" =>
       Begin(b) \in sent /\ \A i \in DOMAIN inbox : inbox[i] # Begin(b)

ReportInv == LockInv /\ ReplyInv /\ HeldInv /\ AcceptedBeforeFinished

(***************************************************************************)
(* A group's queue is the end of the list of its commands in the order of  *)
(* their assignation: it keeps that order, and holds every later command   *)
(* of one it holds.  This is so with any number of drains.                 *)
(***************************************************************************)
QueueInOrder ==
  \A g \in Groups :
    LET q == commandsInfo[g]
    IN  /\ \A i, k \in DOMAIN q : i < k => TakenBefore(q[i], q[k])
        /\ \A i \in DOMAIN q, d \in Commands :
             CommandGroup[d] = g /\ TakenBefore(q[i], d) => \E k \in DOMAIN q : q[k] = d

\* No thread has overtaken the command that a drain is about to create one for.
NotOvertakenInv ==
  \A b \in Begins, d \in Commands :
    drainPc[b] = "spawn" /\ CommandGroup[d] = BeginGroup[b] /\ TakenBefore(drainCmd[b], d) =>
      ~HasThread(d)

\* A command has started once it left its queue.
Started == {c \in Commands : \E b \in Begins :
              jobs[<<b, c>>] # "none" \/ (drainPc[b] = "spawn" /\ drainCmd[b] = c)}

RefuseSent(c) == \E i \in DOMAIN outbox :
  outbox[i].event = "WORK_ASSIGNATION_REPLY" /\ outbox[i].cmd = c /\ outbox[i].answer = "REFUSE"

\* The handler of a command's WORK_ASSIGNATION is under way.
Answering(c) ==
  net.pc \in {"assess", "emit"} /\ net.reply.event = "WORK_ASSIGNATION_REPLY" /\ net.reply.cmd = c

\* An assignation is handled once and gets one answer.
AnsweredOnceInv ==
  /\ net.pc = "status" => net.reply.event = "WORK_STATUS_REPLY"
  /\ \A c \in Commands :
       /\ Answering(c) => /\ net.reply.answer \in {"ACCEPTED", "REFUSE"}
                          /\ ~AcceptSent(c) /\ ~RefuseSent(c)
       /\ AcceptSent(c) => ~RefuseSent(c)
       /\ Answering(c) \/ AcceptSent(c) \/ RefuseSent(c) =>
            Assignation(c) \in sent /\ \A i \in DOMAIN inbox : inbox[i] # Assignation(c)

\* The commands of a group that wait in q: each once, and none that has started.
Queued(g, q) ==
  /\ \A i \in DOMAIN q : CommandGroup[q[i]] = g /\ q[i] \notin Started
  /\ \A i, k \in DOMAIN q : q[i] = q[k] => i = k

\* A command is accepted once, and waits in the queue of its own group.
AcceptOnceInv ==
  /\ \A c \in Commands : \A i, k \in DOMAIN outbox :
       IsAccept(outbox[i], c) /\ IsAccept(outbox[k], c) => i = k
  /\ \A g \in Groups : \A i \in DOMAIN commandsInfo[g] : CommandGroup[commandsInfo[g][i]] = g

\* A command taken on waits in its own group's queue, once, or has started.
PlacedInv ==
  /\ \A g \in Groups : Queued(g, commandsInfo[g])
  /\ \A c \in takenOn : Creatable(c) /\ (Waits(c) \/ c \in Started)

\* A brain that sends all assignations first, and begins a group once and only if it can work.
Disciplined ==
  /\ Discipline = "all first"
  /\ OneBegin
  /\ \A b \in Begins : \E c \in Commands : CommandGroup[c] = BeginGroup[b] /\ Assessable(c)

\* Events keep their order: the assignations are handled before the first drain exists.
FirstInv ==
  /\ \A b \in Begins : Begin(b) \in sent => \A c \in Commands : Assignation(c) \in sent
  /\ \A i, k \in DOMAIN inbox :
       inbox[i].event = "ALL_BEGINS" /\ inbox[k].event = "WORK_ASSIGNATION" => k < i
  /\ \A b \in Begins : drainPc[b] # "none" =>
       /\ net.pc # "assess"
       /\ \A i \in DOMAIN inbox : inbox[i].event # "WORK_ASSIGNATION"

\* A command that was assessed has left a node for its group.
KeysInv ==
  \A c \in Commands :
    \/ ~Assessable(c)
    \/ Assignation(c) \notin sent
    \/ \E i \in DOMAIN inbox : inbox[i] = Assignation(c)
    \/ net.pc = "assess" /\ net.reply.cmd = c
    \/ CommandGroup[c] \in keys

\* A command has one thread, which reports it once.
OneThreadInv ==
  /\ \A b, d \in Begins, c \in Commands :
       jobs[<<b, c>>] # "none" /\ jobs[<<d, c>>] # "none" => b = d
  /\ \A b, d \in Begins : drainPc[b] = "spawn" =>
       /\ jobs[<<d, drainCmd[b]>>] = "none"
       /\ drainPc[d] = "spawn" /\ drainCmd[d] = drainCmd[b] => b = d
  /\ \A c \in Commands : FinishSent(c) <=> \E b \in Begins : jobs[<<b, c>>] = "done"
  /\ \A c \in Commands : \A i, k \in DOMAIN outbox :
       IsFinish(outbox[i], c) /\ IsFinish(outbox[k], c) => i = k

\* A drain takes commands of its own group only.
BegunInv ==
  /\ \A b \in Begins : drainPc[b] \in {"pop", "spawn"} => CommandGroup[drainCmd[b]] = BeginGroup[b]
  /\ \A j \in Jobs : jobs[j] # "none" =>
       drainPc[j[1]] # "none" /\ CommandGroup[j[2]] = BeginGroup[j[1]]

-----------------------------------------------------------------------------
(***************************************************************************)
(* What the brain can rely on: what was accepted, refused and finished is  *)
(* what was emitted.                                                       *)
(***************************************************************************)
Finished == {c \in Commands : FinishSent(c)}

Accepted == {c \in Commands : AcceptSent(c)}

Refused == {c \in Commands : RefuseSent(c)}

Begun == {g \in Groups : \E b \in Begins : BeginGroup[b] = g /\ drainPc[b] # "none"}

WP == INSTANCE WorkProtocol WITH
  waiting <- commandsInfo,
  started <- Started,
  finished <- Finished,
  accepted <- Accepted,
  refused <- Refused,
  begun <- Begun,
  stopped <- ~Running

(***************************************************************************)
(* With one ALL_BEGINS per group the channel keeps the promises of         *)
(* WorkProtocol: its threads and their lock give each command one start    *)
(* and one report, in order, whatever they interleave.                     *)
(***************************************************************************)
ImplementsWorkProtocol == WP!Spec
=============================================================================
