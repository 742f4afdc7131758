--------------------- MODULE CommunicationChannel_proofs ---------------------
(***************************************************************************)
(* Theorems about CommunicationChannel, for every value of its constants.  *)
(***************************************************************************)
EXTENDS CommunicationChannel, SequenceTheorems, TLAPS

-----------------------------------------------------------------------------
\* Type correctness.

\* What each event carries.
LEMMA MessagesShape ==
  ASSUME NEW m \in Messages
  PROVE  /\ m.event = "WORK_ASSIGNATION" => m.cmd \in Commands
         /\ m.event = "WORK_STATUS" => m.cmd \in Commands
         /\ m.event = "ALL_BEGINS" => m.begin \in Begins
         /\ m.event = "REGISTRATION_REPLY" => m.id \in ModuleIds
<1>1. CASE \E c \in Commands : m = Assignation(c)
  BY <1>1 DEF Assignation
<1>2. CASE \E c \in StatusOf : m = Status(c)
  <2>1. PICK c \in StatusOf : m = Status(c)
    BY <1>2
  <2>2. m.event = "WORK_STATUS" /\ m.cmd = c
    BY <2>1 DEF Status
  <2> QED
    BY <2>2, ChannelAssumption
<1>3. CASE \E b \in Begins : m = Begin(b)
  BY <1>3 DEF Begin
<1>4. CASE \E id \in ModuleIds : m = Registration(id)
  BY <1>4 DEF Registration
<1> QED
  BY <1>1, <1>2, <1>3, <1>4 DEF Messages

\* An event built from good parts is one the module may emit.
LEMMA ReplyInReplies ==
  ASSUME NEW id \in Ids, NEW c \in Commands,
         NEW e \in {"WORK_ASSIGNATION_REPLY", "WORK_STATUS_REPLY", "ACTION_FINISHED"},
         NEW a \in {"ACCEPTED", "REFUSE", "WORKING", "ERROR", "DONE"}
  PROVE  Reply(e, id, c, a) \in Replies
  BY DEF Reply, Replies

\* A handler gets an event the brain may send, and leaves the rest.
LEMMA DeliveredHead ==
  ASSUME TypeOK, NEW e, Delivered(e)
  PROVE  Head(inbox) \in Messages /\ inbox' \in Seq(Messages)
  BY HeadTailProperties DEF TypeOK, Delivered

\* The values the constructor leaves have their types.
LEMMA TypeInit == Init => TypeOK
<1> SUFFICES ASSUME Init PROVE TypeOK
  OBVIOUS
<1>1. ServicesTypeOK
  BY CommandsAssumption, EmptySeq DEF Init, ServicesInit, ServicesTypeOK
<1>2. inbox \in Seq(Messages) /\ outbox \in Seq(Replies)
  BY EmptySeq DEF Init
<1>3. sent \subseteq Messages /\ moduleId \in Ids
  BY DEF Init, Ids
<1>4. /\ net \in [pc : {"idle", "assess", "status", "emit"}, reply : Replies \cup {NoReply}]
      /\ net.pc # "idle" => net.reply \in Replies
  BY DEF Init
<1> QED
  BY <1>1, <1>2, <1>3, <1>4 DEF Init, TypeOK

\* Every step of every thread keeps the types.
LEMMA TypeStep == TypeOK /\ [Next]_vars => TypeOK'
<1> SUFFICES ASSUME TypeOK, [Next]_vars PROVE TypeOK'
  OBVIOUS
<1> USE CommandsAssumption, ChannelAssumption
<1>1. CASE \E m \in Messages : BrainSends(m)
  <2>1. PICK m \in Messages : BrainSends(m)
    BY <1>1
  <2>2. sent' \subseteq Messages /\ inbox' \in Seq(Messages)
    BY <2>1, AppendProperties DEF BrainSends, TypeOK
  <2> QED
    BY <2>1, <2>2 DEF BrainSends, TypeOK, ServicesTypeOK, servicesVars, threadVars
<1>2. CASE TakeWorkAssignation
  <2>1. /\ Head(inbox).cmd \in Commands
        /\ inbox' \in Seq(Messages)
    BY <1>2, DeliveredHead, MessagesShape DEF TakeWorkAssignation, Delivered
  <2>2. Reply("WORK_ASSIGNATION_REPLY", moduleId, Head(inbox).cmd, "ACCEPTED") \in Replies
    BY <2>1, ReplyInReplies DEF TypeOK
  <2> QED
    BY <1>2, <2>1, <2>2
    DEF TakeWorkAssignation, Delivered, TypeOK, ServicesTypeOK, servicesVars
<1>3. CASE AssessWork
  <2> DEFINE c == net.reply.cmd
  <2>1. net.reply \in Replies /\ c \in Commands /\ CommandGroup[c] \in Groups
    BY <1>3 DEF AssessWork, TypeOK, Replies
  <2>2. CASE Assessable(c)
    <3>1. Append(commandsInfo[CommandGroup[c]], c) \in Seq(Commands)
      <4>1. commandsInfo[CommandGroup[c]] \in Seq(Commands)
        BY <2>1 DEF TypeOK, ServicesTypeOK
      <4> QED
        BY <2>1, <4>1, AppendProperties
    <3>2. Push(c) /\ net' = [net EXCEPT !.pc = "emit"]
      BY <1>3, <2>2 DEF AssessWork
    <3>3. ServicesTypeOK'
      BY <2>1, <3>1, <3>2 DEF Push, Touch, TypeOK, ServicesTypeOK
    <3> QED
      BY <1>3, <2>1, <3>2, <3>3 DEF AssessWork, TypeOK, brainVars
  <2>3. CASE ~Assessable(c)
    <3>1. [net.reply EXCEPT !.answer = "REFUSE"] \in Replies
      BY <2>1 DEF Replies
    <3>2. /\ net' = [pc |-> "emit", reply |-> [net.reply EXCEPT !.answer = "REFUSE"]]
          /\ UNCHANGED servicesVars
      BY <1>3, <2>3 DEF AssessWork
    <3> QED
      BY <1>3, <3>1, <3>2
      DEF AssessWork, TypeOK, ServicesTypeOK, servicesVars, brainVars
  <2> QED
    BY <2>2, <2>3
<1>4. CASE EmitReply
  BY <1>4, AppendProperties DEF EmitReply, TypeOK, ServicesTypeOK, servicesVars, brainVars
<1>5. CASE TakeAllBegins
  <2>1. /\ Head(inbox).begin \in Begins
        /\ inbox' \in Seq(Messages)
    BY <1>5, DeliveredHead, MessagesShape DEF TakeAllBegins, Delivered
  <2> QED
    BY <1>5, <2>1
    DEF TakeAllBegins, Delivered, TypeOK, ServicesTypeOK, servicesVars
<1>6. CASE TakeWorkStatus
  <2>1. /\ Head(inbox).cmd \in Commands
        /\ inbox' \in Seq(Messages)
    BY <1>6, DeliveredHead, MessagesShape DEF TakeWorkStatus, Delivered
  <2>2. Reply("WORK_STATUS_REPLY", moduleId, Head(inbox).cmd, "ERROR") \in Replies
    BY <2>1, ReplyInReplies DEF TypeOK
  <2> QED
    BY <1>6, <2>1, <2>2
    DEF TakeWorkStatus, Delivered, TypeOK, ServicesTypeOK, servicesVars
<1>7. CASE ReadStatus
  <2>1. net.reply \in Replies
    BY <1>7 DEF ReadStatus, TypeOK
  <2>2. [net.reply EXCEPT !.answer = "WORKING"] \in Replies
    BY <2>1 DEF Replies
  <2> QED
    BY <1>7, <2>1, <2>2
    DEF ReadStatus, TypeOK, ServicesTypeOK, servicesVars, brainVars
<1>8. CASE TakeRegistrationReply
  <2>1. /\ Head(inbox).id \in ModuleIds
        /\ inbox' \in Seq(Messages)
    BY <1>8, DeliveredHead, MessagesShape DEF TakeRegistrationReply, Delivered
  <2> QED
    BY <1>8, <2>1
    DEF TakeRegistrationReply, Delivered, TypeOK, ServicesTypeOK, servicesVars, threadVars, Ids
<1>9. ASSUME NEW b \in Begins, DrainStep(b) PROVE TypeOK'
  <2> USE DEF drainFrame, brainVars, At, GoTo
  <2>1. BeginGroup[b] \in Groups
    OBVIOUS
  <2>2. CASE BeginWorking(b)
    BY <2>2 DEF BeginWorking, setWorking, TypeOK, ServicesTypeOK
  <2>3. CASE CheckEmpty(b)
    BY <2>1, <2>3 DEF CheckEmpty, Touch, TypeOK, ServicesTypeOK
  <2>4. CASE GetFront(b)
    <3>1. CASE isEmptyCommands(BeginGroup[b])
      BY <2>4, <3>1 DEF GetFront, TypeOK, ServicesTypeOK, servicesVars
    <3>2. CASE ~isEmptyCommands(BeginGroup[b])
      <4>1. FrontOf(BeginGroup[b]) \in Commands
        BY <2>1, <3>2, HeadTailProperties DEF FrontOf, isEmptyCommands, TypeOK, ServicesTypeOK
      <4> QED
        BY <2>4, <3>2, <4>1 DEF GetFront, TypeOK, ServicesTypeOK, servicesVars
    <3> QED
      BY <3>1, <3>2
  <2>5. CASE Pop(b)
    <3>1. CASE isEmptyCommands(BeginGroup[b])
      BY <2>5, <3>1 DEF Pop, TypeOK, ServicesTypeOK, servicesVars
    <3>2. CASE ~isEmptyCommands(BeginGroup[b])
      <4>1. Tail(commandsInfo[BeginGroup[b]]) \in Seq(Commands)
        BY <2>1, <3>2, HeadTailProperties DEF isEmptyCommands, TypeOK, ServicesTypeOK
      <4> QED
        BY <2>5, <3>2, <4>1 DEF Pop, PopFront, TypeOK, ServicesTypeOK
    <3> QED
      BY <3>1, <3>2
  <2>6. CASE Spawn(b)
    BY <2>6 DEF Spawn, TypeOK, ServicesTypeOK, servicesVars, Jobs
  <2>7. CASE EndWorking(b)
    BY <2>7 DEF EndWorking, setWorking, TypeOK, ServicesTypeOK
  <2> QED
    BY <1>9, <2>2, <2>3, <2>4, <2>5, <2>6, <2>7 DEF DrainStep
<1>10. ASSUME NEW j \in Jobs, JobStep(j) PROVE TypeOK'
  <2> USE DEF jobFrame, servicesVars, brainVars, JobAt
  <2>1. CASE Execute(j)
    BY <2>1 DEF Execute, TypeOK, ServicesTypeOK
  <2>2. CASE LockToEmit(j)
    BY <2>2 DEF LockToEmit, TypeOK, ServicesTypeOK
  <2>3. CASE EmitFinished(j)
    <3>1. Reply("ACTION_FINISHED", "handling_module", j[2], "DONE") \in Replies
      BY ReplyInReplies DEF Jobs, Ids
    <3> QED
      BY <2>3, <3>1, AppendProperties DEF EmitFinished, TypeOK, ServicesTypeOK
  <2> QED
    BY <1>10, <2>1, <2>2, <2>3 DEF JobStep
<1>11. CASE DataRace \/ OnClose
  BY <1>11 DEF DataRace, OnClose, TypeOK, ServicesTypeOK, servicesVars, threadVars, brainVars
<1>12. CASE UNCHANGED vars
  BY <1>12 DEF vars, TypeOK, ServicesTypeOK, servicesVars, threadVars, brainVars
<1> QED
  BY <1>1, <1>2, <1>3, <1>4, <1>5, <1>6, <1>7, <1>8, <1>9, <1>10, <1>11, <1>12
  DEF Next, NetStep

(***************************************************************************)
(* Every variable keeps its type, and a drain that is past front() holds a *)
(* command (all_begins, consumeService and the handlers of bind_events).   *)
(***************************************************************************)
THEOREM TypeCorrect == Spec => []TypeOK
  BY TypeInit, TypeStep, PTL DEF Spec

-----------------------------------------------------------------------------
\* The order of the events emitted.

\* A step emits nothing, the reply of the handler, or the end of one action.
LEMMA StepEmits ==
  ASSUME [Next]_vars
  PROVE  \/ outbox' = outbox /\ (net.pc = "emit" => net' = net)
         \/ EmitReply
         \/ \E j \in Jobs : EmitFinished(j) /\ net' = net
<1> USE DEF threadVars, drainFrame, jobFrame, vars
<1>1. CASE \E m \in Messages : BrainSends(m)
  BY <1>1 DEF BrainSends
<1>2. CASE NetStep
  BY <1>2 DEF NetStep, TakeWorkAssignation, AssessWork, TakeAllBegins, TakeWorkStatus,
              ReadStatus, TakeRegistrationReply, Delivered
<1>3. CASE \E b \in Begins : DrainStep(b)
  BY <1>3 DEF DrainStep, BeginWorking, CheckEmpty, GetFront, Pop, Spawn, EndWorking
<1>4. CASE \E j \in Jobs : JobStep(j)
  BY <1>4 DEF JobStep, Execute, LockToEmit, EmitFinished
<1>5. CASE DataRace \/ OnClose \/ UNCHANGED vars
  BY <1>5 DEF DataRace, OnClose
<1> QED
  BY <1>1, <1>2, <1>3, <1>4, <1>5 DEF Next

\* The head of a sequence and the elements of its tail, by index.
LEMMA SeqFront ==
  ASSUME NEW S, NEW s \in Seq(S), s # <<>>
  PROVE  /\ 1 \in DOMAIN s
         /\ Head(s) = s[1]
         /\ Head(s) \in S
         /\ Tail(s) \in Seq(S)
         /\ \A i \in DOMAIN Tail(s) : i + 1 \in DOMAIN s /\ Tail(s)[i] = s[i + 1]
<1>1. Len(s) \in Nat /\ DOMAIN s = 1..Len(s) /\ Len(s) # 0
  BY LenProperties, EmptySeq
<1>2. /\ Tail(s) \in Seq(S)
      /\ Len(Tail(s)) = Len(s) - 1
      /\ \A i \in 1..Len(Tail(s)) : Tail(s)[i] = s[i + 1]
  BY HeadTailProperties
<1>3. DOMAIN Tail(s) = 1..Len(Tail(s))
  BY <1>2, LenProperties
<1> QED
  BY <1>1, <1>2, <1>3, HeadTailProperties

\* Append keeps what was there, and adds one element at the end.
LEMMA AppendKeeps ==
  ASSUME NEW S, NEW s \in Seq(S), NEW r \in S
  PROVE  /\ Append(s, r) \in Seq(S)
         /\ DOMAIN s = 1..Len(s)
         /\ DOMAIN Append(s, r) = 1..(Len(s) + 1)
         /\ Len(s) \in Nat
         /\ \A i \in DOMAIN s : Append(s, r)[i] = s[i]
         /\ Append(s, r)[Len(s) + 1] = r
  BY AppendProperties, LenProperties

\* A push does not change the front of a queue that is not empty.
LEMMA AppendHead ==
  ASSUME NEW S, NEW s \in Seq(S), s # <<>>, NEW r \in S
  PROVE  Append(s, r) # <<>> /\ Head(Append(s, r)) = Head(s)
<1>1. 1 \in DOMAIN s /\ Head(s) = s[1]
  BY SeqFront
<1>2. Append(s, r) \in Seq(S) /\ Append(s, r) # <<>> /\ Append(s, r)[1] = s[1]
  BY <1>1, AppendProperties, AppendKeeps
<1>3. Head(Append(s, r)) = Append(s, r)[1]
  BY <1>2, SeqFront
<1> QED
  BY <1>1, <1>2, <1>3

\* An element of Append(s, r) is one of s or r itself.
LEMMA AppendElement ==
  ASSUME NEW S, NEW s \in Seq(S), NEW r \in S, NEW i \in DOMAIN Append(s, r)
  PROVE  \/ i \in DOMAIN s /\ Append(s, r)[i] = s[i]
         \/ i = Len(s) + 1 /\ Append(s, r)[i] = r
<1>1. /\ DOMAIN s = 1..Len(s)
      /\ DOMAIN Append(s, r) = 1..(Len(s) + 1)
      /\ Len(s) \in Nat
  BY AppendKeeps
<1>2. i \in DOMAIN s \/ i = Len(s) + 1
  BY <1>1
<1> QED
  BY <1>2, AppendKeeps

\* What the brain was told, or is about to be told, is not taken back.
LEMMA TakenOnStable ==
  ASSUME TypeOK, [Next]_vars
  PROVE  takenOn \subseteq takenOn'
<1> SUFFICES ASSUME NEW c \in takenOn PROVE c \in takenOn'
  OBVIOUS
<1>0. c \in Commands /\ outbox \in Seq(Replies)
  BY DEF TypeOK, takenOn
<1>1. CASE outbox' = outbox /\ (net.pc = "emit" => net' = net)
  BY <1>1 DEF takenOn, AcceptSent
<1>2. CASE EmitReply
  <2>1. outbox' = Append(outbox, net.reply) /\ net.reply \in Replies
    BY <1>2 DEF EmitReply, TypeOK
  <2>2. CASE AcceptSent(c)
    <3>1. PICK i \in DOMAIN outbox : IsAccept(outbox[i], c)
      BY <2>2 DEF AcceptSent
    <3>2. i \in DOMAIN outbox' /\ outbox'[i] = outbox[i]
      BY <1>0, <2>1, AppendKeeps
    <3> QED
      BY <1>0, <3>1, <3>2 DEF takenOn, AcceptSent
  <2>3. CASE IsAccept(net.reply, c)
    <3>1. Len(outbox) + 1 \in DOMAIN outbox' /\ outbox'[Len(outbox) + 1] = net.reply
      BY <1>0, <2>1, AppendKeeps
    <3> QED
      BY <1>0, <2>3, <3>1 DEF takenOn, AcceptSent
  <2> QED
    BY <2>2, <2>3 DEF takenOn
<1>3. CASE \E j \in Jobs : EmitFinished(j) /\ net' = net
  <2>1. PICK j \in Jobs : EmitFinished(j) /\ net' = net
    BY <1>3
  <2> DEFINE r == Reply("ACTION_FINISHED", "handling_module", j[2], "DONE")
  <2>2. outbox' = Append(outbox, r) /\ r \in Replies
    BY <2>1, ReplyInReplies DEF EmitFinished, Jobs, Ids
  <2> HIDE DEF r
  <2>3. \A i \in DOMAIN outbox : i \in DOMAIN outbox' /\ outbox'[i] = outbox[i]
    BY <1>0, <2>2, AppendKeeps
  <2> QED
    BY <1>0, <2>1, <2>3 DEF takenOn, AcceptSent
<1> QED
  BY <1>1, <1>2, <1>3, StepEmits

\* Every step keeps the mutex exclusive.
LEMMA LockStep ==
  ASSUME TypeOK, LockInv, [Next]_vars
  PROVE  LockInv'
<1> USE DEF LockInv, threadVars, drainFrame, jobFrame, vars
<1>1. CASE \E m \in Messages : BrainSends(m)
  BY <1>1 DEF BrainSends
<1>2. CASE NetStep
  <2>1. CASE TakeWorkAssignation \/ TakeWorkStatus
    BY <2>1 DEF TakeWorkAssignation, TakeWorkStatus, Delivered
  <2>2. CASE AssessWork
    <3>1. net.pc = "assess" /\ locked /\ UNCHANGED <<locked, jobs>>
      BY <2>2 DEF AssessWork
    <3> QED
      BY <3>1
  <2>3. CASE EmitReply
    BY <2>3 DEF EmitReply
  <2>4. CASE TakeAllBegins \/ TakeRegistrationReply
    BY <2>4 DEF TakeAllBegins, TakeRegistrationReply
  <2>5. CASE ReadStatus
    <3>1. net.pc = "status" /\ locked /\ UNCHANGED <<locked, jobs>>
      BY <2>5 DEF ReadStatus
    <3> QED
      BY <3>1
  <2> QED
    BY <1>2, <2>1, <2>2, <2>3, <2>4, <2>5 DEF NetStep
<1>3. ASSUME NEW b \in Begins, DrainStep(b) PROVE LockInv'
  <2>1. CASE Spawn(b)
    BY <2>1 DEF Spawn, TypeOK
  <2> QED
    BY <1>3, <2>1 DEF DrainStep, BeginWorking, CheckEmpty, GetFront, Pop, EndWorking
<1>4. ASSUME NEW j \in Jobs, JobStep(j) PROVE LockInv'
  BY <1>4 DEF JobStep, Execute, LockToEmit, EmitFinished, JobAt, TypeOK
<1>5. CASE DataRace \/ OnClose \/ UNCHANGED vars
  BY <1>5 DEF DataRace, OnClose
<1> QED
  BY <1>1, <1>2, <1>3, <1>4, <1>5 DEF Next

\* Every step keeps the reply under construction well-formed.
LEMMA ReplyStep ==
  ASSUME TypeOK, ReplyInv, [Next]_vars
  PROVE  ReplyInv'
<1> USE DEF ReplyInv, threadVars, drainFrame, jobFrame, vars
<1>1. CASE \E m \in Messages : BrainSends(m)
  BY <1>1 DEF BrainSends
<1>2. CASE TakeWorkAssignation
  BY <1>2 DEF TakeWorkAssignation, Reply, IsAccept
<1>3. CASE AssessWork
  <2>1. net.reply \in Replies /\ net.pc = "assess"
    BY <1>3 DEF AssessWork, TypeOK
  <2>2. net' = [net EXCEPT !.pc = "emit"]
          \/ net' = [pc |-> "emit", reply |-> [net.reply EXCEPT !.answer = "REFUSE"]]
    BY <1>3 DEF AssessWork
  <2>3. net'.pc = "emit" /\ net'.reply.event = net.reply.event
    <3>1. CASE net' = [net EXCEPT !.pc = "emit"]
      BY <3>1 DEF TypeOK
    <3>2. CASE net' = [pc |-> "emit", reply |-> [net.reply EXCEPT !.answer = "REFUSE"]]
      BY <2>1, <3>2 DEF Replies
    <3> QED
      BY <2>2, <3>1, <3>2
  <2> QED
    BY <2>1, <2>3
<1>4. CASE EmitReply \/ TakeAllBegins \/ TakeRegistrationReply
  BY <1>4 DEF EmitReply, TakeAllBegins, TakeRegistrationReply
<1>5. CASE TakeWorkStatus
  BY <1>5 DEF TakeWorkStatus, Reply
<1>6. CASE ReadStatus
  BY <1>6 DEF ReadStatus, TypeOK, Replies
<1>7. CASE \E b \in Begins : DrainStep(b)
  BY <1>7 DEF DrainStep, BeginWorking, CheckEmpty, GetFront, Pop, Spawn, EndWorking
<1>8. CASE \E j \in Jobs : JobStep(j)
  BY <1>8 DEF JobStep, Execute, LockToEmit, EmitFinished
<1>9. CASE DataRace \/ OnClose \/ UNCHANGED vars
  BY <1>9 DEF DataRace, OnClose
<1> QED
  BY <1>1, <1>2, <1>3, <1>4, <1>5, <1>6, <1>7, <1>8, <1>9 DEF Next, NetStep

\* A command gets into a queue, a drain or a thread only once it was taken on.
LEMMA HeldStep ==
  ASSUME TypeOK, ReplyInv, HeldInv, [Next]_vars
  PROVE  HeldInv'
<1>0. takenOn \subseteq takenOn'
  BY TakenOnStable
<1> USE CommandsAssumption, ChannelAssumption
<1> DEFINE Same == UNCHANGED <<commandsInfo, drainPc, drainCmd, jobs>>
<1>1. CASE Same
  BY <1>0, <1>1 DEF HeldInv
<1>2. CASE AssessWork
  <2>1. PICK c \in Commands : c = net.reply.cmd
    BY <1>2 DEF AssessWork, TypeOK, Replies
  <2>1a. UNCHANGED <<drainPc, drainCmd, jobs>>
    BY <1>2 DEF AssessWork
  <2>2. CASE ~Assessable(c)
    BY <1>1, <1>2, <2>1, <2>2 DEF AssessWork, servicesVars
  <2>3. CASE Assessable(c)
    <3>1. Push(c) /\ net' = [net EXCEPT !.pc = "emit"] /\ net.pc = "assess"
      BY <1>2, <2>1, <2>3 DEF AssessWork
    <3>2. c \in takenOn'
      BY <2>1, <3>1 DEF TypeOK, takenOn, ReplyInv, IsAccept
    <3>3. ASSUME NEW g \in Groups, NEW i \in DOMAIN commandsInfo'[g]
          PROVE  commandsInfo'[g][i] \in takenOn'
      <4>1. commandsInfo[g] \in Seq(Commands)
        BY DEF TypeOK, ServicesTypeOK
      <4>2. CASE g = CommandGroup[c]
        <5>1. commandsInfo'[g] = Append(commandsInfo[g], c)
          BY <3>1, <4>2 DEF Push, TypeOK, ServicesTypeOK
        <5>2. \A k \in DOMAIN Append(commandsInfo[g], c) :
                Append(commandsInfo[g], c)[k] \in takenOn'
          BY <1>0, <3>2, <4>1, AppendElement DEF HeldInv
        <5> QED
          BY <5>1, <5>2
      <4>3. CASE g # CommandGroup[c]
        <5>1. commandsInfo'[g] = commandsInfo[g]
          BY <3>1, <4>3 DEF Push, TypeOK, ServicesTypeOK
        <5> QED
          BY <1>0, <5>1 DEF HeldInv
      <4> QED
        BY <4>2, <4>3
    <3> QED
      BY <1>0, <2>1a, <3>3 DEF HeldInv
  <2> QED
    BY <2>2, <2>3
<1>3. CASE TakeAllBegins
  <2>1. /\ UNCHANGED <<commandsInfo, drainCmd, jobs>>
        /\ drainPc' = [drainPc EXCEPT ![Head(inbox).begin] = "setWorking"]
    BY <1>3 DEF TakeAllBegins, servicesVars
  <2>2. \A b \in Begins : drainPc'[b] \in {"pop", "spawn"} => drainPc[b] = drainPc'[b]
    BY <2>1 DEF TypeOK
  <2> QED
    BY <1>0, <2>1, <2>2 DEF HeldInv
<1>4. ASSUME NEW b \in Begins, DrainStep(b) PROVE HeldInv'
  <2> USE DEF GoTo
  <2>0. BeginGroup[b] \in Groups /\ commandsInfo[BeginGroup[b]] \in Seq(Commands)
    BY DEF TypeOK, ServicesTypeOK
  <2>1. CASE BeginWorking(b) \/ CheckEmpty(b) \/ EndWorking(b)
    <3>1. UNCHANGED <<commandsInfo, drainCmd, jobs>>
      BY <2>1 DEF BeginWorking, CheckEmpty, EndWorking, setWorking
    <3>2. \E pc \in {"check", "clear", "front", "done"} :
            drainPc' = [drainPc EXCEPT ![b] = pc]
      BY <2>1 DEF BeginWorking, CheckEmpty, EndWorking
    <3>3. \A d \in Begins : drainPc'[d] \in {"pop", "spawn"} => drainPc[d] = drainPc'[d]
      BY <3>2 DEF TypeOK
    <3> QED
      BY <1>0, <3>1, <3>3 DEF HeldInv
  <2>2. CASE GetFront(b)
    <3>1. CASE isEmptyCommands(BeginGroup[b])
      BY <1>1, <2>2, <3>1 DEF GetFront, servicesVars
    <3>2. CASE ~isEmptyCommands(BeginGroup[b])
      <4>1. /\ UNCHANGED <<commandsInfo, jobs>>
            /\ drainPc' = [drainPc EXCEPT ![b] = "pop"]
            /\ drainCmd' = [drainCmd EXCEPT ![b] = FrontOf(BeginGroup[b])]
        BY <2>2, <3>2 DEF GetFront, servicesVars
      <4>2. 1 \in DOMAIN commandsInfo[BeginGroup[b]]
            /\ FrontOf(BeginGroup[b]) = commandsInfo[BeginGroup[b]][1]
        BY <2>0, <3>2, SeqFront DEF isEmptyCommands, FrontOf
      <4>3. FrontOf(BeginGroup[b]) \in takenOn
        BY <2>0, <4>2 DEF HeldInv
      <4>4. \A d \in Begins : drainPc'[d] \in {"pop", "spawn"} => drainCmd'[d] \in takenOn
        BY <4>1, <4>3 DEF HeldInv, TypeOK
      <4> QED
        BY <1>0, <4>1, <4>4 DEF HeldInv
    <3> QED
      BY <3>1, <3>2
  <2>3. CASE Pop(b)
    <3>1. CASE isEmptyCommands(BeginGroup[b])
      BY <1>1, <2>3, <3>1 DEF Pop, servicesVars
    <3>2. CASE ~isEmptyCommands(BeginGroup[b])
      <4>1. /\ UNCHANGED <<drainCmd, jobs>>
            /\ drainPc[b] = "pop"
            /\ drainPc' = [drainPc EXCEPT ![b] = "spawn"]
            /\ commandsInfo' = [commandsInfo EXCEPT ![BeginGroup[b]] = Tail(@)]
        BY <2>3, <3>2 DEF Pop, PopFront, At
      <4>2. ASSUME NEW g \in Groups, NEW i \in DOMAIN commandsInfo'[g]
            PROVE  commandsInfo'[g][i] \in takenOn
        <5>1. CASE g = BeginGroup[b]
          <6>1. commandsInfo'[g] = Tail(commandsInfo[g])
            BY <2>0, <4>1, <5>1 DEF TypeOK, ServicesTypeOK
          <6>2. \A k \in DOMAIN Tail(commandsInfo[g]) : Tail(commandsInfo[g])[k] \in takenOn
            <7>1. commandsInfo[g] \in Seq(Commands) /\ commandsInfo[g] # <<>>
              BY <2>0, <3>2, <5>1 DEF isEmptyCommands
            <7>2. \A k \in DOMAIN Tail(commandsInfo[g]) :
                    /\ k + 1 \in DOMAIN commandsInfo[g]
                    /\ Tail(commandsInfo[g])[k] = commandsInfo[g][k + 1]
              BY <7>1, SeqFront
            <7> QED
              BY <7>2 DEF HeldInv
          <6> QED
            BY <6>1, <6>2
        <5>2. CASE g # BeginGroup[b]
          BY <4>1, <5>2 DEF HeldInv, TypeOK, ServicesTypeOK
        <5> QED
          BY <5>1, <5>2
      <4>3. \A d \in Begins : drainPc'[d] \in {"pop", "spawn"} => drainCmd'[d] \in takenOn
        BY <4>1 DEF HeldInv, TypeOK
      <4> QED
        BY <1>0, <4>1, <4>2, <4>3 DEF HeldInv
    <3> QED
      BY <3>1, <3>2
  <2>4. CASE Spawn(b)
    <3>1. /\ UNCHANGED <<commandsInfo, drainCmd>>
          /\ drainPc[b] = "spawn"
          /\ drainPc' = [drainPc EXCEPT ![b] = "check"]
          /\ jobs' = [jobs EXCEPT ![<<b, drainCmd[b]>>] = "execute"]
      BY <2>4 DEF Spawn, servicesVars, At
    <3>2. drainCmd[b] \in takenOn
      BY <3>1 DEF HeldInv
    <3>3. ASSUME NEW j \in Jobs, jobs'[j] # "none" PROVE j[2] \in takenOn
      <4>1. CASE j = <<b, drainCmd[b]>>
        BY <3>2, <4>1
      <4>2. CASE j # <<b, drainCmd[b]>>
        BY <3>1, <3>3, <4>2 DEF HeldInv, TypeOK
      <4> QED
        BY <4>1, <4>2
    <3>4. \A d \in Begins : drainPc'[d] \in {"pop", "spawn"} => drainPc[d] = drainPc'[d]
      BY <3>1 DEF TypeOK
    <3> QED
      BY <1>0, <3>1, <3>3, <3>4 DEF HeldInv
  <2> QED
    BY <1>4, <2>1, <2>2, <2>3, <2>4 DEF DrainStep
<1>5. ASSUME NEW j \in Jobs, JobStep(j) PROVE HeldInv'
  <2>1. /\ UNCHANGED <<commandsInfo, drainPc, drainCmd>>
        /\ jobs[j] # "none"
        /\ \E pc \in {"lock", "emit", "done"} : jobs' = [jobs EXCEPT ![j] = pc]
    BY <1>5 DEF JobStep, Execute, LockToEmit, EmitFinished, JobAt, jobFrame, servicesVars
  <2>2. \A k \in Jobs : jobs'[k] # "none" => jobs[k] # "none"
    BY <2>1 DEF TypeOK
  <2> QED
    BY <1>0, <2>1, <2>2 DEF HeldInv
<1>6. CASE \E m \in Messages : BrainSends(m)
  BY <1>1, <1>6 DEF BrainSends, servicesVars, threadVars
<1>7. CASE TakeWorkAssignation \/ EmitReply \/ TakeWorkStatus \/ ReadStatus
             \/ TakeRegistrationReply
  BY <1>1, <1>7 DEF TakeWorkAssignation, EmitReply, TakeWorkStatus, ReadStatus,
                    TakeRegistrationReply, servicesVars, threadVars
<1>8. CASE DataRace \/ OnClose \/ UNCHANGED vars
  BY <1>1, <1>8 DEF DataRace, OnClose, vars, servicesVars, threadVars
<1> QED
  BY <1>2, <1>3, <1>4, <1>5, <1>6, <1>7, <1>8 DEF Next, NetStep

\* The emit of a finished command finds its ACCEPTED already sent.
LEMMA OrderStep ==
  ASSUME TypeOK, LockInv, ReplyInv, HeldInv, AcceptedBeforeFinished, [Next]_vars
  PROVE  AcceptedBeforeFinished'
<1>0. outbox \in Seq(Replies)
  BY DEF TypeOK
<1>1. ASSUME NEW r \in Replies, outbox' = Append(outbox, r),
             \A c \in Commands : IsFinish(r, c) => AcceptSent(c)
      PROVE  AcceptedBeforeFinished'
  <2> SUFFICES ASSUME NEW c \in Commands, NEW i \in DOMAIN Append(outbox, r),
                      IsFinish(Append(outbox, r)[i], c)
               PROVE  \E k \in 1..(i - 1) : IsAccept(Append(outbox, r)[k], c)
    BY <1>1 DEF AcceptedBeforeFinished
  <2>1. /\ DOMAIN outbox = 1..Len(outbox)
        /\ Len(outbox) \in Nat
        /\ \A k \in DOMAIN outbox : Append(outbox, r)[k] = outbox[k]
    BY <1>0, AppendKeeps
  <2>2. CASE i \in DOMAIN outbox
    <3>1. PICK k \in 1..(i - 1) : IsAccept(outbox[k], c)
      BY <2>1, <2>2 DEF AcceptedBeforeFinished
    <3>2. k \in DOMAIN outbox
      BY <2>1, <2>2, <3>1
    <3> QED
      BY <2>1, <3>1, <3>2
  <2>3. CASE i = Len(outbox) + 1 /\ Append(outbox, r)[i] = r
    <3>1. PICK k \in DOMAIN outbox : IsAccept(outbox[k], c)
      BY <1>1, <2>3 DEF AcceptSent
    <3>2. k \in 1..(i - 1)
      BY <2>1, <2>3, <3>1
    <3> QED
      BY <2>1, <3>1, <3>2
  <2> QED
    BY <1>0, <2>2, <2>3, AppendElement
<1>2. CASE outbox' = outbox
  BY <1>2 DEF AcceptedBeforeFinished
<1>3. CASE EmitReply
  <2>1. outbox' = Append(outbox, net.reply) /\ net.reply \in Replies
    BY <1>3 DEF EmitReply, TypeOK
  <2>2. \A c \in Commands : ~IsFinish(net.reply, c)
    BY <1>3 DEF EmitReply, ReplyInv, IsFinish
  <2> QED
    BY <1>1, <2>1, <2>2
<1>4. CASE \E j \in Jobs : EmitFinished(j)
  <2>1. PICK j \in Jobs : EmitFinished(j)
    BY <1>4
  <2> DEFINE r == Reply("ACTION_FINISHED", "handling_module", j[2], "DONE")
  <2>2. outbox' = Append(outbox, r) /\ r \in Replies
    BY <2>1, ReplyInReplies DEF EmitFinished, Jobs, Ids
  <2>3. net.pc = "idle" /\ j[2] \in takenOn
    BY <2>1 DEF EmitFinished, JobAt, LockInv, HeldInv
  <2>4. \A c \in Commands : IsFinish(r, c) => AcceptSent(c)
    BY <2>3 DEF Reply, IsFinish, takenOn
  <2> HIDE DEF r
  <2> QED
    BY <1>1, <2>2, <2>4
<1> QED
  BY <1>2, <1>3, <1>4, StepEmits

\* Nothing is held or reported at the start.
LEMMA ReportInit == Init => ReportInv
<1> SUFFICES ASSUME Init PROVE ReportInv
  OBVIOUS
<1>1. LockInv /\ ReplyInv
  BY DEF Init, LockInv, ReplyInv
<1>2. HeldInv
  BY EmptySeq DEF Init, ServicesInit, HeldInv
<1>3. AcceptedBeforeFinished
  BY EmptySeq DEF Init, AcceptedBeforeFinished
<1> QED
  BY <1>1, <1>2, <1>3 DEF ReportInv

\* The four parts of ReportInv together are inductive.
LEMMA ReportStep == TypeOK /\ ReportInv /\ [Next]_vars => ReportInv'
  BY LockStep, ReplyStep, HeldStep, OrderStep DEF ReportInv

(***************************************************************************)
(* At most one thread is in a section between lock() and unlock() of the   *)
(* mutex, and such a thread has it locked.                                 *)
(***************************************************************************)
THEOREM MutualExclusion == Spec => []LockInv
<1>1. TypeOK /\ LockInv /\ [Next]_vars => LockInv'
  BY LockStep
<1>2. Init => LockInv
  BY ReportInit DEF ReportInv
<1> QED
  BY <1>1, <1>2, TypeCorrect, PTL DEF Spec

(***************************************************************************)
(* However many ALL_BEGINS the brain sends and whenever it sends them, it  *)
(* hears ACCEPTED for a command before it hears that it finished: the      *)
(* WORK_ASSIGNATION handler holds the mutex from the push of the command   *)
(* to the emit of its reply, and consumeService emits under the same mutex.*)
(***************************************************************************)
THEOREM ReportsInOrder == Spec => []AcceptedBeforeFinished
<1>1. Spec => []ReportInv
  BY ReportInit, ReportStep, TypeCorrect, PTL DEF Spec
<1>2. ReportInv => AcceptedBeforeFinished
  BY DEF ReportInv
<1> QED
  BY <1>1, <1>2, PTL

-----------------------------------------------------------------------------
\* The queue of a group between the check, the front and the pop of its drain.

\* With one drain per group, only that drain removes from the group's queue.
LEMMA FrontStep ==
  ASSUME OneBegin, TypeOK, PopsWhatItRead, [Next]_vars
  PROVE  PopsWhatItRead'
<1> USE CommandsAssumption, ChannelAssumption
<1>1. CASE UNCHANGED <<commandsInfo, drainPc, drainCmd, fault>>
  BY <1>1 DEF PopsWhatItRead, FrontOf
<1>2. CASE AssessWork
  <2>1. PICK c \in Commands : c = net.reply.cmd
    BY <1>2 DEF AssessWork, TypeOK, Replies
  <2>2. UNCHANGED <<drainPc, drainCmd, fault>>
    BY <1>2 DEF AssessWork
  <2>3. CASE ~Assessable(c)
    BY <1>1, <1>2, <2>1, <2>3 DEF AssessWork, servicesVars
  <2>4. CASE Assessable(c)
    <3>1. commandsInfo' = [commandsInfo EXCEPT ![CommandGroup[c]] = Append(@, c)]
      BY <1>2, <2>1, <2>4 DEF AssessWork, Push
    <3>2. ASSUME NEW g \in Groups, commandsInfo[g] # <<>>
          PROVE  commandsInfo'[g] # <<>> /\ Head(commandsInfo'[g]) = Head(commandsInfo[g])
      <4>1. commandsInfo[g] \in Seq(Commands)
        BY DEF TypeOK, ServicesTypeOK
      <4>2. commandsInfo'[g] \in {commandsInfo[g], Append(commandsInfo[g], c)}
        BY <3>1 DEF TypeOK, ServicesTypeOK
      <4>3. /\ Append(commandsInfo[g], c) # <<>>
            /\ Head(Append(commandsInfo[g], c)) = Head(commandsInfo[g])
        BY <3>2, <4>1, AppendHead
      <4> QED
        BY <3>2, <4>2, <4>3
    <3> QED
      BY <2>2, <3>2 DEF PopsWhatItRead, FrontOf
  <2> QED
    BY <2>3, <2>4
<1>3. CASE TakeAllBegins
  <2>1. /\ UNCHANGED <<commandsInfo, drainCmd, fault>>
        /\ drainPc' = [drainPc EXCEPT ![Head(inbox).begin] = "setWorking"]
    BY <1>3 DEF TakeAllBegins, servicesVars
  <2>2. \A b \in Begins : drainPc'[b] \in {"front", "pop"} => drainPc[b] = drainPc'[b]
    BY <2>1 DEF TypeOK
  <2> QED
    BY <2>1, <2>2 DEF PopsWhatItRead, FrontOf
<1>4. ASSUME NEW b \in Begins, DrainStep(b) PROVE PopsWhatItRead'
  <2> USE DEF GoTo
  <2>1. CASE BeginWorking(b) \/ Spawn(b) \/ EndWorking(b)
    <3>1. UNCHANGED <<commandsInfo, drainCmd, fault>>
      BY <2>1 DEF BeginWorking, Spawn, EndWorking, setWorking, servicesVars
    <3>2. \E pc \in {"check", "done"} : drainPc' = [drainPc EXCEPT ![b] = pc]
      BY <2>1 DEF BeginWorking, Spawn, EndWorking
    <3>3. \A d \in Begins : drainPc'[d] \in {"front", "pop"} => drainPc[d] = drainPc'[d]
      BY <3>2 DEF TypeOK
    <3> QED
      BY <3>1, <3>3 DEF PopsWhatItRead, FrontOf
  <2>2. CASE CheckEmpty(b)
    <3>1. /\ UNCHANGED <<commandsInfo, drainCmd, fault>>
          /\ drainPc' = [drainPc EXCEPT ![b] =
                           IF isEmptyCommands(BeginGroup[b]) THEN "clear" ELSE "front"]
      BY <2>2 DEF CheckEmpty
    <3> QED
      BY <3>1 DEF PopsWhatItRead, FrontOf, isEmptyCommands, TypeOK
  <2>3. CASE GetFront(b)
    <3>1. drainPc[b] = "front" /\ ~isEmptyCommands(BeginGroup[b])
      BY <2>3 DEF GetFront, At, PopsWhatItRead, isEmptyCommands
    <3>2. /\ UNCHANGED <<commandsInfo, fault>>
          /\ drainPc' = [drainPc EXCEPT ![b] = "pop"]
          /\ drainCmd' = [drainCmd EXCEPT ![b] = FrontOf(BeginGroup[b])]
      BY <2>3, <3>1 DEF GetFront, servicesVars
    <3> QED
      BY <3>1, <3>2 DEF PopsWhatItRead, FrontOf, isEmptyCommands, TypeOK
  <2>4. CASE Pop(b)
    <3>1. drainPc[b] = "pop" /\ ~isEmptyCommands(BeginGroup[b])
      BY <2>4 DEF Pop, At, PopsWhatItRead, isEmptyCommands
    <3>2. /\ UNCHANGED <<drainCmd, fault>>
          /\ drainPc' = [drainPc EXCEPT ![b] = "spawn"]
          /\ commandsInfo' = [commandsInfo EXCEPT ![BeginGroup[b]] = Tail(@)]
      BY <2>4, <3>1 DEF Pop, PopFront
    <3>3. \A d \in Begins \ {b} :
            /\ drainPc'[d] = drainPc[d]
            /\ commandsInfo'[BeginGroup[d]] = commandsInfo[BeginGroup[d]]
      BY <3>2 DEF OneBegin, TypeOK, ServicesTypeOK
    <3>4. drainPc'[b] = "spawn"
      BY <3>2 DEF TypeOK
    <3> QED
      BY <3>2, <3>3, <3>4 DEF PopsWhatItRead, FrontOf
  <2> QED
    BY <1>4, <2>1, <2>2, <2>3, <2>4 DEF DrainStep
<1>5. CASE \E j \in Jobs : JobStep(j)
  BY <1>1, <1>5 DEF JobStep, Execute, LockToEmit, EmitFinished, jobFrame, servicesVars
<1>6. CASE \E m \in Messages : BrainSends(m)
  BY <1>1, <1>6 DEF BrainSends, servicesVars, threadVars
<1>7. CASE TakeWorkAssignation \/ EmitReply \/ TakeWorkStatus \/ ReadStatus
             \/ TakeRegistrationReply
  BY <1>1, <1>7 DEF TakeWorkAssignation, EmitReply, TakeWorkStatus, ReadStatus,
                    TakeRegistrationReply, servicesVars, threadVars
<1>8. CASE DataRace \/ OnClose
  BY <1>8 DEF DataRace, OnClose, PopsWhatItRead, FrontOf, servicesVars, threadVars
<1>9. CASE UNCHANGED vars
  BY <1>1, <1>9 DEF vars, servicesVars, threadVars
<1> QED
  BY <1>2, <1>3, <1>4, <1>5, <1>6, <1>7, <1>8, <1>9 DEF Next, NetStep

(***************************************************************************)
(* With one ALL_BEGINS per group, a drain that saw its queue non-empty     *)
(* finds it so, with the same command in front, until its own pop(): front *)
(* and pop are never called on an empty queue and pop removes the command  *)
(* that front returned, although neither takes the mutex and assessWork    *)
(* may push in between.                                                    *)
(***************************************************************************)
THEOREM DrainOwnsItsQueue ==
  ASSUME OneBegin
  PROVE  Spec => []PopsWhatItRead
<1>1. Init => PopsWhatItRead
  BY DEF Init, PopsWhatItRead
<1>2. TypeOK /\ PopsWhatItRead /\ [Next]_vars => PopsWhatItRead'
  BY FrontStep
<1> QED
  BY <1>1, <1>2, TypeCorrect, PTL DEF Spec

-----------------------------------------------------------------------------
\* The working flag and the threads that set and clear it.

\* An event in the inbox is not in the rest of it, when no event is there twice.
LEMMA HeadOnlyOnce ==
  ASSUME NEW S, NEW s \in Seq(S), s # <<>>,
         \A i, k \in DOMAIN s : s[i] = s[k] => i = k
  PROVE  /\ \A i \in DOMAIN Tail(s) : Tail(s)[i] # Head(s)
         /\ \A i, k \in DOMAIN Tail(s) : Tail(s)[i] = Tail(s)[k] => i = k
<1>1. /\ 1 \in DOMAIN s
      /\ Head(s) = s[1]
      /\ \A i \in DOMAIN Tail(s) : i + 1 \in DOMAIN s /\ Tail(s)[i] = s[i + 1]
  BY SeqFront
<1>2. DOMAIN Tail(s) \subseteq Nat /\ \A i \in DOMAIN Tail(s) : i >= 1
  <2>1. Tail(s) \in Seq(S)
    BY SeqFront
  <2> QED
    BY <2>1, LenProperties
<1>3. \A i \in DOMAIN Tail(s) : i + 1 # 1
  BY <1>2
<1>4. \A i, k \in DOMAIN Tail(s) : i + 1 = k + 1 => i = k
  BY <1>2
<1> QED
  BY <1>1, <1>3, <1>4

\* An event called ALL_BEGINS is one of Begins.
LEMMA BeginsAreBegins ==
  ASSUME NEW m \in Messages, m.event = "ALL_BEGINS"
  PROVE  \E d \in Begins : m = Begin(d)
<1>1. \A c : Assignation(c).event # "ALL_BEGINS"
  BY DEF Assignation
<1>2. \A c : Status(c).event # "ALL_BEGINS"
  BY DEF Status
<1>3. \A id : Registration(id).event # "ALL_BEGINS"
  BY DEF Registration
<1> QED
  BY <1>1, <1>2, <1>3 DEF Messages

\* The inbox holds each event at most once, and no event that has created its thread.
LEMMA BeginOnceStep ==
  ASSUME TypeOK, BeginOnceInv, [Next]_vars
  PROVE  BeginOnceInv'
<1> USE ChannelAssumption
<1>1. CASE UNCHANGED <<sent, inbox, drainPc>>
  BY <1>1 DEF BeginOnceInv
<1>2. ASSUME NEW m \in Messages, BrainSends(m) PROVE BeginOnceInv'
  <2>1. m \notin sent /\ sent' = sent \cup {m} /\ inbox' = Append(inbox, m)
    BY <1>2 DEF BrainSends
  <2>2. UNCHANGED drainPc
    BY <1>2 DEF BrainSends, threadVars
  <2>3. inbox \in Seq(Messages)
    BY DEF TypeOK
  <2>4. \A i \in DOMAIN inbox' :
          \/ i \in DOMAIN inbox /\ inbox'[i] = inbox[i]
          \/ i = Len(inbox) + 1 /\ inbox'[i] = m
    BY <2>1, <2>3, AppendElement
  <2>5. \A i \in DOMAIN inbox : inbox[i] \in sent /\ inbox[i] # m
    BY <2>1 DEF BeginOnceInv
  <2>6. \A i \in DOMAIN inbox' : inbox'[i] \in sent'
    BY <2>1, <2>4, <2>5
  <2>7. \A i, k \in DOMAIN inbox' : inbox'[i] = inbox'[k] => i = k
    BY <2>4, <2>5 DEF BeginOnceInv
  <2>8. ASSUME NEW b \in Begins, drainPc'[b] # "none"
        PROVE  Begin(b) \in sent' /\ \A i \in DOMAIN inbox' : inbox'[i] # Begin(b)
    <3>1. Begin(b) \in sent /\ \A i \in DOMAIN inbox : inbox[i] # Begin(b)
      BY <2>2, <2>8 DEF BeginOnceInv
    <3> QED
      BY <2>1, <2>4, <3>1
  <2>9. \A b \in Begins : UNCHANGED Begin(b)
    BY DEF Begin
  <2> QED
    BY <2>6, <2>7, <2>8, <2>9 DEF BeginOnceInv
<1>3. ASSUME NEW e, Delivered(e),
             drainPc' = drainPc \/
               \E d \in Begins : Head(inbox) = Begin(d)
                                 /\ drainPc' = [drainPc EXCEPT ![d] = "setWorking"]
      PROVE  BeginOnceInv'
  <2>1. inbox \in Seq(Messages) /\ inbox # <<>> /\ inbox' = Tail(inbox) /\ UNCHANGED sent
    BY <1>3 DEF Delivered, TypeOK
  <2>2. \A i, k \in DOMAIN inbox : inbox[i] = inbox[k] => i = k
    BY DEF BeginOnceInv
  <2>3. /\ \A i \in DOMAIN inbox' : inbox'[i] # Head(inbox)
        /\ \A i, k \in DOMAIN inbox' : inbox'[i] = inbox'[k] => i = k
    BY <2>1, <2>2, HeadOnlyOnce
  <2>4. /\ Head(inbox) = inbox[1] /\ 1 \in DOMAIN inbox
        /\ \A i \in DOMAIN inbox' : \E k \in DOMAIN inbox : inbox'[i] = inbox[k]
    BY <2>1, SeqFront
  <2>5. Head(inbox) \in sent /\ \A i \in DOMAIN inbox' : inbox'[i] \in sent'
    <3>1. \A k \in DOMAIN inbox : inbox[k] \in sent
      BY DEF BeginOnceInv
    <3> QED
      BY <2>1, <2>4, <3>1
  <2>6. ASSUME NEW b \in Begins, drainPc'[b] # "none"
        PROVE  Begin(b) \in sent' /\ \A i \in DOMAIN inbox' : inbox'[i] # Begin(b)
    <3>1. CASE drainPc[b] # "none"
      <4>1. Begin(b) \in sent /\ \A k \in DOMAIN inbox : inbox[k] # Begin(b)
        BY <3>1 DEF BeginOnceInv
      <4> QED
        BY <2>1, <2>4, <4>1
    <3>2. CASE drainPc[b] = "none"
      <4>1. PICK d \in Begins : Head(inbox) = Begin(d)
                                /\ drainPc' = [drainPc EXCEPT ![d] = "setWorking"]
        BY <1>3, <2>6, <3>2
      <4>2. b = d
        BY <2>6, <3>2, <4>1 DEF TypeOK
      <4> QED
        BY <2>1, <2>3, <2>5, <4>1, <4>2
    <3> QED
      BY <3>1, <3>2
  <2>7. \A b \in Begins : UNCHANGED Begin(b)
    BY DEF Begin
  <2> QED
    BY <2>3, <2>5, <2>6, <2>7 DEF BeginOnceInv
<1>4. CASE TakeWorkAssignation \/ TakeWorkStatus \/ TakeRegistrationReply
  BY <1>3, <1>4 DEF TakeWorkAssignation, TakeWorkStatus, TakeRegistrationReply, threadVars
<1>5. CASE TakeAllBegins
  <2>1. Delivered("ALL_BEGINS") /\ Head(inbox) \in Messages
    BY <1>5, DeliveredHead DEF TakeAllBegins
  <2>2. \E d \in Begins : Head(inbox) = Begin(d)
    BY <2>1, BeginsAreBegins DEF Delivered
  <2>3. PICK d \in Begins : Head(inbox) = Begin(d)
    BY <2>2
  <2>4. drainPc' = [drainPc EXCEPT ![d] = "setWorking"]
    <3>1. Begin(d).begin = d
      BY DEF Begin
    <3> QED
      BY <1>5, <2>3, <3>1 DEF TakeAllBegins
  <2> QED
    BY <1>3, <2>1, <2>3, <2>4
<1>6. CASE AssessWork \/ EmitReply \/ ReadStatus
  BY <1>1, <1>6 DEF AssessWork, EmitReply, ReadStatus, brainVars
<1>7. ASSUME NEW b \in Begins, DrainStep(b) PROVE BeginOnceInv'
  <2>1. UNCHANGED <<sent, inbox>>
    BY <1>7 DEF DrainStep, BeginWorking, CheckEmpty, GetFront, Pop, Spawn, EndWorking,
                drainFrame, brainVars
  <2>2. drainPc[b] # "none"
    BY <1>7 DEF DrainStep, BeginWorking, CheckEmpty, GetFront, Pop, Spawn, EndWorking, At
  <2>3. \A d \in Begins : drainPc'[d] # "none" => drainPc[d] # "none"
    <3>1. drainPc' = drainPc \/ \E pc : drainPc' = [drainPc EXCEPT ![b] = pc]
      BY <1>7 DEF DrainStep, BeginWorking, CheckEmpty, GetFront, Pop, Spawn, EndWorking, GoTo
    <3> QED
      BY <2>2, <3>1 DEF TypeOK
  <2>4. \A d \in Begins : UNCHANGED Begin(d)
    BY DEF Begin
  <2> QED
    BY <2>1, <2>3, <2>4 DEF BeginOnceInv
<1>8. CASE \E j \in Jobs : JobStep(j)
  BY <1>1, <1>8 DEF JobStep, Execute, LockToEmit, EmitFinished, jobFrame, brainVars
<1>9. CASE DataRace \/ OnClose \/ UNCHANGED vars
  BY <1>1, <1>9 DEF DataRace, OnClose, vars, brainVars, threadVars
<1> QED
  BY <1>2, <1>4, <1>5, <1>6, <1>7, <1>8, <1>9 DEF Next, NetStep

\* The threads between their two setWorking calls.
draining == {b \in Begins : drainPc[b] \in {"check", "front", "pop", "spawn", "clear"}}

\* The flag goes up with a drain that enters and cannot outlive the last one that leaves.
LEMMA FlagStep ==
  ASSUME TypeOK, BeginOnceInv, WorkingOnlyWhileDraining, [Next]_vars
  PROVE  WorkingOnlyWhileDraining'
<1> USE ChannelAssumption
<1>1. ASSUME UNCHANGED working, draining \subseteq draining'
      PROVE  WorkingOnlyWhileDraining'
  BY <1>1 DEF WorkingOnlyWhileDraining, draining
<1>2. CASE UNCHANGED <<working, drainPc>>
  BY <1>2 DEF WorkingOnlyWhileDraining
<1>3. CASE TakeAllBegins
  <2>1. Delivered("ALL_BEGINS") /\ Head(inbox) \in Messages
    BY <1>3, DeliveredHead DEF TakeAllBegins
  <2>2. \E d \in Begins : Head(inbox) = Begin(d)
    BY <2>1, BeginsAreBegins DEF Delivered
  <2>3. PICK d \in Begins : Head(inbox) = Begin(d)
    BY <2>2
  <2>4. drainPc' = [drainPc EXCEPT ![d] = "setWorking"] /\ UNCHANGED working
    <3>1. Begin(d).begin = d
      BY DEF Begin
    <3> QED
      BY <1>3, <2>3, <3>1 DEF TakeAllBegins, servicesVars
  <2>5. drainPc[d] = "none"
    <3>1. inbox \in Seq(Messages) /\ inbox # <<>>
      BY <2>1 DEF Delivered, TypeOK
    <3>2. 1 \in DOMAIN inbox /\ Head(inbox) = inbox[1]
      BY <3>1, SeqFront
    <3> QED
      BY <2>3, <3>2 DEF BeginOnceInv
  <2> QED
    BY <1>1, <2>4, <2>5 DEF draining, TypeOK
<1>4. ASSUME NEW b \in Begins, DrainStep(b) PROVE WorkingOnlyWhileDraining'
  <2>1. CASE BeginWorking(b)
    <3>1. drainPc'[b] = "check"
      BY <2>1 DEF BeginWorking, GoTo, TypeOK
    <3> QED
      BY <3>1 DEF WorkingOnlyWhileDraining
  <2>2. CASE EndWorking(b)
    BY <2>2 DEF EndWorking, setWorking, WorkingOnlyWhileDraining
  <2>3. CASE CheckEmpty(b) \/ GetFront(b) \/ Pop(b) \/ Spawn(b)
    <3>1. UNCHANGED working
      BY <2>3 DEF CheckEmpty, GetFront, Pop, PopFront, Spawn, servicesVars
    <3>2. drainPc' = drainPc \/ \E pc \in {"clear", "front", "pop", "spawn", "check"} :
                                  drainPc' = [drainPc EXCEPT ![b] = pc]
      BY <2>3 DEF CheckEmpty, GetFront, Pop, Spawn, GoTo
    <3>3. draining \subseteq draining'
      BY <3>2 DEF draining, TypeOK
    <3> QED
      BY <1>1, <3>1, <3>3
  <2> QED
    BY <1>4, <2>1, <2>2, <2>3 DEF DrainStep
<1>5. CASE AssessWork
  BY <1>2, <1>5 DEF AssessWork, Push, servicesVars
<1>6. CASE TakeWorkAssignation \/ EmitReply \/ TakeWorkStatus \/ ReadStatus
             \/ TakeRegistrationReply
  BY <1>2, <1>6 DEF TakeWorkAssignation, EmitReply, TakeWorkStatus, ReadStatus,
                    TakeRegistrationReply, servicesVars, threadVars
<1>7. CASE \/ \E j \in Jobs : JobStep(j)
           \/ \E m \in Messages : BrainSends(m)
  BY <1>2, <1>7 DEF JobStep, Execute, LockToEmit, EmitFinished, jobFrame, BrainSends,
                    servicesVars, threadVars
<1>8. CASE DataRace \/ OnClose \/ UNCHANGED vars
  BY <1>2, <1>8 DEF DataRace, OnClose, vars, servicesVars, threadVars
<1> QED
  BY <1>3, <1>4, <1>5, <1>6, <1>7, <1>8 DEF Next, NetStep

(***************************************************************************)
(* However many drains run, the flag that WORK_STATUS reads is never up    *)
(* when none of them is between its two calls of setWorking: each          *)
(* ALL_BEGINS creates its thread once, and each thread clears the flag     *)
(* after it has set it.                                                    *)
(***************************************************************************)
THEOREM FlagNeedsADrain == Spec => []WorkingOnlyWhileDraining
<1>1. Init => BeginOnceInv /\ WorkingOnlyWhileDraining
  <2> SUFFICES ASSUME Init PROVE BeginOnceInv /\ WorkingOnlyWhileDraining
    OBVIOUS
  <2>1. DOMAIN inbox = {}
    BY DEF Init
  <2> QED
    BY <2>1 DEF Init, ServicesInit, BeginOnceInv, WorkingOnlyWhileDraining
<1>2. TypeOK /\ BeginOnceInv /\ WorkingOnlyWhileDraining /\ [Next]_vars
        => BeginOnceInv' /\ WorkingOnlyWhileDraining'
  BY BeginOnceStep, FlagStep
<1> QED
  BY <1>1, <1>2, TypeCorrect, PTL DEF Spec
=============================================================================
