------------------------- MODULE WorkProtocol_proofs -------------------------
(***************************************************************************)
(* With one ALL_BEGINS per group, CommunicationChannel implements          *)
(* WorkProtocol and keeps every command in one place, for every value of   *)
(* its constants.  At the end: what the brain has to keep to in order that *)
(* no two threads of CommunicationChannel meet in the map of queues, which *)
(* all_begins reads without the mutex: every assignation before the first  *)
(* ALL_BEGINS, one ALL_BEGINS per group, and none for a group that was     *)
(* assigned nothing.                                                       *)
(***************************************************************************)
EXTENDS CommunicationChannel_proofs, FiniteSetTheorems

-----------------------------------------------------------------------------
\* What an emit adds to the answers and the reports.

IsRefuse(r, c) == r.event = "WORK_ASSIGNATION_REPLY" /\ r.cmd = c /\ r.answer = "REFUSE"

LEMMA OutboxSame ==
  ASSUME UNCHANGED outbox, NEW c
  PROVE  /\ AcceptSent(c)' <=> AcceptSent(c)
         /\ RefuseSent(c)' <=> RefuseSent(c)
         /\ FinishSent(c)' <=> FinishSent(c)
  BY DEF AcceptSent, RefuseSent, FinishSent

LEMMA OutboxGrows ==
  ASSUME TypeOK, NEW r \in Replies, outbox' = Append(outbox, r), NEW c
  PROVE  /\ AcceptSent(c)' <=> AcceptSent(c) \/ IsAccept(r, c)
         /\ RefuseSent(c)' <=> RefuseSent(c) \/ IsRefuse(r, c)
         /\ FinishSent(c)' <=> FinishSent(c) \/ IsFinish(r, c)
<1>1. outbox \in Seq(Replies)
  BY DEF TypeOK
<1>2. /\ \A i \in DOMAIN outbox : i \in DOMAIN outbox' /\ outbox'[i] = outbox[i]
      /\ Len(outbox) + 1 \in DOMAIN outbox'
      /\ outbox'[Len(outbox) + 1] = r
  BY <1>1, AppendKeeps
<1>3. \A i \in DOMAIN outbox' :
        \/ i \in DOMAIN outbox /\ outbox'[i] = outbox[i]
        \/ outbox'[i] = r
  BY <1>1, AppendElement
<1>4. AcceptSent(c)' <=> AcceptSent(c) \/ IsAccept(r, c)
  BY <1>2, <1>3 DEF AcceptSent, IsAccept
<1>5. RefuseSent(c)' <=> RefuseSent(c) \/ IsRefuse(r, c)
  BY <1>2, <1>3 DEF RefuseSent, IsRefuse
<1>6. FinishSent(c)' <=> FinishSent(c) \/ IsFinish(r, c)
  BY <1>2, <1>3 DEF FinishSent, IsFinish
<1> QED
  BY <1>4, <1>5, <1>6

\* Everything that was in a sequence is in it after an Append, and so is what was appended.
LEMMA AppendHas ==
  ASSUME NEW S, NEW s \in Seq(S), NEW r \in S
  PROVE  /\ \A i \in DOMAIN s : i \in DOMAIN Append(s, r) /\ Append(s, r)[i] = s[i]
         /\ Len(s) + 1 \in DOMAIN Append(s, r)
         /\ Append(s, r)[Len(s) + 1] = r
<1>1. /\ DOMAIN s = 1..Len(s)
      /\ DOMAIN Append(s, r) = 1..(Len(s) + 1)
      /\ Len(s) \in Nat
  BY AppendKeeps
<1>2. DOMAIN s \subseteq DOMAIN Append(s, r) /\ Len(s) + 1 \in DOMAIN Append(s, r)
  BY <1>1
<1> QED
  BY <1>2, AppendKeeps

\* The report of a finished command is no answer to an assignation.
LEMMA FinishedReply ==
  ASSUME NEW j \in Jobs, NEW r, r = Reply("ACTION_FINISHED", "handling_module", j[2], "DONE")
  PROVE  /\ r \in Replies
         /\ j[2] \in Commands
         /\ \A c : ~IsAccept(r, c) /\ ~IsRefuse(r, c) /\ (IsFinish(r, c) <=> c = j[2])
<1>1. j[2] \in Commands /\ "handling_module" \in Ids
  BY DEF Jobs, Ids
<1>2. r \in Replies
  BY <1>1, ReplyInReplies
<1>3. r.event = "ACTION_FINISHED" /\ r.cmd = j[2]
  BY DEF Reply
<1> QED
  BY <1>1, <1>2, <1>3 DEF IsAccept, IsRefuse, IsFinish

-----------------------------------------------------------------------------
\* One answer for each assignation.

\* An event called WORK_ASSIGNATION is the assignation of its command.
LEMMA AssignationsAreAssignations ==
  ASSUME NEW m \in Messages, m.event = "WORK_ASSIGNATION"
  PROVE  m.cmd \in Commands /\ m = Assignation(m.cmd)
<1>1. \A b : Begin(b).event # "WORK_ASSIGNATION"
  BY DEF Begin
<1>2. \A c : Status(c).event # "WORK_ASSIGNATION"
  BY DEF Status
<1>3. \A id : Registration(id).event # "WORK_ASSIGNATION"
  BY DEF Registration
<1>4. PICK c \in Commands : m = Assignation(c)
  BY <1>1, <1>2, <1>3 DEF Messages
<1>5. m.cmd = c
  BY <1>4 DEF Assignation
<1> QED
  BY <1>4, <1>5

\* What is left in the inbox after an event is delivered.
LEMMA DeliveredRest ==
  ASSUME TypeOK, BeginOnceInv, NEW e, Delivered(e)
  PROVE  /\ net.pc = "idle" /\ UNCHANGED sent
         /\ Head(inbox) \in Messages /\ Head(inbox).event = e
         /\ Head(inbox) \in sent
         /\ \E i \in DOMAIN inbox : inbox[i] = Head(inbox)
         /\ \A i \in DOMAIN inbox' : inbox'[i] # Head(inbox)
         /\ \A i \in DOMAIN inbox' : \E k \in DOMAIN inbox : inbox'[i] = inbox[k]
<1>1. inbox \in Seq(Messages) /\ inbox # <<>> /\ inbox' = Tail(inbox)
  BY DEF Delivered, TypeOK
<1>2. /\ 1 \in DOMAIN inbox /\ Head(inbox) = inbox[1] /\ Head(inbox) \in Messages
      /\ \A i \in DOMAIN inbox' : i + 1 \in DOMAIN inbox /\ inbox'[i] = inbox[i + 1]
  BY <1>1, SeqFront
<1>3. \A i, k \in DOMAIN inbox : inbox[i] = inbox[k] => i = k
  BY DEF BeginOnceInv
<1>4. \A i \in DOMAIN inbox' : inbox'[i] # Head(inbox)
  BY <1>1, <1>3, HeadOnlyOnce
<1>5. Head(inbox) \in sent
  BY <1>2 DEF BeginOnceInv
<1> QED
  BY <1>2, <1>4, <1>5 DEF Delivered

\* Every step keeps an assignation's answer single.
LEMMA AnsweredStep ==
  ASSUME TypeOK, ReplyInv, BeginOnceInv, AnsweredOnceInv, [Next]_vars
  PROVE  AnsweredOnceInv'
<1>1. CASE UNCHANGED <<net, outbox, inbox, sent>>
  BY <1>1 DEF AnsweredOnceInv, Answering, AcceptSent, RefuseSent, Assignation
<1>2. ASSUME NEW m \in Messages, BrainSends(m) PROVE AnsweredOnceInv'
  <2>1. /\ m \notin sent /\ sent' = sent \cup {m} /\ inbox' = Append(inbox, m)
        /\ UNCHANGED <<net, outbox>>
    BY <1>2 DEF BrainSends, threadVars
  <2>2. \A i \in DOMAIN inbox' : inbox'[i] = m \/ \E k \in DOMAIN inbox : inbox'[i] = inbox[k]
    <3>1. inbox \in Seq(Messages)
      BY DEF TypeOK
    <3>2. \A i \in DOMAIN Append(inbox, m) :
            \/ i \in DOMAIN inbox /\ Append(inbox, m)[i] = inbox[i]
            \/ Append(inbox, m)[i] = m
      BY <3>1, AppendElement
    <3> QED
      BY <2>1, <3>2
  <2>3. ASSUME NEW c \in Commands,
               Assignation(c) \in sent, \A i \in DOMAIN inbox : inbox[i] # Assignation(c)
        PROVE  Assignation(c) \in sent' /\ \A i \in DOMAIN inbox' : inbox'[i] # Assignation(c)
    BY <2>1, <2>2, <2>3
  <2>4. \A c \in Commands : /\ AcceptSent(c)' <=> AcceptSent(c)
                            /\ RefuseSent(c)' <=> RefuseSent(c)
                            /\ Answering(c)' <=> Answering(c)
    BY <2>1, OutboxSame DEF Answering
  <2>5. \A c \in Commands : Assignation(c)' = Assignation(c)
    BY DEF Assignation
  <2> QED
    BY <2>1, <2>3, <2>4, <2>5 DEF AnsweredOnceInv
<1>3. CASE TakeWorkAssignation
  <2> DEFINE c0 == Head(inbox).cmd
  <2>1. Delivered("WORK_ASSIGNATION") /\ UNCHANGED outbox
    BY <1>3 DEF TakeWorkAssignation
  <2>2. c0 \in Commands /\ Head(inbox) = Assignation(c0)
    BY <2>1, DeliveredRest, AssignationsAreAssignations
  <2>3. /\ net'.pc = "assess" /\ net'.reply.event = "WORK_ASSIGNATION_REPLY"
        /\ net'.reply.cmd = c0 /\ net'.reply.answer = "ACCEPTED"
    BY <1>3 DEF TakeWorkAssignation, Reply
  <2>4. \A c \in Commands : Answering(c)' <=> c = c0
    BY <2>3 DEF Answering
  <2>5. \A c \in Commands : (AcceptSent(c)' <=> AcceptSent(c)) /\ (RefuseSent(c)' <=> RefuseSent(c))
    BY <2>1, OutboxSame
  <2>6. ~AcceptSent(c0) /\ ~RefuseSent(c0)
    BY <2>1, <2>2, DeliveredRest DEF AnsweredOnceInv
  <2>7. ASSUME NEW c \in Commands, c = c0 \/ AcceptSent(c) \/ RefuseSent(c)
        PROVE  Assignation(c) \in sent' /\ \A i \in DOMAIN inbox' : inbox'[i] # Assignation(c)
    <3>1. CASE c = c0
      BY <2>1, <2>2, <3>1, DeliveredRest
    <3>2. CASE AcceptSent(c) \/ RefuseSent(c)
      <4>1. Assignation(c) \in sent /\ \A i \in DOMAIN inbox : inbox[i] # Assignation(c)
        BY <3>2 DEF AnsweredOnceInv
      <4> QED
        BY <2>1, <4>1, DeliveredRest
    <3> QED
      BY <2>7, <3>1, <3>2
  <2>8. \A c \in Commands : Assignation(c)' = Assignation(c)
    BY DEF Assignation
  <2> HIDE DEF c0
  <2> QED
    BY <2>3, <2>4, <2>5, <2>6, <2>7, <2>8 DEF AnsweredOnceInv
<1>4. CASE AssessWork
  <2>1. /\ net.pc = "assess" /\ net.reply \in Replies
        /\ net.reply.event = "WORK_ASSIGNATION_REPLY" /\ net.reply.answer = "ACCEPTED"
        /\ UNCHANGED <<outbox, inbox, sent>>
    BY <1>4 DEF AssessWork, TypeOK, ReplyInv, IsAccept, brainVars
  <2>2. \/ net' = [net EXCEPT !.pc = "emit"]
        \/ net' = [pc |-> "emit", reply |-> [net.reply EXCEPT !.answer = "REFUSE"]]
    BY <1>4 DEF AssessWork
  <2>3. /\ net'.pc = "emit" /\ net'.reply.event = "WORK_ASSIGNATION_REPLY"
        /\ net'.reply.cmd = net.reply.cmd
        /\ net'.reply.answer \in {"ACCEPTED", "REFUSE"}
    <3>1. CASE net' = [net EXCEPT !.pc = "emit"]
      BY <2>1, <3>1 DEF TypeOK
    <3>2. CASE net' = [pc |-> "emit", reply |-> [net.reply EXCEPT !.answer = "REFUSE"]]
      BY <2>1, <3>2 DEF Replies
    <3> QED
      BY <2>2, <3>1, <3>2
  <2>4. \A c \in Commands : /\ AcceptSent(c)' <=> AcceptSent(c)
                            /\ RefuseSent(c)' <=> RefuseSent(c)
                            /\ Answering(c)' <=> Answering(c)
    BY <2>1, <2>3, OutboxSame DEF Answering
  <2>5. \A c \in Commands : Assignation(c)' = Assignation(c)
    BY DEF Assignation
  <2> QED
    BY <2>1, <2>3, <2>4, <2>5 DEF AnsweredOnceInv
<1>5. CASE EmitReply
  <2>1. /\ net.pc = "emit" /\ net.reply \in Replies /\ outbox' = Append(outbox, net.reply)
        /\ net'.pc = "idle" /\ UNCHANGED <<inbox, sent>>
    BY <1>5 DEF EmitReply, TypeOK, brainVars
  <2>2. \A c \in Commands : /\ AcceptSent(c)' <=> AcceptSent(c) \/ IsAccept(net.reply, c)
                            /\ RefuseSent(c)' <=> RefuseSent(c) \/ IsRefuse(net.reply, c)
    BY <2>1, OutboxGrows
  <2>3. \A c \in Commands : IsAccept(net.reply, c) \/ IsRefuse(net.reply, c) => Answering(c)
    BY <2>1 DEF IsAccept, IsRefuse, Answering
  <2>4. \A c \in Commands : ~(IsAccept(net.reply, c) /\ IsRefuse(net.reply, c))
    BY DEF IsAccept, IsRefuse
  <2>5. \A c \in Commands : ~Answering(c)'
    BY <2>1 DEF Answering
  <2>6. \A c \in Commands : Assignation(c)' = Assignation(c)
    BY DEF Assignation
  <2> QED
    BY <2>1, <2>2, <2>3, <2>4, <2>5, <2>6 DEF AnsweredOnceInv
<1>6. ASSUME NEW j \in Jobs, EmitFinished(j) PROVE AnsweredOnceInv'
  <2> DEFINE r == Reply("ACTION_FINISHED", "handling_module", j[2], "DONE")
  <2>1. /\ outbox' = Append(outbox, r)
        /\ UNCHANGED <<net, inbox, sent>>
    BY <1>6 DEF EmitFinished, jobFrame, brainVars
  <2>2. r \in Replies /\ \A c : ~IsAccept(r, c) /\ ~IsRefuse(r, c)
    BY FinishedReply
  <2> HIDE DEF r
  <2>3. \A c \in Commands : /\ AcceptSent(c)' <=> AcceptSent(c)
                            /\ RefuseSent(c)' <=> RefuseSent(c)
                            /\ Answering(c)' <=> Answering(c)
    BY <2>1, <2>2, OutboxGrows DEF Answering
  <2>4. \A c \in Commands : Assignation(c)' = Assignation(c)
    BY DEF Assignation
  <2> QED
    BY <2>1, <2>3, <2>4 DEF AnsweredOnceInv
<1>7. CASE TakeAllBegins \/ TakeRegistrationReply \/ TakeWorkStatus
  <2>1. PICK e : Delivered(e)
    BY <1>7 DEF TakeAllBegins, TakeRegistrationReply, TakeWorkStatus
  <2>2. /\ UNCHANGED outbox
        /\ net'.pc \in {"idle", "status"}
        /\ net'.pc = "status" => net'.reply.event = "WORK_STATUS_REPLY"
    BY <1>7, <2>1
    DEF TakeAllBegins, TakeRegistrationReply, TakeWorkStatus, Delivered, threadVars, Reply
  <2>3. \A c \in Commands : /\ AcceptSent(c)' <=> AcceptSent(c)
                            /\ RefuseSent(c)' <=> RefuseSent(c)
                            /\ ~Answering(c)'
    BY <2>2, OutboxSame DEF Answering
  <2>4. \A c \in Commands : Assignation(c)' = Assignation(c)
    BY DEF Assignation
  <2>5. /\ UNCHANGED sent
        /\ \A i \in DOMAIN inbox' : \E k \in DOMAIN inbox : inbox'[i] = inbox[k]
    BY <2>1, DeliveredRest
  <2> QED
    BY <2>2, <2>3, <2>4, <2>5 DEF AnsweredOnceInv
<1>8. CASE ReadStatus
  <2>1. /\ net'.pc = "emit" /\ UNCHANGED <<outbox, inbox, sent>>
        /\ net'.reply.event = "WORK_STATUS_REPLY"
    <3>1. net.pc = "status" /\ net.reply \in Replies /\ net.reply.event = "WORK_STATUS_REPLY"
      BY <1>8 DEF ReadStatus, TypeOK, AnsweredOnceInv
    <3> QED
      BY <1>8, <3>1 DEF ReadStatus, Replies, brainVars
  <2>2. \A c \in Commands : /\ AcceptSent(c)' <=> AcceptSent(c)
                            /\ RefuseSent(c)' <=> RefuseSent(c)
                            /\ ~Answering(c)'
    BY <2>1, OutboxSame DEF Answering
  <2>3. \A c \in Commands : Assignation(c)' = Assignation(c)
    BY DEF Assignation
  <2> QED
    BY <2>1, <2>2, <2>3 DEF AnsweredOnceInv
<1>9. CASE \E b \in Begins : DrainStep(b)
  BY <1>1, <1>9 DEF DrainStep, BeginWorking, CheckEmpty, GetFront, Pop, Spawn, EndWorking,
                    drainFrame, brainVars
<1>10. CASE \E j \in Jobs : Execute(j) \/ LockToEmit(j)
  BY <1>1, <1>10 DEF Execute, LockToEmit, jobFrame, brainVars
<1>11. CASE DataRace \/ OnClose \/ UNCHANGED vars
  BY <1>1, <1>11 DEF DataRace, OnClose, vars, threadVars, brainVars
<1> QED
  BY <1>2, <1>3, <1>4, <1>5, <1>6, <1>7, <1>8, <1>9, <1>10, <1>11
  DEF Next, NetStep, JobStep

-----------------------------------------------------------------------------
\* Where the commands go.

\* Started only depends on which threads there are and on the drains about to create one.
LEMMA StartedSame ==
  ASSUME \A j \in Jobs : jobs'[j] = "none" <=> jobs[j] = "none",
         \A b \in Begins :
           /\ drainPc'[b] = "spawn" <=> drainPc[b] = "spawn"
           /\ drainPc[b] = "spawn" => drainCmd'[b] = drainCmd[b]
  PROVE  Started' = Started
<1>1. \A b \in Begins, c \in Commands : jobs'[<<b, c>>] = "none" <=> jobs[<<b, c>>] = "none"
  BY DEF Jobs
<1> QED
  BY <1>1 DEF Started

(***************************************************************************)
(* A step moves a command in one of two ways: assessWork appends one to    *)
(* its queue, and a pop takes the head of a queue and starts it.           *)
(***************************************************************************)
Appends(c) ==
  /\ AssessWork
  /\ net.pc = "assess" /\ c = net.reply.cmd /\ Assessable(c)
  /\ net' = [net EXCEPT !.pc = "emit"]
  /\ commandsInfo' = [commandsInfo EXCEPT ![CommandGroup[c]] = Append(@, c)]
  /\ UNCHANGED <<outbox, drainPc, drainCmd, jobs>>

Starts(b) ==
  /\ At(b, "pop")
  /\ commandsInfo[BeginGroup[b]] # <<>>
  /\ drainCmd[b] = Head(commandsInfo[BeginGroup[b]])
  /\ commandsInfo' = [commandsInfo EXCEPT ![BeginGroup[b]] = Tail(@)]
  /\ drainPc' = [drainPc EXCEPT ![b] = "spawn"]
  /\ UNCHANGED <<net, outbox, drainCmd, jobs, fault>>

LEMMA PlaceStep ==
  ASSUME TypeOK, BeginOnceInv, PopsWhatItRead, [Next]_vars
  PROVE  \/ \E c \in Commands : Appends(c)
         \/ \E b \in Begins : Starts(b)
         \/ UNCHANGED commandsInfo /\ Started' = Started
<1> USE CommandsAssumption, ChannelAssumption
<1> DEFINE Stays == UNCHANGED commandsInfo /\ Started' = Started
<1>1. CASE UNCHANGED <<commandsInfo, drainPc, drainCmd, jobs>>
  BY <1>1 DEF Started
<1>2. CASE AssessWork
  <2>1. PICK c \in Commands : c = net.reply.cmd
    BY <1>2 DEF AssessWork, TypeOK, Replies
  <2>2. CASE Assessable(c)
    BY <1>2, <2>1, <2>2 DEF AssessWork, Push, Appends, brainVars
  <2>3. CASE ~Assessable(c)
    BY <1>1, <1>2, <2>1, <2>3 DEF AssessWork, servicesVars
  <2> QED
    BY <2>2, <2>3
<1>3. CASE TakeAllBegins
  <2> DEFINE b == Head(inbox).begin
  <2>1. Delivered("ALL_BEGINS") /\ UNCHANGED <<commandsInfo, drainCmd, jobs>>
        /\ drainPc' = [drainPc EXCEPT ![b] = "setWorking"]
    BY <1>3 DEF TakeAllBegins, servicesVars
  <2>2. b \in Begins /\ Head(inbox) = Begin(b)
    <3>1. Head(inbox) \in Messages /\ Head(inbox).event = "ALL_BEGINS"
      BY <2>1, DeliveredRest
    <3>2. PICK d \in Begins : Head(inbox) = Begin(d)
      BY <3>1, BeginsAreBegins
    <3>3. Begin(d).begin = d
      BY DEF Begin
    <3> QED
      BY <3>2, <3>3
  <2>3. drainPc[b] = "none"
    BY <2>1, <2>2, DeliveredRest DEF BeginOnceInv
  <2> HIDE DEF b
  <2>4. \A d \in Begins : drainPc'[d] = "spawn" <=> drainPc[d] = "spawn"
    BY <2>1, <2>2, <2>3 DEF TypeOK
  <2> QED
    BY <2>1, <2>4, StartedSame
<1>4. ASSUME NEW b \in Begins, DrainStep(b)
      PROVE  Stays \/ \E d \in Begins : Starts(d)
  <2> USE DEF GoTo, At
  <2>1. CASE BeginWorking(b) \/ CheckEmpty(b) \/ EndWorking(b)
    <3>1. /\ UNCHANGED <<commandsInfo, drainCmd, jobs>>
          /\ drainPc[b] # "spawn"
          /\ \E pc \in {"check", "clear", "front", "done"} : drainPc' = [drainPc EXCEPT ![b] = pc]
      BY <2>1 DEF BeginWorking, CheckEmpty, EndWorking, setWorking
    <3>2. \A d \in Begins : drainPc'[d] = "spawn" <=> drainPc[d] = "spawn"
      BY <3>1 DEF TypeOK
    <3> QED
      BY <3>1, <3>2, StartedSame
  <2>2. CASE GetFront(b)
    <3>1. /\ UNCHANGED <<commandsInfo, jobs>>
          /\ drainPc[b] = "front"
          /\ drainPc' = drainPc \/ drainPc' = [drainPc EXCEPT ![b] = "pop"]
          /\ drainCmd' = drainCmd \/ drainCmd' = [drainCmd EXCEPT ![b] = FrontOf(BeginGroup[b])]
      BY <2>2 DEF GetFront, servicesVars
    <3>2. \A d \in Begins : /\ drainPc'[d] = "spawn" <=> drainPc[d] = "spawn"
                            /\ drainPc[d] = "spawn" => drainCmd'[d] = drainCmd[d]
      BY <3>1 DEF TypeOK
    <3> QED
      BY <3>1, <3>2, StartedSame
  <2>3. CASE Pop(b)
    <3>1. drainPc[b] = "pop"
      BY <2>3 DEF Pop
    <3>2. commandsInfo[BeginGroup[b]] # <<>> /\ FrontOf(BeginGroup[b]) = drainCmd[b]
      BY <3>1 DEF PopsWhatItRead
    <3>3. Starts(b)
      BY <2>3, <3>1, <3>2
      DEF Pop, PopFront, isEmptyCommands, FrontOf, Starts, At, GoTo, drainFrame
    <3> QED
      BY <3>3
  <2>4. CASE Spawn(b)
    <3>1. /\ UNCHANGED <<commandsInfo, drainCmd>>
          /\ drainPc[b] = "spawn" /\ drainCmd[b] \in Commands
          /\ drainPc' = [drainPc EXCEPT ![b] = "check"]
          /\ jobs' = [jobs EXCEPT ![<<b, drainCmd[b]>>] = "execute"]
      BY <2>4 DEF Spawn, servicesVars, TypeOK
    <3>2. ASSUME NEW c \in Commands PROVE c \in Started' <=> c \in Started
      <4>1. ASSUME NEW d \in Begins
            PROVE  (jobs'[<<d, c>>] # "none" \/ (drainPc'[d] = "spawn" /\ drainCmd'[d] = c))
                     <=> (jobs[<<d, c>>] # "none" \/ (drainPc[d] = "spawn" /\ drainCmd[d] = c))
        <5>1. CASE d = b
          BY <3>1, <5>1 DEF TypeOK, Jobs
        <5>2. CASE d # b
          <6>1. <<d, c>> # <<b, drainCmd[b]>>
            BY <5>2
          <6> QED
            BY <3>1, <5>2, <6>1 DEF TypeOK, Jobs
        <5> QED
          BY <5>1, <5>2
      <4> QED
        BY <4>1 DEF Started
    <3>3. Started \subseteq Commands /\ Started' \subseteq Commands
      BY DEF Started
    <3> QED
      BY <3>1, <3>2, <3>3
  <2> QED
    BY <1>4, <2>1, <2>2, <2>3, <2>4 DEF DrainStep
<1>5. ASSUME NEW j \in Jobs, JobStep(j) PROVE Stays
  <2>1. /\ UNCHANGED <<commandsInfo, drainPc, drainCmd>>
        /\ jobs[j] # "none"
        /\ \E pc \in {"lock", "emit", "done"} : jobs' = [jobs EXCEPT ![j] = pc]
    BY <1>5 DEF JobStep, Execute, LockToEmit, EmitFinished, JobAt, jobFrame, servicesVars
  <2>2. \A k \in Jobs : jobs'[k] = "none" <=> jobs[k] = "none"
    BY <2>1 DEF TypeOK
  <2> QED
    BY <2>1, <2>2, StartedSame
<1>6. CASE \E m \in Messages : BrainSends(m)
  BY <1>1, <1>6 DEF BrainSends, servicesVars, threadVars
<1>7. CASE TakeWorkAssignation \/ EmitReply \/ TakeWorkStatus \/ ReadStatus
             \/ TakeRegistrationReply
  BY <1>1, <1>7 DEF TakeWorkAssignation, EmitReply, TakeWorkStatus, ReadStatus,
                    TakeRegistrationReply, servicesVars, threadVars
<1>8. CASE DataRace \/ OnClose \/ UNCHANGED vars
  BY <1>1, <1>8 DEF DataRace, OnClose, vars, servicesVars, threadVars
<1> QED
  BY <1>2, <1>3, <1>4, <1>5, <1>6, <1>7, <1>8 DEF Next, NetStep

\* Only assessWork takes a command on; an emit makes a pending answer a sent one.
LEMMA TakenOnSame ==
  ASSUME TypeOK, AnsweredOnceInv, [Next]_vars, \A c \in Commands : ~Appends(c)
  PROVE  takenOn' = takenOn
<1> DEFINE Pending(c) == net.pc = "emit" /\ IsAccept(net.reply, c)
<1>1. takenOn = {c \in Commands : AcceptSent(c) \/ Pending(c)}
  BY DEF takenOn
<1>2. takenOn' = {c \in Commands : AcceptSent(c)' \/ Pending(c)'}
  BY DEF takenOn, AcceptSent, IsAccept
<1>3. SUFFICES ASSUME NEW c \in Commands
               PROVE  AcceptSent(c)' \/ Pending(c)' <=> AcceptSent(c) \/ Pending(c)
  BY <1>1, <1>2
<1>4. CASE UNCHANGED <<net, outbox>>
  BY <1>4, OutboxSame DEF IsAccept
<1>5. CASE EmitReply
  <2>1. /\ net.pc = "emit" /\ net.reply \in Replies /\ outbox' = Append(outbox, net.reply)
        /\ net'.pc = "idle"
    BY <1>5 DEF EmitReply, TypeOK
  <2>2. AcceptSent(c)' <=> AcceptSent(c) \/ IsAccept(net.reply, c)
    BY <2>1, OutboxGrows
  <2> QED
    BY <2>1, <2>2
<1>6. ASSUME NEW j \in Jobs, EmitFinished(j)
      PROVE  AcceptSent(c)' \/ Pending(c)' <=> AcceptSent(c) \/ Pending(c)
  <2> DEFINE r == Reply("ACTION_FINISHED", "handling_module", j[2], "DONE")
  <2>1. outbox' = Append(outbox, r) /\ UNCHANGED net
    BY <1>6 DEF EmitFinished, jobFrame
  <2>2. r \in Replies /\ ~IsAccept(r, c)
    BY FinishedReply
  <2> HIDE DEF r
  <2>3. AcceptSent(c)' <=> AcceptSent(c)
    BY <2>1, <2>2, OutboxGrows
  <2> QED
    BY <2>1, <2>3 DEF IsAccept
<1>7. CASE AssessWork
  <2>1. /\ net.pc = "assess" /\ net.reply \in Replies /\ UNCHANGED outbox
    BY <1>7 DEF AssessWork, TypeOK
  <2>2. ~Assessable(net.reply.cmd)
    <3>1. net.reply.cmd \in Commands
      BY <2>1 DEF Replies
    <3> QED
      BY <1>7, <2>1, <3>1 DEF AssessWork, Push, Appends, brainVars
  <2>3. net' = [pc |-> "emit", reply |-> [net.reply EXCEPT !.answer = "REFUSE"]]
    BY <1>7, <2>2 DEF AssessWork
  <2>4. ~Pending(c)'
    BY <2>1, <2>3 DEF IsAccept, Replies
  <2> QED
    BY <2>1, <2>4, OutboxSame
<1>8. CASE ReadStatus
  <2>1. /\ net.pc = "status" /\ net.reply \in Replies /\ UNCHANGED outbox
        /\ net.reply.event = "WORK_STATUS_REPLY"
    BY <1>8 DEF ReadStatus, TypeOK, AnsweredOnceInv
  <2>2. net'.reply.event = "WORK_STATUS_REPLY"
    BY <1>8, <2>1 DEF ReadStatus, Replies
  <2> QED
    BY <2>1, <2>2, OutboxSame DEF IsAccept
<1>9. CASE TakeWorkAssignation \/ TakeWorkStatus
  <2>1. net.pc = "idle" /\ net'.pc # "emit" /\ UNCHANGED outbox
    BY <1>9 DEF TakeWorkAssignation, TakeWorkStatus, Delivered
  <2> QED
    BY <2>1, OutboxSame
<1>10. CASE TakeAllBegins \/ TakeRegistrationReply \/ \E m \in Messages : BrainSends(m)
  BY <1>4, <1>10 DEF TakeAllBegins, TakeRegistrationReply, BrainSends, threadVars
<1>11. CASE \E b \in Begins : DrainStep(b)
  BY <1>4, <1>11 DEF DrainStep, BeginWorking, CheckEmpty, GetFront, Pop, Spawn, EndWorking,
                     drainFrame
<1>12. CASE \E j \in Jobs : Execute(j) \/ LockToEmit(j)
  BY <1>4, <1>12 DEF Execute, LockToEmit, jobFrame
<1>13. CASE DataRace \/ OnClose \/ UNCHANGED vars
  BY <1>4, <1>13 DEF DataRace, OnClose, vars, threadVars
<1> QED
  BY <1>5, <1>6, <1>7, <1>8, <1>9, <1>10, <1>11, <1>12, <1>13 DEF Next, NetStep, JobStep

\* What has a thread, or a drain about to create it, was taken on.
LEMMA HeldIsTakenOn ==
  ASSUME TypeOK, HeldInv
  PROVE  Started \subseteq takenOn
<1>1. \A b \in Begins, c \in Commands : <<b, c>> \in Jobs /\ <<b, c>>[2] = c
  BY DEF Jobs
<1> QED
  BY <1>1 DEF HeldInv, Started

\* The effect of an append on every queue.
LEMMA AppendsQueues ==
  ASSUME TypeOK, NEW c \in Commands, Appends(c), NEW g \in Groups
  PROVE  /\ g # CommandGroup[c] => commandsInfo'[g] = commandsInfo[g]
         /\ g = CommandGroup[c] => commandsInfo'[g] = Append(commandsInfo[g], c)
         /\ commandsInfo[g] \in Seq(Commands)
  BY CommandsAssumption DEF Appends, TypeOK, ServicesTypeOK

\* The effect of a pop on every queue.
LEMMA StartsQueues ==
  ASSUME TypeOK, NEW b \in Begins, Starts(b), NEW g \in Groups
  PROVE  /\ g # BeginGroup[b] => commandsInfo'[g] = commandsInfo[g]
         /\ g = BeginGroup[b] => commandsInfo'[g] = Tail(commandsInfo[g])
         /\ commandsInfo[g] \in Seq(Commands)
  BY ChannelAssumption DEF Starts, TypeOK, ServicesTypeOK

\* The head of a sequence aside, its elements are those of its tail.
LEMMA InTail ==
  ASSUME NEW S, NEW s \in Seq(S), s # <<>>, NEW i \in DOMAIN s, s[i] # Head(s)
  PROVE  \E k \in DOMAIN Tail(s) : Tail(s)[k] = s[i]
<1>1. /\ DOMAIN s = 1 .. Len(s) /\ Len(s) \in Nat
      /\ Head(s) = s[1]
      /\ Tail(s) \in Seq(S)
      /\ Len(Tail(s)) = Len(s) - 1
      /\ \A k \in 1 .. Len(Tail(s)) : Tail(s)[k] = s[k + 1]
  BY LenProperties, HeadTailProperties, SeqFront
<1>2. DOMAIN Tail(s) = 1 .. Len(Tail(s))
  BY <1>1, LenProperties
<1>3. i # 1 /\ i \in 1 .. Len(s)
  BY <1>1
<1>4. i - 1 \in DOMAIN Tail(s) /\ (i - 1) + 1 = i
  BY <1>1, <1>2, <1>3
<1> QED
  BY <1>1, <1>2, <1>4

\* A pop starts the command that was in front.
LEMMA StartsStarted ==
  ASSUME TypeOK, NEW b \in Begins, Starts(b)
  PROVE  /\ Started' = Started \cup {drainCmd[b]}
         /\ drainCmd[b] \in Commands
<1>1. drainCmd[b] \in Commands
  BY DEF Starts, At, TypeOK
<1>2. /\ UNCHANGED <<jobs, drainCmd>>
      /\ \A d \in Begins : drainPc'[d] = "spawn" <=> d = b \/ drainPc[d] = "spawn"
  BY DEF Starts, TypeOK
<1> QED
  BY <1>1, <1>2 DEF Started

\* Every step keeps each command in its place.
LEMMA PlacedStep ==
  ASSUME TypeOK, ReplyInv, HeldInv, BeginOnceInv, PopsWhatItRead, AnsweredOnceInv, PlacedInv,
         [Next]_vars
  PROVE  PlacedInv'
<1>1. ASSUME NEW c \in Commands, Appends(c) PROVE PlacedInv'
  <2>1. /\ Started' = Started
        /\ net.pc = "assess" /\ net.reply \in Replies /\ IsAccept(net.reply, c)
    <3>1. net.pc = "assess" /\ net.reply \in Replies /\ c = net.reply.cmd
      BY <1>1 DEF Appends, TypeOK
    <3>2. Started' = Started
      BY <1>1 DEF Appends, Started
    <3> QED
      BY <3>1, <3>2 DEF ReplyInv
  <2>2. c \notin takenOn
    <3>1. Answering(c)
      BY <2>1 DEF Answering, IsAccept
    <3> QED
      BY <2>1, <3>1 DEF AnsweredOnceInv, takenOn
  <2>3. takenOn' = takenOn \cup {c}
    <3>1. net' = [net EXCEPT !.pc = "emit"] /\ UNCHANGED outbox
      BY <1>1 DEF Appends
    <3>2. net'.pc = "emit" /\ net'.reply = net.reply
      BY <3>1 DEF TypeOK
    <3>3. \A d \in Commands : IsAccept(net.reply, d) <=> d = c
      BY <2>1 DEF IsAccept
    <3> QED
      BY <2>1, <3>1, <3>2, <3>3 DEF takenOn, AcceptSent, IsAccept
  <2>4. \A g \in Groups : \A i \in DOMAIN commandsInfo[g] : commandsInfo[g][i] # c
    BY <2>2 DEF HeldInv
  <2>5. c \notin Started
    BY <2>2, HeldIsTakenOn
  <2>6. ASSUME NEW g \in Groups PROVE Queued(g, commandsInfo'[g])
    <3>1. commandsInfo[g] \in Seq(Commands) /\ Queued(g, commandsInfo[g])
      BY <1>1, AppendsQueues DEF PlacedInv
    <3>2. CASE g # CommandGroup[c]
      BY <1>1, <3>1, <3>2, AppendsQueues
    <3>3. CASE g = CommandGroup[c]
      <4> DEFINE q == commandsInfo[g]
      <4>1. commandsInfo'[g] = Append(q, c)
        BY <1>1, <3>3, AppendsQueues
      <4>2. \A n \in DOMAIN Append(q, c) :
              \/ n \in DOMAIN q /\ Append(q, c)[n] = q[n]
              \/ n = Len(q) + 1 /\ Append(q, c)[n] = c
        BY <3>1, AppendElement
      <4>3. \A n \in DOMAIN q : q[n] # c
        BY <2>4
      <4>4. Queued(g, q)
        BY <3>1
      <4> HIDE DEF q
      <4>5. Queued(g, Append(q, c))
        BY <2>5, <3>3, <4>2, <4>3, <4>4 DEF Queued
      <4> QED
        BY <4>1, <4>5
    <3> QED
      BY <3>2, <3>3
  <2>7. ASSUME NEW d \in takenOn' PROVE Creatable(d)' /\ (Waits(d)' \/ d \in Started')
    <3>0. d \in Commands /\ CommandGroup[d] \in Groups
      BY <2>7, CommandsAssumption DEF takenOn
    <3>1. CASE d = c
      <4>1. Creatable(d)'
        BY <1>1, <3>1 DEF Appends, Assessable, Creatable, services, creators
      <4>2. commandsInfo'[CommandGroup[d]] = Append(commandsInfo[CommandGroup[d]], d)
            /\ commandsInfo[CommandGroup[d]] \in Seq(Commands)
        BY <1>1, <3>0, <3>1, AppendsQueues
      <4>3. \E i \in DOMAIN commandsInfo'[CommandGroup[d]] : commandsInfo'[CommandGroup[d]][i] = d
        <5> DEFINE q == commandsInfo[CommandGroup[d]]
        <5>1. Len(q) + 1 \in DOMAIN Append(q, d) /\ Append(q, d)[Len(q) + 1] = d
          <6>1. q \in Seq(Commands) /\ d \in Commands
            BY <3>0, <4>2
          <6> HIDE DEF q
          <6> QED
            BY <6>1, AppendHas
        <5> QED
          BY <4>2, <5>1
      <4> QED
        BY <4>1, <4>3 DEF Waits
    <3>2. CASE d # c
      <4>1. Creatable(d) /\ (Waits(d) \/ d \in Started)
        BY <2>3, <2>7, <3>2 DEF PlacedInv
      <4>2. CASE Waits(d)
        <5>1. PICK i \in DOMAIN commandsInfo[CommandGroup[d]] : commandsInfo[CommandGroup[d]][i] = d
          BY <4>2 DEF Waits
        <5>2. commandsInfo[CommandGroup[d]] \in Seq(Commands)
          BY <1>1, <3>0, AppendsQueues
        <5>3. \/ commandsInfo'[CommandGroup[d]] = commandsInfo[CommandGroup[d]]
              \/ commandsInfo'[CommandGroup[d]] = Append(commandsInfo[CommandGroup[d]], c)
          BY <1>1, <3>0, AppendsQueues
        <5>4. \A q \in Seq(Commands) : \A n \in DOMAIN q :
                n \in DOMAIN Append(q, c) /\ Append(q, c)[n] = q[n]
          <6> TAKE q \in Seq(Commands)
          <6>1. c \in Commands
            BY <1>1
          <6> QED
            BY <6>1, AppendHas
        <5>5. i \in DOMAIN commandsInfo'[CommandGroup[d]] /\ commandsInfo'[CommandGroup[d]][i] = d
          BY <5>1, <5>2, <5>3, <5>4
        <5> QED
          BY <4>1, <5>5 DEF Waits, Creatable
      <4> QED
        BY <2>1, <4>1, <4>2 DEF Creatable
    <3> QED
      BY <3>1, <3>2
  <2> QED
    BY <2>1, <2>6, <2>7 DEF PlacedInv, Queued
<1>2. ASSUME NEW b \in Begins, Starts(b), takenOn' = takenOn PROVE PlacedInv'
  <2> DEFINE h == drainCmd[b]
             q == commandsInfo[BeginGroup[b]]
  <2>1. Started' = Started \cup {h} /\ h \in Commands
    BY <1>2, StartsStarted
  <2>2. q \in Seq(Commands) /\ q # <<>> /\ h = Head(q) /\ BeginGroup[b] \in Groups
    BY <1>2, StartsQueues, ChannelAssumption DEF Starts
  <2>3. Queued(BeginGroup[b], q)
    BY <2>2 DEF PlacedInv
  <2>4. /\ 1 \in DOMAIN q /\ Head(q) = q[1]
        /\ \A i \in DOMAIN Tail(q) : i + 1 \in DOMAIN q /\ Tail(q)[i] = q[i + 1]
        /\ \A i \in DOMAIN Tail(q) : Tail(q)[i] # Head(q)
        /\ \A i, k \in DOMAIN Tail(q) : Tail(q)[i] = Tail(q)[k] => i = k
    <3> HIDE DEF q
    <3>1. \A i, k \in DOMAIN q : q[i] = q[k] => i = k
      BY <2>3 DEF Queued
    <3>2. /\ \A i \in DOMAIN Tail(q) : Tail(q)[i] # Head(q)
          /\ \A i, k \in DOMAIN Tail(q) : Tail(q)[i] = Tail(q)[k] => i = k
      BY <2>2, <3>1, HeadOnlyOnce
    <3> QED
      BY <2>2, <3>2, SeqFront
  <2>5. CommandGroup[h] = BeginGroup[b]
    <3> HIDE DEF q, h
    <3>1. h = q[1] /\ CommandGroup[q[1]] = BeginGroup[b]
      BY <2>2, <2>3, <2>4 DEF Queued
    <3> QED
      BY <3>1
  <2>6. ASSUME NEW g \in Groups
        PROVE  /\ \A i \in DOMAIN commandsInfo'[g] :
                    /\ CommandGroup[commandsInfo'[g][i]] = g
                    /\ commandsInfo'[g][i] \notin Started'
               /\ \A i, k \in DOMAIN commandsInfo'[g] :
                    commandsInfo'[g][i] = commandsInfo'[g][k] => i = k
    <3>1. CASE g # BeginGroup[b]
      <4>1. commandsInfo'[g] = commandsInfo[g] /\ Queued(g, commandsInfo[g])
        BY <1>2, <3>1, StartsQueues DEF PlacedInv
      <4>2. \A i \in DOMAIN commandsInfo[g] : commandsInfo[g][i] # h
        BY <2>5, <3>1, <4>1 DEF Queued
      <4> QED
        BY <2>1, <4>1, <4>2 DEF Queued
    <3>2. CASE g = BeginGroup[b]
      <4>1. commandsInfo'[g] = Tail(q)
        BY <1>2, <3>2, StartsQueues
      <4>2. \A i \in DOMAIN Tail(q) : /\ CommandGroup[Tail(q)[i]] = g
                                      /\ Tail(q)[i] \notin Started
                                      /\ Tail(q)[i] # h
        <5> HIDE DEF q, h
        <5>1. \A k \in DOMAIN q : CommandGroup[q[k]] = g /\ q[k] \notin Started
          BY <2>3, <3>2 DEF Queued
        <5> QED
          BY <2>2, <2>4, <5>1
      <4> HIDE DEF q, h
      <4> QED
        BY <2>1, <2>4, <4>1, <4>2
    <3> QED
      BY <3>1, <3>2
  <2>7. ASSUME NEW d \in takenOn' PROVE Creatable(d)' /\ (Waits(d)' \/ d \in Started')
    <3>0. d \in Commands /\ CommandGroup[d] \in Groups
      BY <1>2, <2>7, CommandsAssumption DEF takenOn
    <3>1. Creatable(d) /\ (Waits(d) \/ d \in Started)
      BY <1>2, <2>7 DEF PlacedInv
    <3>2. CASE Waits(d) /\ d # h
      <4>1. PICK i \in DOMAIN commandsInfo[CommandGroup[d]] : commandsInfo[CommandGroup[d]][i] = d
        BY <3>2 DEF Waits
      <4>2. \E k \in DOMAIN commandsInfo'[CommandGroup[d]] : commandsInfo'[CommandGroup[d]][k] = d
        <5>1. CASE CommandGroup[d] # BeginGroup[b]
          BY <1>2, <3>0, <4>1, <5>1, StartsQueues
        <5>2. CASE CommandGroup[d] = BeginGroup[b]
          <6>1. i \in DOMAIN q /\ q[i] = d /\ q[i] # Head(q)
            BY <2>2, <3>2, <4>1, <5>2
          <6>2. \E k \in DOMAIN Tail(q) : Tail(q)[k] = q[i]
            BY <2>2, <6>1, InTail
          <6>3. commandsInfo'[CommandGroup[d]] = Tail(q)
            BY <1>2, <3>0, <5>2, StartsQueues
          <6> QED
            BY <6>1, <6>2, <6>3
        <5> QED
          BY <5>1, <5>2
      <4> QED
        BY <3>1, <4>2 DEF Waits, Creatable
    <3>3. CASE d = h \/ d \in Started
      BY <2>1, <3>1, <3>3 DEF Creatable
    <3> QED
      BY <3>1, <3>2, <3>3
  <2> QED
    BY <2>6, <2>7 DEF PlacedInv, Queued
<1>3. ASSUME UNCHANGED commandsInfo, Started' = Started, takenOn' = takenOn PROVE PlacedInv'
  <2>1. \A d \in Commands : Waits(d)' <=> Waits(d)
    BY <1>3 DEF Waits
  <2>2. takenOn \subseteq Commands
    BY DEF takenOn
  <2> QED
    BY <1>3, <2>1, <2>2 DEF PlacedInv, Queued, Creatable
<1>4. CASE \E c \in Commands : Appends(c)
  BY <1>1, <1>4
<1>5. CASE \A c \in Commands : ~Appends(c)
  <2>1. takenOn' = takenOn
    BY <1>5, TakenOnSame
  <2> QED
    BY <1>2, <1>3, <1>5, <2>1, PlaceStep
<1> QED
  BY <1>4, <1>5

-----------------------------------------------------------------------------
\* One thread, and one report, for each command.

\* The parts of OneThreadInv.
OneJob == \A b, d \in Begins, c \in Commands :
            jobs[<<b, c>>] # "none" /\ jobs[<<d, c>>] # "none" => b = d

SpawnsNew == \A b, d \in Begins : drainPc[b] = "spawn" =>
               /\ jobs[<<d, drainCmd[b]>>] = "none"
               /\ drainPc[d] = "spawn" /\ drainCmd[d] = drainCmd[b] => b = d

DoneIsReported == \A c \in Commands : FinishSent(c) <=> \E b \in Begins : jobs[<<b, c>>] = "done"

OneReport == \A c \in Commands : \A i, k \in DOMAIN outbox :
               IsFinish(outbox[i], c) /\ IsFinish(outbox[k], c) => i = k

LEMMA OneThreadParts ==
  /\ OneThreadInv <=> OneJob /\ SpawnsNew /\ DoneIsReported /\ OneReport
  /\ OneThreadInv' <=> OneJob' /\ SpawnsNew' /\ DoneIsReported' /\ OneReport'
  BY DEF OneThreadInv, OneJob, SpawnsNew, DoneIsReported, OneReport

\* A report of c that is appended when there is none leaves c with one.
LEMMA OneReportAppend ==
  ASSUME TypeOK, OneReport, NEW r \in Replies, outbox' = Append(outbox, r),
         \A c \in Commands : IsFinish(r, c) => ~FinishSent(c)
  PROVE  OneReport'
<1>1. outbox \in Seq(Replies)
  BY DEF TypeOK
<1>2. \A i \in DOMAIN outbox' :
        \/ i \in DOMAIN outbox /\ outbox'[i] = outbox[i]
        \/ i = Len(outbox) + 1 /\ outbox'[i] = r
  BY <1>1, AppendElement
<1>3. ASSUME NEW c \in Commands, NEW i \in DOMAIN outbox', NEW k \in DOMAIN outbox',
             IsFinish(outbox'[i], c), IsFinish(outbox'[k], c)
      PROVE  i = k
  <2>1. CASE i \in DOMAIN outbox /\ outbox'[i] = outbox[i]
    <3>1. FinishSent(c)
      BY <1>3, <2>1 DEF FinishSent
    <3>2. ~IsFinish(r, c)
      BY <3>1
    <3>3. k \in DOMAIN outbox /\ outbox'[k] = outbox[k]
      BY <1>2, <1>3, <3>2
    <3> QED
      BY <1>3, <2>1, <3>3 DEF OneReport
  <2>2. CASE i = Len(outbox) + 1 /\ outbox'[i] = r
    <3>1. ~FinishSent(c)
      BY <1>3, <2>2
    <3>2. ~(k \in DOMAIN outbox /\ outbox'[k] = outbox[k])
      BY <1>3, <3>1 DEF FinishSent
    <3> QED
      BY <1>2, <2>2, <3>2
  <2> QED
    BY <1>2, <2>1, <2>2
<1> QED
  BY <1>3 DEF OneReport, IsFinish

\* Every step keeps a command's thread and its report single.
LEMMA OneThreadStep ==
  ASSUME TypeOK, ReplyInv, HeldInv, BeginOnceInv, PopsWhatItRead, PlacedInv, OneThreadInv,
         [Next]_vars
  PROVE  OneThreadInv'
<1>0. OneJob /\ SpawnsNew /\ DoneIsReported /\ OneReport
  BY OneThreadParts
<1>1. ASSUME UNCHANGED <<jobs, outbox>>,
             \A b \in Begins : drainPc'[b] = "spawn" =>
               drainPc[b] = "spawn" /\ drainCmd'[b] = drainCmd[b]
      PROVE  OneThreadInv'
  <2>1. OneJob'
    BY <1>0, <1>1 DEF OneJob
  <2>2. SpawnsNew'
    BY <1>0, <1>1 DEF SpawnsNew
  <2>3. DoneIsReported'
    BY <1>0, <1>1, OutboxSame DEF DoneIsReported
  <2>4. OneReport'
    BY <1>0, <1>1 DEF OneReport
  <2> QED
    BY <2>1, <2>2, <2>3, <2>4, OneThreadParts
<1>2. CASE EmitReply
  <2>1. /\ net.reply \in Replies /\ outbox' = Append(outbox, net.reply)
        /\ UNCHANGED <<drainPc, drainCmd, jobs>>
        /\ \A c \in Commands : ~IsFinish(net.reply, c)
    BY <1>2 DEF EmitReply, TypeOK, ReplyInv, IsFinish
  <2>2. OneJob' /\ SpawnsNew'
    BY <1>0, <2>1 DEF OneJob, SpawnsNew
  <2>3. DoneIsReported'
    BY <1>0, <2>1, OutboxGrows DEF DoneIsReported
  <2>4. OneReport'
    BY <1>0, <2>1, OneReportAppend
  <2> QED
    BY <2>2, <2>3, <2>4, OneThreadParts
<1>3. CASE TakeAllBegins
  <2>1. /\ UNCHANGED <<drainCmd, jobs, outbox>>
        /\ drainPc' = [drainPc EXCEPT ![Head(inbox).begin] = "setWorking"]
    BY <1>3 DEF TakeAllBegins
  <2> QED
    BY <1>1, <2>1 DEF TypeOK
<1>4. ASSUME NEW b \in Begins, DrainStep(b) PROVE OneThreadInv'
  <2> USE DEF GoTo, At
  <2>1. CASE BeginWorking(b) \/ CheckEmpty(b) \/ EndWorking(b)
    <3>1. /\ UNCHANGED <<drainCmd, jobs, outbox>>
          /\ \E pc \in {"check", "clear", "front", "done"} : drainPc' = [drainPc EXCEPT ![b] = pc]
      BY <2>1 DEF BeginWorking, CheckEmpty, EndWorking, drainFrame
    <3> QED
      BY <1>1, <3>1 DEF TypeOK
  <2>2. CASE GetFront(b)
    <3>1. /\ UNCHANGED <<jobs, outbox>>
          /\ drainPc[b] = "front"
          /\ drainPc' = drainPc \/ drainPc' = [drainPc EXCEPT ![b] = "pop"]
          /\ drainCmd' = drainCmd \/ drainCmd' = [drainCmd EXCEPT ![b] = FrontOf(BeginGroup[b])]
      BY <2>2 DEF GetFront, drainFrame
    <3> QED
      BY <1>1, <3>1 DEF TypeOK
  <2>3. CASE Pop(b)
    <3> DEFINE h == drainCmd[b]
               q == commandsInfo[BeginGroup[b]]
    <3>1. /\ drainPc[b] = "pop" /\ UNCHANGED <<drainCmd, jobs, outbox>>
          /\ drainPc' = [drainPc EXCEPT ![b] = "spawn"]
      BY <2>3 DEF Pop, drainFrame, PopsWhatItRead, isEmptyCommands
    <3>2. h \in Commands /\ h \notin Started
      <4>1. q \in Seq(Commands) /\ BeginGroup[b] \in Groups
        BY ChannelAssumption DEF TypeOK, ServicesTypeOK
      <4>2. q # <<>> /\ h = Head(q)
        BY <3>1 DEF PopsWhatItRead, FrontOf
      <4>3. Queued(BeginGroup[b], q)
        BY <4>1 DEF PlacedInv
      <4>4. 1 \in DOMAIN q /\ Head(q) = q[1] /\ Head(q) \in Commands
        BY <4>1, <4>2, SeqFront
      <4> HIDE DEF q, h
      <4> QED
        BY <4>2, <4>3, <4>4 DEF Queued
    <3>3. \A d \in Begins : jobs[<<d, h>>] = "none" /\ ~(drainPc[d] = "spawn" /\ drainCmd[d] = h)
      BY <3>2 DEF Started
    <3>4. SpawnsNew'
      <4>1. \A d \in Begins : drainPc'[d] = "spawn" => d = b \/ drainPc[d] = "spawn"
        BY <3>1 DEF TypeOK
      <4>2. drainCmd' = drainCmd /\ jobs' = jobs
        BY <3>1
      <4> QED
        BY <1>0, <3>3, <4>1, <4>2 DEF SpawnsNew
    <3>5. OneJob' /\ OneReport'
      BY <1>0, <3>1 DEF OneJob, OneReport
    <3>6. DoneIsReported'
      BY <1>0, <3>1, OutboxSame DEF DoneIsReported
    <3> QED
      BY <3>4, <3>5, <3>6, OneThreadParts
  <2>4. CASE Spawn(b)
    <3> DEFINE h == drainCmd[b]
    <3>1. /\ drainPc[b] = "spawn" /\ h \in Commands /\ UNCHANGED <<drainCmd, outbox>>
          /\ drainPc' = [drainPc EXCEPT ![b] = "check"]
          /\ jobs' = [jobs EXCEPT ![<<b, h>>] = "execute"]
      BY <2>4 DEF Spawn, drainFrame, TypeOK
    <3>2. /\ \A d \in Begins : jobs[<<d, h>>] = "none"
          /\ \A d \in Begins \ {b} : ~(drainPc[d] = "spawn" /\ drainCmd[d] = h)
      BY <1>0, <3>1 DEF SpawnsNew
    <3>3. \A d \in Begins, c \in Commands :
            jobs'[<<d, c>>] = IF d = b /\ c = h THEN "execute" ELSE jobs[<<d, c>>]
      <4> HIDE DEF h
      <4>1. jobs \in [Jobs -> {"none", "execute", "lock", "emit", "done"}]
        BY DEF TypeOK
      <4>2. \A d \in Begins, c \in Commands :
              <<d, c>> \in Jobs /\ (<<d, c>> = <<b, h>> <=> d = b /\ c = h)
        BY DEF Jobs
      <4> QED
        BY <3>1, <4>1, <4>2
    <3>4. \A d \in Begins : drainPc'[d] = "spawn" => d # b /\ drainPc[d] = "spawn"
      BY <3>1 DEF TypeOK
    <3>5. drainCmd' = drainCmd /\ outbox' = outbox
      BY <3>1
    <3> HIDE DEF h
    <3>6. OneJob'
      BY <1>0, <3>2, <3>3 DEF OneJob
    <3>7. SpawnsNew'
      <4>1. \A d \in Begins : drainPc[d] = "spawn" => drainCmd[d] \in Commands
        BY DEF TypeOK
      <4> QED
        BY <1>0, <3>2, <3>3, <3>4, <3>5, <4>1 DEF SpawnsNew
    <3>8. DoneIsReported'
      <4>1. \A d \in Begins, c \in Commands : jobs'[<<d, c>>] = "done" <=> jobs[<<d, c>>] = "done"
        BY <3>2, <3>3
      <4> QED
        BY <1>0, <3>5, <4>1, OutboxSame DEF DoneIsReported
    <3>9. OneReport'
      BY <1>0, <3>5 DEF OneReport
    <3> QED
      BY <3>6, <3>7, <3>8, <3>9, OneThreadParts
  <2> QED
    BY <1>4, <2>1, <2>2, <2>3, <2>4 DEF DrainStep
<1>5. ASSUME NEW j \in Jobs, JobStep(j) PROVE OneThreadInv'
  <2>1. PICK b \in Begins, c \in Commands : j = <<b, c>>
    BY DEF Jobs
  <2>2. PICK pc \in {"lock", "emit", "done"} : jobs' = [jobs EXCEPT ![<<b, c>>] = pc]
    BY <1>5, <2>1 DEF JobStep, Execute, LockToEmit, EmitFinished
  <2>3. /\ UNCHANGED <<drainPc, drainCmd>>
        /\ jobs[<<b, c>>] \notin {"none", "done"}
    BY <1>5, <2>1 DEF JobStep, Execute, LockToEmit, EmitFinished, JobAt, jobFrame
  <2>4. \A d \in Begins, e \in Commands :
          jobs'[<<d, e>>] = IF d = b /\ e = c THEN pc ELSE jobs[<<d, e>>]
    <3>1. jobs \in [Jobs -> {"none", "execute", "lock", "emit", "done"}]
      BY DEF TypeOK
    <3>2. \A d \in Begins, e \in Commands :
            <<d, e>> \in Jobs /\ (<<d, e>> = <<b, c>> <=> d = b /\ e = c)
      BY DEF Jobs
    <3> QED
      BY <2>2, <3>1, <3>2
  <2>5. \A d \in Begins, e \in Commands : jobs'[<<d, e>>] = "none" <=> jobs[<<d, e>>] = "none"
    BY <2>3, <2>4
  <2>6. OneJob'
    BY <1>0, <2>5 DEF OneJob
  <2>7. SpawnsNew'
    <3>1. \A d \in Begins : drainPc[d] = "spawn" => drainCmd[d] \in Commands
      BY DEF TypeOK
    <3>2. drainPc' = drainPc /\ drainCmd' = drainCmd
      BY <2>3
    <3> QED
      BY <1>0, <2>5, <3>1, <3>2 DEF SpawnsNew
  <2>8. CASE Execute(j) \/ LockToEmit(j)
    <3>1. pc # "done"
      <4>1. c \in takenOn
        BY <2>1, <2>3 DEF HeldInv
      <4>2. Creatable(j[2])
        BY <2>1, <4>1 DEF PlacedInv
      <4>3. jobs'[j] \in {"lock", "emit"}
        BY <2>8, <4>2 DEF Execute, LockToEmit, TypeOK
      <4> QED
        BY <2>1, <2>4, <4>3
    <3>2. UNCHANGED outbox
      BY <2>8 DEF Execute, LockToEmit
    <3>3. \A d \in Begins, e \in Commands : jobs'[<<d, e>>] = "done" <=> jobs[<<d, e>>] = "done"
      BY <2>3, <2>4, <3>1
    <3>4. DoneIsReported' /\ OneReport'
      BY <1>0, <3>2, <3>3, OutboxSame DEF DoneIsReported, OneReport
    <3> QED
      BY <2>6, <2>7, <3>4, OneThreadParts
  <2>9. CASE EmitFinished(j)
    <3> DEFINE r == Reply("ACTION_FINISHED", "handling_module", j[2], "DONE")
    <3>1. outbox' = Append(outbox, r)
      BY <2>9 DEF EmitFinished
    <3>2. r \in Replies /\ \A e : IsFinish(r, e) <=> e = c
      BY <2>1, FinishedReply
    <3> HIDE DEF r
    <3>3. pc = "done"
      <4>1. jobs'[j] = "done"
        BY <2>9 DEF EmitFinished, TypeOK
      <4> QED
        BY <2>1, <2>4, <4>1
    <3>4. ~FinishSent(c)
      BY <1>0, <2>3 DEF DoneIsReported, OneJob
    <3>5. \A e \in Commands : FinishSent(e)' <=> FinishSent(e) \/ e = c
      BY <3>1, <3>2, OutboxGrows
    <3>6. DoneIsReported'
      BY <1>0, <2>3, <2>4, <3>3, <3>5 DEF DoneIsReported
    <3>7. OneReport'
      BY <1>0, <3>1, <3>2, <3>4, OneReportAppend
    <3> QED
      BY <2>6, <2>7, <3>6, <3>7, OneThreadParts
  <2> QED
    BY <1>5, <2>8, <2>9 DEF JobStep
<1>6. CASE \E m \in Messages : BrainSends(m)
  BY <1>1, <1>6 DEF BrainSends, threadVars
<1>7. CASE TakeWorkAssignation \/ AssessWork \/ TakeWorkStatus \/ ReadStatus
             \/ TakeRegistrationReply
  BY <1>1, <1>7 DEF TakeWorkAssignation, AssessWork, TakeWorkStatus, ReadStatus,
                    TakeRegistrationReply, threadVars
<1>8. CASE DataRace \/ OnClose \/ UNCHANGED vars
  BY <1>1, <1>8 DEF DataRace, OnClose, vars, threadVars
<1> QED
  BY <1>2, <1>3, <1>4, <1>5, <1>6, <1>7, <1>8 DEF Next, NetStep

-----------------------------------------------------------------------------
\* The invariant that all of this makes.

ProtocolInv ==
  ReportInv /\ BeginOnceInv /\ PopsWhatItRead /\ AnsweredOnceInv /\ PlacedInv /\ OneThreadInv

LEMMA ProtocolInit == Init => ProtocolInv
<1> SUFFICES ASSUME Init PROVE ProtocolInv
  OBVIOUS
<1>1. DOMAIN inbox = {} /\ DOMAIN outbox = {}
  BY DEF Init
<1>2. \A c : ~AcceptSent(c) /\ ~RefuseSent(c) /\ ~FinishSent(c) /\ ~Answering(c)
  BY <1>1 DEF AcceptSent, RefuseSent, FinishSent, Answering, Init
<1>3. BeginOnceInv /\ PopsWhatItRead
  BY <1>1 DEF Init, BeginOnceInv, PopsWhatItRead
<1>4. AnsweredOnceInv
  BY <1>2 DEF Init, AnsweredOnceInv
<1>5. PlacedInv
  <2>1. takenOn = {}
    BY <1>2 DEF Init, takenOn
  <2>2. \A g \in Groups : DOMAIN commandsInfo[g] = {}
    BY DEF Init, ServicesInit
  <2> QED
    BY <2>1, <2>2 DEF PlacedInv, Queued
<1>6. OneThreadInv
  <2>1. \A b \in Begins, c \in Commands : jobs[<<b, c>>] = "none"
    BY DEF Init, Jobs
  <2>2. \A b \in Begins : drainPc[b] = "none"
    BY DEF Init
  <2> QED
    BY <1>1, <1>2, <2>1, <2>2 DEF OneThreadInv
<1> QED
  BY <1>3, <1>4, <1>5, <1>6, ReportInit DEF ProtocolInv

LEMMA ProtocolStep ==
  ASSUME OneBegin
  PROVE  TypeOK /\ ProtocolInv /\ [Next]_vars => ProtocolInv'
<1> SUFFICES ASSUME TypeOK, ProtocolInv, [Next]_vars PROVE ProtocolInv'
  OBVIOUS
<1>1. ReplyInv /\ HeldInv
  BY DEF ProtocolInv, ReportInv
<1>2. ReportInv' /\ BeginOnceInv' /\ PopsWhatItRead'
  BY ReportStep, BeginOnceStep, FrontStep DEF ProtocolInv
<1>3. AnsweredOnceInv' /\ PlacedInv' /\ OneThreadInv'
  BY <1>1, AnsweredStep, PlacedStep, OneThreadStep DEF ProtocolInv
<1> QED
  BY <1>2, <1>3 DEF ProtocolInv

LEMMA ProtocolAlways ==
  ASSUME OneBegin
  PROVE  Spec => []ProtocolInv
<1>1. TypeOK /\ ProtocolInv /\ [Next]_vars => ProtocolInv'
  BY ProtocolStep
<1> QED
  BY <1>1, ProtocolInit, TypeCorrect, PTL DEF Spec

-----------------------------------------------------------------------------
\* The order of the queues, with any number of drains for a group.

OneAccept == \A c \in Commands : \A i, k \in DOMAIN outbox :
               IsAccept(outbox[i], c) /\ IsAccept(outbox[k], c) => i = k

InOwnQueue == \A g \in Groups : \A i \in DOMAIN commandsInfo[g] : CommandGroup[commandsInfo[g][i]] = g

LEMMA AcceptOnceParts ==
  /\ AcceptOnceInv <=> OneAccept /\ InOwnQueue
  /\ AcceptOnceInv' <=> OneAccept' /\ InOwnQueue'
  BY DEF AcceptOnceInv, OneAccept, InOwnQueue

\* A drain removes the front of its queue, whatever it read before.
Pops(b) ==
  /\ commandsInfo[BeginGroup[b]] # <<>>
  /\ commandsInfo' = [commandsInfo EXCEPT ![BeginGroup[b]] = Tail(@)]
  /\ UNCHANGED <<net, outbox>>

LEMMA QueueStep ==
  ASSUME TypeOK, [Next]_vars
  PROVE  \/ \E c \in Commands : Appends(c)
         \/ \E b \in Begins : Pops(b)
         \/ UNCHANGED commandsInfo
<1>1. CASE AssessWork
  <2>1. PICK c \in Commands : c = net.reply.cmd
    BY <1>1 DEF AssessWork, TypeOK, Replies
  <2>2. CASE Assessable(c)
    BY <1>1, <2>1, <2>2 DEF AssessWork, Push, Appends, brainVars
  <2>3. CASE ~Assessable(c)
    BY <1>1, <2>1, <2>3 DEF AssessWork, servicesVars
  <2> QED
    BY <2>2, <2>3
<1>2. ASSUME NEW b \in Begins, Pop(b) PROVE Pops(b) \/ UNCHANGED commandsInfo
  BY <1>2 DEF Pop, Pops, PopFront, isEmptyCommands, drainFrame, servicesVars
<1>3. CASE TakeWorkAssignation \/ TakeWorkStatus \/ TakeAllBegins \/ TakeRegistrationReply
  BY <1>3 DEF TakeWorkAssignation, TakeWorkStatus, TakeAllBegins, TakeRegistrationReply,
              servicesVars
<1>4. CASE EmitReply \/ ReadStatus \/ \E m \in Messages : BrainSends(m)
  BY <1>4 DEF EmitReply, ReadStatus, BrainSends, servicesVars
<1>5. ASSUME NEW b \in Begins, DrainStep(b), ~Pop(b) PROVE UNCHANGED commandsInfo
  BY <1>5 DEF DrainStep, BeginWorking, CheckEmpty, GetFront, Spawn, EndWorking, setWorking,
              servicesVars
<1>6. CASE \E j \in Jobs : JobStep(j)
  BY <1>6 DEF JobStep, Execute, LockToEmit, EmitFinished, jobFrame, servicesVars
<1>7. CASE DataRace \/ OnClose \/ UNCHANGED vars
  BY <1>7 DEF DataRace, OnClose, vars, servicesVars
<1> QED
  BY <1>1, <1>2, <1>3, <1>4, <1>5, <1>6, <1>7 DEF Next, NetStep

\* An ACCEPTED of c that is appended when there is none leaves c with one.
LEMMA OneAcceptAppend ==
  ASSUME TypeOK, OneAccept, NEW r \in Replies, outbox' = Append(outbox, r),
         \A c \in Commands : IsAccept(r, c) => ~AcceptSent(c)
  PROVE  OneAccept'
<1>1. outbox \in Seq(Replies)
  BY DEF TypeOK
<1>2. \A i \in DOMAIN outbox' :
        \/ i \in DOMAIN outbox /\ outbox'[i] = outbox[i]
        \/ i = Len(outbox) + 1 /\ outbox'[i] = r
  BY <1>1, AppendElement
<1>3. ASSUME NEW c \in Commands, NEW i \in DOMAIN outbox', NEW k \in DOMAIN outbox',
             IsAccept(outbox'[i], c), IsAccept(outbox'[k], c)
      PROVE  i = k
  <2>1. CASE i \in DOMAIN outbox /\ outbox'[i] = outbox[i]
    <3>1. AcceptSent(c)
      BY <1>3, <2>1 DEF AcceptSent
    <3>2. ~IsAccept(r, c)
      BY <3>1
    <3>3. k \in DOMAIN outbox /\ outbox'[k] = outbox[k]
      BY <1>2, <1>3, <3>2
    <3> QED
      BY <1>3, <2>1, <3>3 DEF OneAccept
  <2>2. CASE i = Len(outbox) + 1 /\ outbox'[i] = r
    <3>1. ~AcceptSent(c)
      BY <1>3, <2>2
    <3>2. ~(k \in DOMAIN outbox /\ outbox'[k] = outbox[k])
      BY <1>3, <3>1 DEF AcceptSent
    <3> QED
      BY <1>2, <2>2, <3>2
  <2> QED
    BY <1>2, <2>1, <2>2
<1> QED
  BY <1>3 DEF OneAccept, IsAccept

\* A step emits nothing, the reply of the network thread, or the report of a finished command.
LEMMA EmitCases ==
  ASSUME TypeOK, [Next]_vars
  PROVE  \/ UNCHANGED outbox
         \/ EmitReply
         \/ \E r \in Replies : /\ outbox' = Append(outbox, r) /\ UNCHANGED net
                               /\ \A c \in Commands : ~IsAccept(r, c)
<1>1. ASSUME NEW j \in Jobs, EmitFinished(j)
      PROVE  \E r \in Replies : /\ outbox' = Append(outbox, r) /\ UNCHANGED net
                                /\ \A c \in Commands : ~IsAccept(r, c)
  <2> DEFINE r == Reply("ACTION_FINISHED", "handling_module", j[2], "DONE")
  <2>1. outbox' = Append(outbox, r) /\ UNCHANGED net
    BY <1>1 DEF EmitFinished, jobFrame
  <2>2. r \in Replies /\ \A c : ~IsAccept(r, c)
    BY FinishedReply
  <2> HIDE DEF r
  <2> QED
    BY <2>1, <2>2
<1>2. CASE TakeWorkAssignation \/ TakeWorkStatus \/ TakeAllBegins \/ TakeRegistrationReply
  BY <1>2 DEF TakeWorkAssignation, TakeWorkStatus, TakeAllBegins, TakeRegistrationReply
<1>3. CASE AssessWork \/ ReadStatus \/ \E m \in Messages : BrainSends(m)
  BY <1>3 DEF AssessWork, ReadStatus, BrainSends
<1>4. CASE \E b \in Begins : DrainStep(b)
  BY <1>4 DEF DrainStep, BeginWorking, CheckEmpty, GetFront, Pop, Spawn, EndWorking, drainFrame
<1>5. CASE \E j \in Jobs : Execute(j) \/ LockToEmit(j)
  BY <1>5 DEF Execute, LockToEmit
<1>6. CASE DataRace \/ OnClose \/ UNCHANGED vars
  BY <1>6 DEF DataRace, OnClose, vars
<1> QED
  BY <1>1, <1>2, <1>3, <1>4, <1>5, <1>6 DEF Next, NetStep, JobStep

\* Every step keeps each command accepted once and in the queue of its group.
LEMMA AcceptOnceStep ==
  ASSUME TypeOK, AnsweredOnceInv, AcceptOnceInv, [Next]_vars
  PROVE  AcceptOnceInv'
<1>0. OneAccept /\ InOwnQueue
  BY AcceptOnceParts
<1>1. OneAccept'
  <2>1. CASE UNCHANGED outbox
    BY <1>0, <2>1 DEF OneAccept, IsAccept
  <2>2. CASE EmitReply
    <3>1. net.pc = "emit" /\ net.reply \in Replies /\ outbox' = Append(outbox, net.reply)
      BY <2>2 DEF EmitReply, TypeOK
    <3>2. \A c \in Commands : IsAccept(net.reply, c) => ~AcceptSent(c)
      BY <3>1 DEF AnsweredOnceInv, Answering, IsAccept
    <3> QED
      BY <1>0, <3>1, <3>2, OneAcceptAppend
  <2>3. ASSUME NEW r \in Replies, outbox' = Append(outbox, r), \A c \in Commands : ~IsAccept(r, c)
        PROVE  OneAccept'
    BY <1>0, <2>3, OneAcceptAppend
  <2> QED
    BY <2>1, <2>2, <2>3, EmitCases
<1>2. InOwnQueue'
  <2>1. ASSUME NEW c \in Commands, Appends(c) PROVE InOwnQueue'
    <3>1. SUFFICES ASSUME NEW g \in Groups, NEW i \in DOMAIN commandsInfo'[g]
                   PROVE  CommandGroup[commandsInfo'[g][i]] = g
      BY DEF InOwnQueue
    <3>2. /\ g # CommandGroup[c] => commandsInfo'[g] = commandsInfo[g]
          /\ g = CommandGroup[c] => commandsInfo'[g] = Append(commandsInfo[g], c)
          /\ commandsInfo[g] \in Seq(Commands)
      BY <2>1, AppendsQueues
    <3>3. \A k \in DOMAIN Append(commandsInfo[g], c) :
            \/ k \in DOMAIN commandsInfo[g] /\ Append(commandsInfo[g], c)[k] = commandsInfo[g][k]
            \/ Append(commandsInfo[g], c)[k] = c
      BY <3>2, AppendElement
    <3> QED
      BY <1>0, <3>1, <3>2, <3>3 DEF InOwnQueue
  <2>2. ASSUME NEW b \in Begins, Pops(b) PROVE InOwnQueue'
    <3>1. SUFFICES ASSUME NEW g \in Groups, NEW i \in DOMAIN commandsInfo'[g]
                   PROVE  CommandGroup[commandsInfo'[g][i]] = g
      BY DEF InOwnQueue
    <3>2. CASE g # BeginGroup[b]
      <4>1. commandsInfo'[g] = commandsInfo[g]
        BY <2>2, <3>2 DEF Pops, TypeOK, ServicesTypeOK
      <4> QED
        BY <1>0, <3>1, <4>1 DEF InOwnQueue
    <3>3. CASE g = BeginGroup[b]
      <4>1. commandsInfo[g] \in Seq(Commands) /\ commandsInfo[g] # <<>>
        BY <2>2, <3>3 DEF Pops, TypeOK, ServicesTypeOK
      <4>2. commandsInfo'[g] = Tail(commandsInfo[g])
        BY <2>2, <3>3 DEF Pops, TypeOK, ServicesTypeOK
      <4>3. i + 1 \in DOMAIN commandsInfo[g] /\ commandsInfo'[g][i] = commandsInfo[g][i + 1]
        BY <3>1, <4>1, <4>2, SeqFront
      <4> QED
        BY <1>0, <4>3 DEF InOwnQueue
    <3> QED
      BY <3>2, <3>3
  <2>3. CASE UNCHANGED commandsInfo
    BY <1>0, <2>3 DEF InOwnQueue
  <2> QED
    BY <2>1, <2>2, <2>3, QueueStep
<1> QED
  BY <1>1, <1>2, AcceptOnceParts

\* Of two commands at most one was taken on before the other.
LEMMA TakenInOneOrder ==
  ASSUME TypeOK, AnsweredOnceInv, AcceptOnceInv,
         NEW c \in Commands, NEW d \in Commands, TakenBefore(c, d)
  PROVE  ~TakenBefore(d, c)
<1>1. \A e \in Commands : net.pc = "emit" /\ IsAccept(net.reply, e) => ~AcceptSent(e)
  BY DEF AnsweredOnceInv, Answering, IsAccept
<1>2. AcceptSent(c)
  BY DEF TakenBefore, AcceptSent
<1>3. SUFFICES ASSUME TakenBefore(d, c) PROVE FALSE
  OBVIOUS
<1>4. AcceptSent(d)
  BY <1>3 DEF TakenBefore, AcceptSent
<1>5. PICK i, k \in DOMAIN outbox : i < k /\ IsAccept(outbox[i], c) /\ IsAccept(outbox[k], d)
  BY <1>1, <1>4 DEF TakenBefore
<1>6. PICK m, n \in DOMAIN outbox : m < n /\ IsAccept(outbox[m], d) /\ IsAccept(outbox[n], c)
  BY <1>1, <1>2, <1>3 DEF TakenBefore
<1>7. i = n /\ k = m
  BY <1>5, <1>6 DEF AcceptOnceInv
<1>8. DOMAIN outbox \subseteq Nat
  <2>1. outbox \in Seq(Replies)
    BY DEF TypeOK
  <2> QED
    BY <2>1, AppendKeeps
<1> QED
  BY <1>5, <1>6, <1>7, <1>8

\* The order only changes when assessWork pushes a command: it comes after all accepted ones.
LEMMA OrderOfAppend ==
  ASSUME TypeOK, NEW a \in Commands, Appends(a), NEW c \in Commands, NEW d \in Commands
  PROVE  TakenBefore(c, d)' <=> TakenBefore(c, d) \/ (AcceptSent(c) /\ IsAccept(net.reply, d))
<1>1. net.pc = "assess" /\ UNCHANGED outbox /\ net' = [net EXCEPT !.pc = "emit"]
  BY DEF Appends
<1>2. net'.pc = "emit" /\ net'.reply = net.reply
  BY <1>1 DEF TypeOK
<1>3. AcceptSent(c)' <=> AcceptSent(c)
  BY <1>1, OutboxSame
<1> QED
  BY <1>1, <1>2, <1>3 DEF TakenBefore, IsAccept

LEMMA OrderElsewhere ==
  ASSUME TypeOK, ReplyInv, BeginOnceInv, AnsweredOnceInv, [Next]_vars,
         \A a \in Commands : ~Appends(a),
         NEW c \in Commands, NEW d \in Commands
  PROVE  TakenBefore(c, d)' <=> TakenBefore(c, d)
<1> DEFINE Pending(e) == net.pc = "emit" /\ IsAccept(net.reply, e)
           Sent2(e, f) == \E i, k \in DOMAIN outbox :
                            i < k /\ IsAccept(outbox[i], e) /\ IsAccept(outbox[k], f)
<1>1. TakenBefore(c, d) <=> Sent2(c, d) \/ (AcceptSent(c) /\ Pending(d))
  BY DEF TakenBefore
<1>2. TakenBefore(c, d)' <=> Sent2(c, d)' \/ (AcceptSent(c)' /\ Pending(d)')
  BY DEF TakenBefore, AcceptSent
<1>3. outbox \in Seq(Replies)
  BY DEF TypeOK
<1>4. ASSUME NEW r \in Replies, outbox' = Append(outbox, r)
      PROVE  Sent2(c, d)' <=> Sent2(c, d) \/ (AcceptSent(c) /\ IsAccept(r, d))
  <2>1. /\ \A i \in DOMAIN outbox : i \in DOMAIN outbox' /\ outbox'[i] = outbox[i]
        /\ Len(outbox) + 1 \in DOMAIN outbox'
        /\ outbox'[Len(outbox) + 1] = r
    BY <1>3, <1>4, AppendHas
  <2>2. \A i \in DOMAIN outbox' :
          \/ i \in DOMAIN outbox /\ outbox'[i] = outbox[i]
          \/ i = Len(outbox) + 1 /\ outbox'[i] = r
    BY <1>3, <1>4, AppendElement
  <2>3. Len(outbox) \in Nat /\ \A i \in DOMAIN outbox : i \in Nat /\ i < Len(outbox) + 1
    BY <1>3, LenProperties
  <2>4. Sent2(c, d) => Sent2(c, d)'
    BY <2>1 DEF IsAccept
  <2>5. AcceptSent(c) /\ IsAccept(r, d) => Sent2(c, d)'
    BY <2>1, <2>3 DEF AcceptSent, IsAccept
  <2>6. ASSUME Sent2(c, d)' PROVE Sent2(c, d) \/ (AcceptSent(c) /\ IsAccept(r, d))
    <3>1. PICK i, k \in DOMAIN outbox' :
            i < k /\ IsAccept(outbox'[i], c) /\ IsAccept(outbox'[k], d)
      BY <2>6 DEF IsAccept
    <3>2. i \in DOMAIN outbox /\ outbox'[i] = outbox[i]
      <4>1. CASE i = Len(outbox) + 1
        BY <2>2, <2>3, <3>1, <4>1
      <4> QED
        BY <2>2, <3>1, <4>1
    <3>3. CASE k \in DOMAIN outbox /\ outbox'[k] = outbox[k]
      BY <3>1, <3>2, <3>3
    <3>4. CASE outbox'[k] = r
      BY <3>1, <3>2, <3>4 DEF AcceptSent
    <3> QED
      BY <2>2, <3>1, <3>3, <3>4
  <2> HIDE DEF Sent2
  <2> QED
    BY <2>4, <2>5, <2>6
<1>5. CASE EmitReply
  <2>1. /\ net.pc = "emit" /\ net.reply \in Replies /\ outbox' = Append(outbox, net.reply)
        /\ net'.pc = "idle"
    BY <1>5 DEF EmitReply, TypeOK
  <2>2. Sent2(c, d)' <=> Sent2(c, d) \/ (AcceptSent(c) /\ IsAccept(net.reply, d))
    BY <1>4, <2>1
  <2>3. ~Pending(d)'
    BY <2>1
  <2> HIDE DEF Sent2
  <2> QED
    BY <1>1, <1>2, <2>1, <2>2, <2>3
<1>6. ASSUME NEW r \in Replies, outbox' = Append(outbox, r), UNCHANGED net,
             \A e \in Commands : ~IsAccept(r, e)
      PROVE  TakenBefore(c, d)' <=> TakenBefore(c, d)
  <2>1. Sent2(c, d)' <=> Sent2(c, d)
    BY <1>4, <1>6
  <2>2. AcceptSent(c)' <=> AcceptSent(c)
    BY <1>6, OutboxGrows
  <2>3. Pending(d)' <=> Pending(d)
    BY <1>6 DEF IsAccept
  <2> HIDE DEF Sent2, Pending
  <2> QED
    BY <1>1, <1>2, <2>1, <2>2, <2>3
<1>7. CASE UNCHANGED outbox
  <2>1. Sent2(c, d)' <=> Sent2(c, d)
    BY <1>7 DEF IsAccept
  <2>2. AcceptSent(c)' <=> AcceptSent(c)
    BY <1>7, OutboxSame
  <2>3. AcceptSent(d)' <=> AcceptSent(d)
    BY <1>7, OutboxSame
  <2>4. AcceptSent(d) => ~Pending(d)
    BY DEF AnsweredOnceInv, Answering, IsAccept
  <2>5. AcceptSent(d)' => ~Pending(d)'
    <3>1. AnsweredOnceInv'
      BY AnsweredStep
    <3> QED
      BY <3>1 DEF AnsweredOnceInv, Answering, IsAccept
  <2>6. AcceptSent(d)' \/ Pending(d)' <=> AcceptSent(d) \/ Pending(d)
    <3>1. takenOn' = takenOn
      BY TakenOnSame
    <3>2. d \in takenOn <=> AcceptSent(d) \/ Pending(d)
      BY DEF takenOn
    <3>3. d \in takenOn' <=> AcceptSent(d)' \/ Pending(d)'
      BY DEF takenOn, AcceptSent, IsAccept
    <3> QED
      BY <3>1, <3>2, <3>3
  <2> HIDE DEF Sent2, Pending
  <2> QED
    BY <1>1, <1>2, <2>1, <2>2, <2>3, <2>4, <2>5, <2>6
<1> HIDE DEF Sent2, Pending
<1> QED
  BY <1>5, <1>6, <1>7, EmitCases

\* Every step keeps each queue the end of the list of the commands taken on.
LEMMA OrderedStep ==
  ASSUME TypeOK, ReplyInv, HeldInv, BeginOnceInv, AnsweredOnceInv, AcceptOnceInv, QueueInOrder,
         [Next]_vars
  PROVE  QueueInOrder'
<1> DEFINE Sorted(g) == \A i, k \in DOMAIN commandsInfo[g] : \A c, d \in Commands :
             i < k /\ commandsInfo[g][i] = c /\ commandsInfo[g][k] = d => TakenBefore(c, d)
           Closed(g) == \A i \in DOMAIN commandsInfo[g] : \A c, d \in Commands :
             CommandGroup[d] = g /\ commandsInfo[g][i] = c /\ TakenBefore(c, d) =>
               \E k \in DOMAIN commandsInfo[g] : commandsInfo[g][k] = d
<1>1. \A g \in Groups : Sorted(g) /\ Closed(g)
  BY DEF QueueInOrder
<1>2. SUFFICES ASSUME NEW g \in Groups PROVE Sorted(g)' /\ Closed(g)'
  <2>1. \A g \in Groups : \A i \in DOMAIN commandsInfo'[g] : commandsInfo'[g][i] \in Commands
    <3>1. TypeOK'
      BY TypeStep
    <3>2. \A h \in Groups : commandsInfo'[h] \in Seq(Commands)
      BY <3>1 DEF TypeOK, ServicesTypeOK
    <3> QED
      BY <3>2, ElementOfSeq
  <2> QED
    BY <2>1 DEF QueueInOrder, TakenBefore, AcceptSent, IsAccept
<1>3. commandsInfo[g] \in Seq(Commands)
  BY DEF TypeOK, ServicesTypeOK
<1>4. commandsInfo'[g] \in Seq(Commands)
  <2>1. TypeOK'
    BY TypeStep
  <2> QED
    BY <2>1 DEF TypeOK, ServicesTypeOK
<1>5. /\ \A i \in DOMAIN commandsInfo[g] : i \in Nat /\ commandsInfo[g][i] \in Commands
      /\ \A i \in DOMAIN commandsInfo'[g] : i \in Nat /\ commandsInfo'[g][i] \in Commands
  BY <1>3, <1>4, LenProperties, ElementOfSeq
<1>6. ASSUME commandsInfo'[g] = commandsInfo[g],
             \A c, d \in Commands : TakenBefore(c, d) => TakenBefore(c, d)',
             \A c, d \in Commands : TakenBefore(c, d)' => TakenBefore(c, d) \/ CommandGroup[d] # g
      PROVE  Sorted(g)' /\ Closed(g)'
  BY <1>1, <1>5, <1>6
<1>7. ASSUME NEW a \in Commands, Appends(a) PROVE Sorted(g)' /\ Closed(g)'
  <2>1. /\ g # CommandGroup[a] => commandsInfo'[g] = commandsInfo[g]
        /\ g = CommandGroup[a] => commandsInfo'[g] = Append(commandsInfo[g], a)
    BY <1>7, AppendsQueues
  <2>2. net.pc = "assess" /\ net.reply.cmd = a /\ IsAccept(net.reply, a)
    BY <1>7 DEF Appends, ReplyInv
  <2>3. \A c, d \in Commands : TakenBefore(c, d)' <=> TakenBefore(c, d) \/ (AcceptSent(c) /\ d = a)
    BY <1>7, <2>2, OrderOfAppend DEF IsAccept
  <2>4. CASE g # CommandGroup[a]
    <3> HIDE DEF Sorted, Closed
    <3> QED
      BY <1>6, <2>1, <2>3, <2>4
  <2>5. CASE g = CommandGroup[a]
    <3> DEFINE q == commandsInfo[g]
    <3>1. commandsInfo'[g] = Append(q, a)
      BY <2>1, <2>5
    <3>2. \A i \in DOMAIN q : AcceptSent(q[i])
      BY <2>2 DEF HeldInv, takenOn
    <3>3. ~AcceptSent(a)
      BY <2>2 DEF AnsweredOnceInv, Answering, IsAccept
    <3>4. /\ \A i \in DOMAIN q : i \in DOMAIN Append(q, a) /\ Append(q, a)[i] = q[i]
          /\ Len(q) + 1 \in DOMAIN Append(q, a)
          /\ Append(q, a)[Len(q) + 1] = a
      BY <1>3, AppendHas
    <3>5. \A i \in DOMAIN Append(q, a) :
            \/ i \in DOMAIN q /\ Append(q, a)[i] = q[i]
            \/ i = Len(q) + 1 /\ Append(q, a)[i] = a
      BY <1>3, AppendElement
    <3>6. Len(q) \in Nat /\ \A i \in DOMAIN q : i < Len(q) + 1
      BY <1>3, LenProperties
    <3>7. ASSUME NEW i \in DOMAIN commandsInfo'[g], NEW k \in DOMAIN commandsInfo'[g], i < k,
                 NEW c \in Commands, NEW d \in Commands,
                 commandsInfo'[g][i] = c, commandsInfo'[g][k] = d
          PROVE  TakenBefore(c, d)'
      <4>1. i \in Nat /\ k \in Nat
        BY <1>5
      <4>2. i \in DOMAIN q /\ q[i] = c
        <5>1. i # Len(q) + 1
          BY <3>1, <3>5, <3>6, <3>7, <4>1
        <5> QED
          BY <3>1, <3>5, <3>7, <5>1
      <4>3. CASE k \in DOMAIN q /\ q[k] = d
        <5>1. TakenBefore(c, d)
          BY <1>1, <3>7, <4>2, <4>3
        <5> QED
          BY <2>3, <5>1
      <4>4. CASE d = a
        <5>1. AcceptSent(c)
          BY <3>2, <4>2
        <5> QED
          BY <2>3, <4>4, <5>1
      <4> QED
        BY <3>1, <3>5, <3>7, <4>3, <4>4
    <3>8. ASSUME NEW i \in DOMAIN commandsInfo'[g], NEW c \in Commands, NEW d \in Commands,
                 CommandGroup[d] = g, commandsInfo'[g][i] = c, TakenBefore(c, d)'
          PROVE  \E k \in DOMAIN commandsInfo'[g] : commandsInfo'[g][k] = d
      <4>1. CASE d = a
        BY <3>1, <3>4, <4>1
      <4>2. CASE d # a
        <5>1. TakenBefore(c, d)
          BY <2>3, <3>8, <4>2
        <5>2. c # a
          BY <3>3, <5>1 DEF TakenBefore, AcceptSent
        <5>3. i \in DOMAIN q /\ q[i] = c
          BY <3>1, <3>5, <3>8, <5>2
        <5>4. PICK k \in DOMAIN q : q[k] = d
          BY <1>1, <3>8, <5>1, <5>3
        <5> QED
          BY <3>1, <3>4, <5>4
      <4> QED
        BY <4>1, <4>2
    <3> HIDE DEF q
    <3> QED
      BY <3>7, <3>8
  <2> HIDE DEF Sorted, Closed
  <2> QED
    BY <2>4, <2>5
<1>8. ASSUME NEW b \in Begins, Pops(b), \A a \in Commands : ~Appends(a)
      PROVE  Sorted(g)' /\ Closed(g)'
  <2>1. \A c, d \in Commands : TakenBefore(c, d)' <=> TakenBefore(c, d)
    BY <1>8, OrderElsewhere
  <2>2. CASE g # BeginGroup[b]
    <3>1. commandsInfo'[g] = commandsInfo[g]
      BY <1>8, <2>2 DEF Pops, TypeOK, ServicesTypeOK
    <3> HIDE DEF Sorted, Closed
    <3> QED
      BY <1>6, <2>1, <3>1
  <2>3. CASE g = BeginGroup[b]
    <3> DEFINE q == commandsInfo[g]
    <3>1. q # <<>> /\ commandsInfo'[g] = Tail(q)
      BY <1>8, <2>3 DEF Pops, TypeOK, ServicesTypeOK
    <3>2. /\ 1 \in DOMAIN q /\ Head(q) = q[1]
          /\ \A i \in DOMAIN Tail(q) : i + 1 \in DOMAIN q /\ Tail(q)[i] = q[i + 1]
      BY <1>3, <3>1, SeqFront
    <3>3. ASSUME NEW i \in DOMAIN commandsInfo'[g], NEW k \in DOMAIN commandsInfo'[g], i < k,
                 NEW c \in Commands, NEW d \in Commands,
                 commandsInfo'[g][i] = c, commandsInfo'[g][k] = d
          PROVE  TakenBefore(c, d)'
      <4>1. i + 1 < k + 1
        BY <1>5, <3>3
      <4>2. i + 1 \in DOMAIN q /\ c = q[i + 1] /\ k + 1 \in DOMAIN q /\ d = q[k + 1]
        BY <3>1, <3>2, <3>3
      <4>3. TakenBefore(c, d)
        BY <1>1, <4>1, <4>2
      <4> QED
        BY <2>1, <4>3
    <3>4. ASSUME NEW i \in DOMAIN commandsInfo'[g], NEW c \in Commands, NEW d \in Commands,
                 CommandGroup[d] = g, commandsInfo'[g][i] = c, TakenBefore(c, d)'
          PROVE  \E k \in DOMAIN commandsInfo'[g] : commandsInfo'[g][k] = d
      <4>1. i + 1 \in DOMAIN q /\ q[i + 1] = c
        BY <3>1, <3>2, <3>4
      <4>2. TakenBefore(c, d)
        BY <2>1, <3>4
      <4>3. PICK k \in DOMAIN q : q[k] = d
        BY <1>1, <3>4, <4>1, <4>2
      <4>4. PICK h \in Commands : h = Head(q) /\ h = q[1]
        BY <1>5, <3>2
      <4>5. TakenBefore(h, c)
        <5>1. 1 < i + 1
          <6>1. i \in 1 .. Len(Tail(q))
            <7>1. Tail(q) \in Seq(Commands)
              BY <1>4, <3>1
            <7> QED
              BY <3>1, <3>4, <7>1, LenProperties
          <6> QED
            BY <6>1
        <5> QED
          BY <1>1, <3>2, <4>1, <4>4, <5>1
      <4>6. d # h
        BY <4>2, <4>5, TakenInOneOrder
      <4> QED
        BY <1>3, <3>1, <4>3, <4>4, <4>6, InTail
    <3> HIDE DEF q
    <3> QED
      BY <3>3, <3>4
  <2> HIDE DEF Sorted, Closed
  <2> QED
    BY <2>2, <2>3
<1>9. ASSUME UNCHANGED commandsInfo, \A a \in Commands : ~Appends(a)
      PROVE  Sorted(g)' /\ Closed(g)'
  <2>1. \A c, d \in Commands : TakenBefore(c, d)' <=> TakenBefore(c, d)
    BY <1>9, OrderElsewhere
  <2> HIDE DEF Sorted, Closed
  <2> QED
    BY <1>6, <1>9, <2>1
<1> HIDE DEF Sorted, Closed
<1> QED
  BY <1>7, <1>8, <1>9, QueueStep

OrderInv == ReportInv /\ BeginOnceInv /\ AnsweredOnceInv /\ AcceptOnceInv /\ QueueInOrder

LEMMA OrderInit == Init => OrderInv
<1> SUFFICES ASSUME Init PROVE OrderInv
  OBVIOUS
<1>1. DOMAIN inbox = {} /\ DOMAIN outbox = {}
  BY DEF Init
<1>2. \A c : ~AcceptSent(c) /\ ~RefuseSent(c) /\ ~Answering(c)
  BY <1>1 DEF AcceptSent, RefuseSent, Answering, Init
<1>3. \A g \in Groups : DOMAIN commandsInfo[g] = {}
  BY DEF Init, ServicesInit
<1>4. BeginOnceInv
  BY <1>1 DEF Init, BeginOnceInv
<1>5. AnsweredOnceInv
  BY <1>2 DEF Init, AnsweredOnceInv
<1>6. AcceptOnceInv
  BY <1>1, <1>3 DEF AcceptOnceInv
<1>7. QueueInOrder
  BY <1>3 DEF QueueInOrder
<1> QED
  BY <1>4, <1>5, <1>6, <1>7, ReportInit DEF OrderInv

LEMMA OrderInvStep == TypeOK /\ OrderInv /\ [Next]_vars => OrderInv'
<1> SUFFICES ASSUME TypeOK, OrderInv, [Next]_vars PROVE OrderInv'
  OBVIOUS
<1>1. ReplyInv /\ HeldInv
  BY DEF OrderInv, ReportInv
<1>2. ReportInv' /\ BeginOnceInv'
  BY ReportStep, BeginOnceStep DEF OrderInv
<1>3. AnsweredOnceInv' /\ AcceptOnceInv' /\ QueueInOrder'
  BY <1>1, AnsweredStep, AcceptOnceStep, OrderedStep DEF OrderInv
<1> QED
  BY <1>2, <1>3 DEF OrderInv

-----------------------------------------------------------------------------
\* Each command in one place.

\* The four kinds of places, as sets that Copies counts.
InQueue(c) == {i \in DOMAIN commandsInfo[CommandGroup[c]] : commandsInfo[CommandGroup[c]][i] = c}
InHand(c) == {b \in Begins : drainPc[b] = "spawn" /\ drainCmd[b] = c}
InThread(c) == {b \in Begins : jobs[<<b, c>>] \in {"execute", "lock", "emit"}}
Reported(c) == {i \in DOMAIN outbox : IsFinish(outbox[i], c)}

\* A set in which any two elements are equal has one element, or none.
LEMMA OneElement ==
  ASSUME NEW S, NEW x \in S, \A y \in S : y = x
  PROVE  Cardinality(S) = 1
<1>1. S = {x}
  OBVIOUS
<1> QED
  BY <1>1, FS_Singleton

LEMMA OncePlaced ==
  ASSUME TypeOK, ProtocolInv
  PROVE  EachCommandOnce
<1>0. /\ HeldInv /\ PlacedInv /\ Started \subseteq takenOn
      /\ OneJob /\ SpawnsNew /\ DoneIsReported /\ OneReport
  BY HeldIsTakenOn, OneThreadParts DEF ProtocolInv, ReportInv
<1> SUFFICES ASSUME NEW c \in Commands
             PROVE  Copies(c) = IF c \in takenOn THEN 1 ELSE 0
  BY DEF EachCommandOnce
<1>1. Copies(c) = Cardinality(InQueue(c)) + Cardinality(InHand(c))
                    + Cardinality(InThread(c)) + Cardinality(Reported(c))
  BY DEF Copies, InQueue, InHand, InThread, Reported
<1>2. Cardinality({}) = 0
  BY FS_EmptySet
<1>3. CommandGroup[c] \in Groups
  BY CommandsAssumption
<1>4. InHand(c) # {} \/ InThread(c) # {} \/ Reported(c) # {} => c \in Started
  BY <1>0 DEF InHand, InThread, Reported, Started, DoneIsReported, FinishSent
<1>5. InQueue(c) # {} => c \in takenOn /\ c \notin Started
  BY <1>0, <1>3 DEF InQueue, HeldInv, PlacedInv, Queued
<1>6. CASE c \notin takenOn
  <2>1. InQueue(c) = {} /\ InHand(c) = {} /\ InThread(c) = {} /\ Reported(c) = {}
    BY <1>0, <1>4, <1>5, <1>6
  <2> QED
    BY <1>1, <1>2, <1>6, <2>1
<1>7. CASE c \in takenOn /\ c \notin Started
  <2>1. InHand(c) = {} /\ InThread(c) = {} /\ Reported(c) = {}
    BY <1>4, <1>7
  <2>2. PICK i : i \in InQueue(c)
    BY <1>0, <1>7 DEF PlacedInv, Waits, InQueue
  <2>3. \A k \in InQueue(c) : k = i
    BY <1>0, <1>3, <2>2 DEF InQueue, PlacedInv, Queued
  <2>4. Cardinality(InQueue(c)) = 1
    BY <2>2, <2>3, OneElement
  <2> QED
    BY <1>1, <1>2, <1>7, <2>1, <2>4
<1>8. CASE c \in takenOn /\ c \in Started
  <2>1. InQueue(c) = {}
    BY <1>5, <1>8
  <2>2. CASE \E b \in Begins : drainPc[b] = "spawn" /\ drainCmd[b] = c
    <3>1. PICK b \in Begins : drainPc[b] = "spawn" /\ drainCmd[b] = c
      BY <2>2
    <3>2. \A d \in Begins : jobs[<<d, c>>] = "none"
      BY <1>0, <3>1 DEF SpawnsNew
    <3>3. InThread(c) = {} /\ Reported(c) = {}
      BY <1>0, <3>2 DEF InThread, Reported, DoneIsReported, FinishSent
    <3>4. b \in InHand(c) /\ \A d \in InHand(c) : d = b
      BY <1>0, <3>1 DEF InHand, SpawnsNew
    <3>5. Cardinality(InHand(c)) = 1
      BY <3>4, OneElement
    <3> QED
      BY <1>1, <1>2, <1>8, <2>1, <3>3, <3>5
  <2>3. CASE \E b \in Begins : jobs[<<b, c>>] # "none"
    <3>1. PICK b \in Begins : jobs[<<b, c>>] # "none"
      BY <2>3
    <3>2. \A d \in Begins : jobs[<<d, c>>] # "none" => d = b
      BY <1>0, <3>1 DEF OneJob
    <3>3. InHand(c) = {}
      BY <1>0, <3>1 DEF InHand, SpawnsNew
    <3>4. jobs[<<b, c>>] \in {"execute", "lock", "emit", "done"}
      BY <3>1 DEF TypeOK, Jobs
    <3>5. CASE jobs[<<b, c>>] = "done"
      <4>1. InThread(c) = {}
        BY <3>2, <3>5 DEF InThread
      <4>2. PICK i : i \in Reported(c)
        BY <1>0, <3>5 DEF DoneIsReported, FinishSent, Reported
      <4>3. \A k \in Reported(c) : k = i
        BY <1>0, <4>2 DEF Reported, OneReport
      <4>4. Cardinality(Reported(c)) = 1
        BY <4>2, <4>3, OneElement
      <4> QED
        BY <1>1, <1>2, <1>8, <2>1, <3>3, <4>1, <4>4
    <3>6. CASE jobs[<<b, c>>] # "done"
      <4>1. Reported(c) = {}
        BY <1>0, <3>2, <3>6 DEF DoneIsReported, FinishSent, Reported
      <4>2. b \in InThread(c) /\ \A d \in InThread(c) : d = b
        BY <3>2, <3>4, <3>6 DEF InThread
      <4>3. Cardinality(InThread(c)) = 1
        BY <4>2, OneElement
      <4> QED
        BY <1>1, <1>2, <1>8, <2>1, <3>3, <4>1, <4>3
    <3> QED
      BY <3>5, <3>6
  <2> QED
    BY <1>8, <2>2, <2>3 DEF Started
<1> QED
  BY <1>6, <1>7, <1>8

(***************************************************************************)
(* If the brain sends one ALL_BEGINS per group at most, every command that *)
(* assessWork took on is in one place from then on - a queue, the hands of *)
(* a drain, a thread of its own, the events sent - whenever assignations   *)
(* and ALL_BEGINS arrive and however the threads interleave: none is lost, *)
(* none is executed or reported twice.                                     *)
(***************************************************************************)
THEOREM CommandsKept ==
  ASSUME OneBegin
  PROVE  Spec => []EachCommandOnce
<1>1. TypeOK /\ ProtocolInv => EachCommandOnce
  BY OncePlaced
<1> QED
  BY <1>1, TypeCorrect, ProtocolAlways, PTL

-----------------------------------------------------------------------------
\* The channel implements WorkProtocol.

\* An emit aside, what the brain has been told stays.
LEMMA ToldSame ==
  ASSUME UNCHANGED outbox
  PROVE  UNCHANGED <<Finished, Accepted, Refused>>
  BY OutboxSame DEF Finished, Accepted, Refused

\* A group has begun as soon as one of its all_begins threads exists.
LEMMA BegunSame ==
  ASSUME \A b \in Begins : drainPc'[b] = "none" <=> drainPc[b] = "none"
  PROVE  Begun' = Begun
  BY DEF Begun

\* What a step is for WorkProtocol when nothing it speaks of has changed.
LEMMA ProtocolStutter ==
  ASSUME UNCHANGED <<commandsInfo, Started, Finished, Accepted, Refused, Begun, Running>>
  PROVE  UNCHANGED WP!vars
  BY DEF WP!vars

LEMMA InitImplements == Init => WP!Init
<1> SUFFICES ASSUME Init PROVE WP!Init
  OBVIOUS
<1>1. DOMAIN outbox = {}
  BY DEF Init
<1>2. Finished = {} /\ Accepted = {} /\ Refused = {}
  BY <1>1 DEF Finished, Accepted, Refused, FinishSent, AcceptSent, RefuseSent
<1>3. Started = {} /\ Begun = {}
  <2>1. \A b \in Begins, c \in Commands : jobs[<<b, c>>] = "none" /\ drainPc[b] = "none"
    BY DEF Init, Jobs
  <2>2. \A b \in Begins : drainPc[b] = "none"
    BY DEF Init
  <2> QED
    BY <2>1, <2>2 DEF Started, Begun
<1>4. commandsInfo = [g \in Groups |-> <<>>] /\ Running
  BY DEF Init, ServicesInit, Running
<1> QED
  BY <1>2, <1>3, <1>4 DEF WP!Init

\* assessWork enqueues a command that was never taken on.
LEMMA AppendsEnqueues ==
  ASSUME TypeOK, ProtocolInv, NEW c \in Commands, Appends(c)
  PROVE  WP!Enqueue(c)
<1>1. /\ net.pc = "assess" /\ Running /\ UNCHANGED <<outbox, drainPc, fault>>
      /\ c = net.reply.cmd
      /\ commandsInfo' = [commandsInfo EXCEPT ![CommandGroup[c]] = Append(@, c)]
  BY DEF Appends, AssessWork
<1>2. ~AcceptSent(c) /\ ~RefuseSent(c)
  <2>1. Answering(c)
    BY <1>1 DEF ProtocolInv, ReportInv, ReplyInv, IsAccept, Answering
  <2> QED
    BY <2>1 DEF ProtocolInv, AnsweredOnceInv
<1>3. c \notin takenOn
  BY <1>1, <1>2 DEF takenOn
<1>4. c \notin Started
  BY <1>3, HeldIsTakenOn DEF ProtocolInv, ReportInv
<1>5. ~WP!Waits(c)
  BY <1>3, CommandsAssumption DEF ProtocolInv, ReportInv, HeldInv, WP!Waits
<1>6. c \notin Refused
  BY <1>2 DEF Refused
<1>7. UNCHANGED <<Started, Finished, Accepted, Refused, Begun, Running>>
  BY <1>1, ToldSame, BegunSame DEF Appends, Started, Running
<1> QED
  BY <1>1, <1>4, <1>5, <1>6, <1>7 DEF WP!Enqueue

\* A pop starts the first command of a group that has begun.
LEMMA StartsStarts ==
  ASSUME TypeOK, ProtocolInv, NEW b \in Begins, Starts(b)
  PROVE  WP!Start(BeginGroup[b])
<1> DEFINE g == BeginGroup[b]
<1>1. /\ Running /\ drainPc[b] = "pop" /\ UNCHANGED <<outbox, fault>>
      /\ commandsInfo[g] # <<>> /\ drainCmd[b] = Head(commandsInfo[g])
      /\ commandsInfo' = [commandsInfo EXCEPT ![g] = Tail(@)]
      /\ drainPc' = [drainPc EXCEPT ![b] = "spawn"]
  BY DEF Starts, At
<1>2. g \in Groups /\ commandsInfo[g] \in Seq(Commands)
  BY ChannelAssumption DEF TypeOK, ServicesTypeOK
<1>3. g \in Begun
  BY <1>1, <1>2 DEF Begun
<1>4. Head(commandsInfo[g]) \notin Started
  <2>1. Queued(g, commandsInfo[g])
    BY <1>2 DEF ProtocolInv, PlacedInv
  <2>2. 1 \in DOMAIN commandsInfo[g] /\ Head(commandsInfo[g]) = commandsInfo[g][1]
    BY <1>1, <1>2, SeqFront
  <2> QED
    BY <2>1, <2>2 DEF Queued
<1>5. Started' = Started \cup {Head(commandsInfo[g])}
  BY <1>1, StartsStarted
<1>6. \A d \in Begins : drainPc'[d] = "none" <=> drainPc[d] = "none"
  BY <1>1 DEF TypeOK
<1>7. UNCHANGED <<Finished, Accepted, Refused, Begun, Running>>
  BY <1>1, <1>6, ToldSame, BegunSame DEF Running
<1> HIDE DEF g
<1> QED
  BY <1>1, <1>3, <1>4, <1>5, <1>7 DEF WP!Start, g

\* The end of a handler tells the brain that a command is accepted or refused, or its status.
LEMMA EmitReplyAnswers ==
  ASSUME TypeOK, ProtocolInv, EmitReply, UNCHANGED <<commandsInfo, Started>>
  PROVE  \/ \E c \in Commands : WP!Accept(c) \/ WP!Refuse(c)
         \/ UNCHANGED WP!vars
<1> DEFINE r == net.reply
           c == net.reply.cmd
<1>1. /\ Running /\ net.pc = "emit" /\ r \in Replies /\ c \in Commands
      /\ outbox' = Append(outbox, r) /\ UNCHANGED <<drainPc, fault>>
      /\ r.event # "ACTION_FINISHED"
  BY DEF EmitReply, TypeOK, Replies, ProtocolInv, ReportInv, ReplyInv
<1>2. UNCHANGED <<Begun, Running>>
  BY <1>1, BegunSame DEF Running
<1>3. UNCHANGED Finished
  BY <1>1, OutboxGrows DEF Finished, IsFinish
<1>4. CASE r.event # "WORK_ASSIGNATION_REPLY"
  <2>1. UNCHANGED <<Accepted, Refused>>
    BY <1>1, <1>4, OutboxGrows DEF Accepted, Refused, IsAccept, IsRefuse
  <2> QED
    BY <1>2, <1>3, <2>1, ProtocolStutter
<1>5. CASE r.event = "WORK_ASSIGNATION_REPLY"
  <2>1. r.answer \in {"ACCEPTED", "REFUSE"} /\ ~AcceptSent(c) /\ ~RefuseSent(c)
    <3>1. Answering(c)
      BY <1>1, <1>5 DEF Answering
    <3> QED
      BY <1>1, <3>1 DEF ProtocolInv, AnsweredOnceInv
  <2>2. c \notin Accepted /\ c \notin Refused
    BY <2>1 DEF Accepted, Refused
  <2>3. CASE r.answer = "ACCEPTED"
    <3>1. Accepted' = Accepted \cup {c} /\ UNCHANGED Refused
      BY <1>1, <1>5, <2>3, OutboxGrows DEF Accepted, Refused, IsAccept, IsRefuse
    <3>2. c \in Started \/ WP!Waits(c)
      <4>1. c \in takenOn
        BY <1>1, <1>5, <2>3 DEF takenOn, IsAccept
      <4> QED
        BY <4>1 DEF ProtocolInv, PlacedInv, Waits, WP!Waits
    <3>3. WP!Accept(c)
      BY <1>1, <1>2, <1>3, <2>2, <3>1, <3>2 DEF WP!Accept
    <3> QED
      BY <1>1, <3>3
  <2>4. CASE r.answer = "REFUSE"
    <3>1. Refused' = Refused \cup {c} /\ UNCHANGED Accepted
      BY <1>1, <1>5, <2>4, OutboxGrows DEF Accepted, Refused, IsAccept, IsRefuse
    <3>2. c \notin takenOn
      BY <2>1, <2>4 DEF takenOn, IsAccept
    <3>3. c \notin Started
      BY <3>2, HeldIsTakenOn DEF ProtocolInv, ReportInv
    <3>4. ~WP!Waits(c)
      BY <1>1, <3>2, CommandsAssumption DEF ProtocolInv, ReportInv, HeldInv, WP!Waits
    <3>5. WP!Refuse(c)
      BY <1>1, <1>2, <1>3, <2>2, <3>1, <3>3, <3>4 DEF WP!Refuse
    <3> QED
      BY <1>1, <3>5
  <2> QED
    BY <2>1, <2>3, <2>4
<1> QED
  BY <1>4, <1>5

\* A report finishes a command that was started, accepted, and not reported before.
LEMMA EmitFinishedFinishes ==
  ASSUME TypeOK, ProtocolInv, NEW j \in Jobs, EmitFinished(j),
         UNCHANGED <<commandsInfo, Started>>
  PROVE  \E c \in Commands : WP!Finish(c)
<1> DEFINE r == Reply("ACTION_FINISHED", "handling_module", j[2], "DONE")
           c == j[2]
<1>1. /\ Running /\ jobs[j] = "emit" /\ outbox' = Append(outbox, r)
      /\ UNCHANGED <<drainPc, fault>>
  BY DEF EmitFinished, JobAt, jobFrame
<1>2. PICK b \in Begins : j = <<b, c>> /\ c \in Commands
  BY DEF Jobs
<1>3. r \in Replies /\ \A d : ~IsAccept(r, d) /\ ~IsRefuse(r, d) /\ (IsFinish(r, d) <=> d = c)
  BY FinishedReply
<1> HIDE DEF r
<1>4. /\ Finished' = Finished \cup {c}
      /\ UNCHANGED <<Accepted, Refused>>
  BY <1>1, <1>2, <1>3, OutboxGrows DEF Finished, Accepted, Refused
<1>5. UNCHANGED <<Begun, Running>>
  BY <1>1, BegunSame DEF Running
<1>6. c \in Started
  BY <1>1, <1>2 DEF Started
<1>7. c \in Accepted
  <2>1. c \in takenOn
    BY <1>1 DEF ProtocolInv, ReportInv, HeldInv
  <2>2. net.pc = "idle"
    BY <1>1 DEF ProtocolInv, ReportInv, LockInv
  <2> QED
    BY <1>2, <2>1, <2>2 DEF takenOn, Accepted
<1>8. c \notin Finished
  <2>1. OneJob /\ DoneIsReported
    BY OneThreadParts DEF ProtocolInv
  <2>2. \A d \in Begins : jobs[<<d, c>>] # "none" => d = b
    BY <1>1, <1>2, <2>1 DEF OneJob
  <2>3. ~\E d \in Begins : jobs[<<d, c>>] = "done"
    BY <1>1, <1>2, <2>2
  <2> QED
    BY <1>2, <2>1, <2>3 DEF DoneIsReported, Finished
<1>9. WP!Finish(c)
  BY <1>1, <1>4, <1>5, <1>6, <1>7, <1>8 DEF WP!Finish
<1> QED
  BY <1>2, <1>9

\* An ALL_BEGINS lets its group begin.
LEMMA TakeAllBeginsBegins ==
  ASSUME TypeOK, ProtocolInv, TakeAllBegins, UNCHANGED <<commandsInfo, Started>>
  PROVE  \E g \in Groups : WP!GroupBegins(g)
<1> DEFINE b == Head(inbox).begin
<1>1. /\ Running /\ UNCHANGED <<outbox, fault>>
      /\ drainPc' = [drainPc EXCEPT ![b] = "setWorking"]
  BY DEF TakeAllBegins, Delivered
<1>2. b \in Begins /\ BeginGroup[b] \in Groups
  <2>1. Head(inbox) \in Messages /\ Head(inbox).event = "ALL_BEGINS"
    BY DeliveredRest DEF TakeAllBegins, ProtocolInv
  <2> QED
    BY <2>1, MessagesShape, ChannelAssumption
<1> HIDE DEF b
<1>3. Begun' = Begun \cup {BeginGroup[b]}
  <2>1. \A d \in Begins : drainPc'[d] # "none" <=> d = b \/ drainPc[d] # "none"
    BY <1>1, <1>2 DEF TypeOK
  <2> QED
    BY <1>2, <2>1 DEF Begun
<1>4. UNCHANGED <<Finished, Accepted, Refused, Running>>
  BY <1>1, ToldSame DEF Running
<1>5. WP!GroupBegins(BeginGroup[b])
  BY <1>1, <1>3, <1>4 DEF WP!GroupBegins
<1> QED
  BY <1>2, <1>5

\* Every step of every thread is a step of WorkProtocol, or none.
LEMMA StepImplements ==
  ASSUME TypeOK, ProtocolInv, [Next]_vars
  PROVE  [WP!Next]_(WP!vars)
<1>1. \/ \E c \in Commands : Appends(c)
      \/ \E b \in Begins : Starts(b)
      \/ UNCHANGED commandsInfo /\ Started' = Started
  BY PlaceStep DEF ProtocolInv
<1>2. CASE \E c \in Commands : Appends(c)
  BY <1>2, AppendsEnqueues DEF WP!Next
<1>3. CASE \E b \in Begins : Starts(b)
  BY <1>3, StartsStarts, ChannelAssumption DEF WP!Next
<1>4. CASE UNCHANGED commandsInfo /\ Started' = Started
  <2>1. CASE EmitReply
    BY <1>4, <2>1, EmitReplyAnswers DEF WP!Next
  <2>2. CASE \E j \in Jobs : EmitFinished(j)
    BY <1>4, <2>2, EmitFinishedFinishes DEF WP!Next
  <2>3. CASE TakeAllBegins
    BY <1>4, <2>3, TakeAllBeginsBegins DEF WP!Next
  <2>4. CASE DataRace \/ OnClose
    <3>1. Running /\ ~Running' /\ UNCHANGED <<outbox, drainPc>>
      BY <2>4 DEF DataRace, OnClose, Running, threadVars
    <3>2. UNCHANGED <<Finished, Accepted, Refused, Begun>>
      BY <3>1, ToldSame, BegunSame
    <3>3. WP!Stop
      BY <1>4, <3>1, <3>2 DEF WP!Stop
    <3> QED
      BY <3>3 DEF WP!Next
  <2>5. ASSUME UNCHANGED <<outbox, fault>>,
               \A b \in Begins : drainPc'[b] = "none" <=> drainPc[b] = "none"
        PROVE  UNCHANGED WP!vars
    <3>1. UNCHANGED Running
      BY <2>5 DEF Running
    <3> QED
      BY <1>4, <2>5, <3>1, ToldSame, BegunSame, ProtocolStutter
  <2>6. ASSUME NEW b \in Begins, DrainStep(b) PROVE UNCHANGED WP!vars
    <3>1. UNCHANGED <<outbox, fault>>
      BY <2>6 DEF DrainStep, BeginWorking, CheckEmpty, GetFront, Pop, Spawn, EndWorking, drainFrame,
                  At, isEmptyCommands, ProtocolInv, PopsWhatItRead
    <3>2. /\ drainPc[b] # "none"
          /\ \/ drainPc' = drainPc
             \/ \E pc \in {"check", "front", "pop", "spawn", "clear", "done"} :
                  drainPc' = [drainPc EXCEPT ![b] = pc]
      BY <2>6 DEF DrainStep, BeginWorking, CheckEmpty, GetFront, Pop, Spawn, EndWorking, At, GoTo
    <3>3. \A d \in Begins : drainPc'[d] = "none" <=> drainPc[d] = "none"
      BY <3>2 DEF TypeOK
    <3> QED
      BY <2>5, <3>1, <3>3
  <2>7. CASE \E m \in Messages : BrainSends(m)
    BY <2>5, <2>7 DEF BrainSends, threadVars
  <2>8. CASE TakeWorkAssignation \/ AssessWork \/ TakeWorkStatus \/ ReadStatus
               \/ TakeRegistrationReply
    BY <2>5, <2>8 DEF TakeWorkAssignation, AssessWork, TakeWorkStatus, ReadStatus,
                      TakeRegistrationReply, threadVars
  <2>9. CASE \E j \in Jobs : Execute(j) \/ LockToEmit(j)
    BY <2>5, <2>9 DEF Execute, LockToEmit, jobFrame
  <2>10. CASE UNCHANGED vars
    BY <2>5, <2>10 DEF vars, threadVars
  <2> QED
    BY <2>1, <2>2, <2>3, <2>4, <2>6, <2>7, <2>8, <2>9, <2>10 DEF Next, NetStep, JobStep
<1> QED
  BY <1>1, <1>2, <1>3, <1>4

(***************************************************************************)
(* If the brain sends one ALL_BEGINS per group at most, the channel keeps  *)
(* the promises of WorkProtocol for any number of commands, groups and     *)
(* events: each step of its threads is one step of the protocol or none.   *)
(***************************************************************************)
THEOREM ChannelImplementsWorkProtocol ==
  ASSUME OneBegin
  PROVE  Spec => ImplementsWorkProtocol
<1>1. TypeOK /\ ProtocolInv /\ [Next]_vars => [WP!Next]_(WP!vars)
  BY StepImplements
<1>2. Spec => []TypeOK /\ []ProtocolInv
  BY TypeCorrect, ProtocolAlways
<1> QED
  BY <1>1, <1>2, InitImplements, PTL DEF Spec, ImplementsWorkProtocol, WP!Spec

-----------------------------------------------------------------------------
\* The order of the events on their way.

\* An event called ALL_BEGINS in the inbox was sent, and then so was every assignation.
LEMMA BeginMeansAllSent ==
  ASSUME TypeOK, BeginOnceInv, FirstInv, NEW i \in DOMAIN inbox, inbox[i].event = "ALL_BEGINS"
  PROVE  \A c \in Commands : Assignation(c) \in sent
<1>1. inbox[i] \in Messages /\ inbox[i] \in sent
  BY DEF TypeOK, BeginOnceInv
<1>2. PICK d \in Begins : inbox[i] = Begin(d)
  BY <1>1, BeginsAreBegins
<1> QED
  BY <1>1, <1>2 DEF FirstInv

\* The places of a sequence.
LEMMA Places ==
  ASSUME NEW S, NEW s \in Seq(S), NEW k \in DOMAIN s
  PROVE  k \in Int /\ 0 < k /\ k < Len(s) + 1 /\ ~(k + 1 < 1)
<1>1. Len(s) \in Nat /\ k \in 1..Len(s)
  BY LenProperties
<1> QED
  BY <1>1

\* What a delivery leaves keeps its order.
LEMMA DeliveredOrder ==
  ASSUME TypeOK, FirstInv, NEW e, Delivered(e)
  PROVE  \A i, k \in DOMAIN inbox' :
           inbox'[i].event = "ALL_BEGINS" /\ inbox'[k].event = "WORK_ASSIGNATION" => k < i
<1>1. inbox \in Seq(Messages) /\ inbox # <<>> /\ inbox' = Tail(inbox)
  BY DEF Delivered, TypeOK
<1>2. /\ inbox' \in Seq(Messages)
      /\ \A i \in DOMAIN inbox' : i + 1 \in DOMAIN inbox /\ inbox'[i] = inbox[i + 1]
  BY <1>1, SeqFront
<1>3. \A i \in DOMAIN inbox' : i \in Int
  BY <1>2, Places
<1> SUFFICES ASSUME NEW i \in DOMAIN inbox', NEW k \in DOMAIN inbox',
                    inbox'[i].event = "ALL_BEGINS", inbox'[k].event = "WORK_ASSIGNATION"
             PROVE  k < i
  OBVIOUS
<1>4. k + 1 < i + 1
  BY <1>2 DEF FirstInv
<1> QED
  BY <1>3, <1>4

\* An empty inbox and no drain.
LEMMA FirstInit == Init => FirstInv
<1> SUFFICES ASSUME Init PROVE FirstInv
  OBVIOUS
<1>1. DOMAIN inbox = {} /\ sent = {} /\ \A b \in Begins : drainPc[b] = "none"
  BY DEF Init
<1> QED
  BY <1>1 DEF FirstInv

\* The steps of a handler after its first lead away from assessWork.
LEMMA LeavesAssess ==
  ASSUME TypeOK, AssessWork \/ EmitReply \/ ReadStatus
  PROVE  net'.pc # "assess"
<1>1. CASE AssessWork
  <2>1. net.pc = "assess" /\ net.reply \in Replies
    BY <1>1 DEF AssessWork, TypeOK
  <2>2. CASE net' = [net EXCEPT !.pc = "emit"]
    BY <2>1, <2>2 DEF TypeOK
  <2>3. CASE net' = [pc |-> "emit", reply |-> [net.reply EXCEPT !.answer = "REFUSE"]]
    BY <2>1, <2>3 DEF Replies
  <2> QED
    BY <1>1, <2>2, <2>3 DEF AssessWork
<1>2. CASE EmitReply
  BY <1>2 DEF EmitReply
<1>3. CASE ReadStatus
  <2>1. net.pc = "status" /\ net.reply \in Replies
    BY <1>3 DEF ReadStatus, TypeOK
  <2> QED
    BY <1>3, <2>1 DEF ReadStatus, Replies
<1> QED
  BY <1>1, <1>2, <1>3

\* Every step keeps the assignations ahead of the drains.
LEMMA FirstStep ==
  ASSUME TypeOK, BeginOnceInv, FirstInv, Discipline = "all first", [Next]_vars
  PROVE  FirstInv'
<1>0. /\ \A b \in Begins : Begin(b).event = "ALL_BEGINS" /\ Begin(b)' = Begin(b)
      /\ \A c \in Commands : Assignation(c)' = Assignation(c)
  BY DEF Assignation, Begin
<1>1. ASSUME UNCHANGED <<sent, inbox>>, net'.pc # "assess" \/ UNCHANGED net,
             \A b \in Begins : drainPc'[b] # "none" => drainPc[b] # "none"
      PROVE  FirstInv'
  BY <1>0, <1>1 DEF FirstInv
<1>2. ASSUME NEW m \in Messages, BrainSends(m) PROVE FirstInv'
  <2>1. /\ m \notin sent /\ MaySend(m) /\ sent' = sent \cup {m}
        /\ inbox' = Append(inbox, m) /\ UNCHANGED <<net, drainPc>>
    BY <1>2 DEF BrainSends, threadVars
  <2>2. inbox \in Seq(Messages)
    BY DEF TypeOK
  <2>3. \A b \in Begins : Begin(b) \in sent' => \A c \in Commands : Assignation(c) \in sent'
    <3>1. \A b \in Begins : Begin(b) = m => \A c \in Commands : Assignation(c) \in sent
      BY <1>0, <2>1 DEF MaySend
    <3> QED
      BY <1>0, <2>1, <3>1 DEF FirstInv
  <2>4. m.event = "WORK_ASSIGNATION" =>
          /\ \A i \in DOMAIN inbox : inbox[i].event # "ALL_BEGINS"
          /\ \A b \in Begins : drainPc[b] = "none"
    <3> SUFFICES ASSUME m.event = "WORK_ASSIGNATION"
                 PROVE  /\ \A i \in DOMAIN inbox : inbox[i].event # "ALL_BEGINS"
                        /\ \A b \in Begins : drainPc[b] = "none"
      OBVIOUS
    <3>1. ~\A c \in Commands : Assignation(c) \in sent
      BY <2>1, AssignationsAreAssignations
    <3>2. \A i \in DOMAIN inbox : inbox[i].event # "ALL_BEGINS"
      BY <3>1, BeginMeansAllSent
    <3>3. \A b \in Begins : drainPc[b] = "none"
      BY <3>1 DEF BeginOnceInv, FirstInv
    <3> QED
      BY <3>2, <3>3
  <2>5. \A i \in DOMAIN inbox' :
          \/ i \in DOMAIN inbox /\ inbox'[i] = inbox[i]
          \/ i = Len(inbox) + 1 /\ inbox'[i] = m
    BY <2>1, <2>2, AppendElement
  <2>6. \A i, k \in DOMAIN inbox' :
          inbox'[i].event = "ALL_BEGINS" /\ inbox'[k].event = "WORK_ASSIGNATION" => k < i
    <3> SUFFICES ASSUME NEW i \in DOMAIN inbox', NEW k \in DOMAIN inbox',
                        inbox'[i].event = "ALL_BEGINS", inbox'[k].event = "WORK_ASSIGNATION"
                 PROVE  k < i
      OBVIOUS
    <3>1. CASE k \in DOMAIN inbox /\ inbox'[k] = inbox[k]
      <4>1. CASE i \in DOMAIN inbox /\ inbox'[i] = inbox[i]
        BY <3>1, <4>1 DEF FirstInv
      <4>2. CASE i = Len(inbox) + 1
        BY <2>2, <3>1, <4>2, Places
      <4> QED
        BY <2>5, <4>1, <4>2
    <3>2. CASE inbox'[k] = m
      <4>1. inbox'[i] # m
        BY <3>2
      <4>2. i \in DOMAIN inbox /\ inbox'[i] = inbox[i]
        BY <2>5, <4>1
      <4> QED
        BY <2>4, <3>2, <4>2
    <3> QED
      BY <2>5, <3>1, <3>2
  <2>7. ASSUME NEW b \in Begins, drainPc'[b] # "none"
        PROVE  /\ net'.pc # "assess"
               /\ \A i \in DOMAIN inbox' : inbox'[i].event # "WORK_ASSIGNATION"
    BY <2>1, <2>4, <2>5, <2>7 DEF FirstInv
  <2> QED
    BY <2>3, <2>6, <2>7 DEF FirstInv
<1>3. ASSUME NEW e, Delivered(e), UNCHANGED drainPc,
             net'.pc = "assess" => e = "WORK_ASSIGNATION"
      PROVE  FirstInv'
  <2>1. /\ UNCHANGED sent
        /\ \E i \in DOMAIN inbox : inbox[i].event = e
        /\ \A i \in DOMAIN inbox' : \E k \in DOMAIN inbox : inbox'[i] = inbox[k]
    BY <1>3, DeliveredRest
  <2>2. ASSUME NEW b \in Begins, drainPc'[b] # "none"
        PROVE  /\ net'.pc # "assess"
               /\ \A i \in DOMAIN inbox' : inbox'[i].event # "WORK_ASSIGNATION"
    BY <1>3, <2>1, <2>2 DEF FirstInv
  <2>3. \A b \in Begins : Begin(b) \in sent' => \A c \in Commands : Assignation(c) \in sent'
    BY <1>0, <2>1 DEF FirstInv
  <2> QED
    BY <1>3, <2>2, <2>3, DeliveredOrder DEF FirstInv
<1>4. CASE TakeAllBegins
  <2>1. Delivered("ALL_BEGINS") /\ UNCHANGED net
    BY <1>4 DEF TakeAllBegins
  <2>2. /\ UNCHANGED sent /\ net.pc = "idle"
        /\ Head(inbox).event = "ALL_BEGINS"
    BY <2>1, DeliveredRest
  <2>3. /\ inbox \in Seq(Messages) /\ inbox # <<>> /\ inbox' = Tail(inbox)
    BY <2>1 DEF Delivered, TypeOK
  <2>4. /\ 1 \in DOMAIN inbox /\ Head(inbox) = inbox[1] /\ inbox' \in Seq(Messages)
        /\ \A i \in DOMAIN inbox' : i + 1 \in DOMAIN inbox /\ inbox'[i] = inbox[i + 1]
    BY <2>3, SeqFront
  <2>5. \A i \in DOMAIN inbox' : inbox'[i].event # "WORK_ASSIGNATION"
    <3> SUFFICES ASSUME NEW i \in DOMAIN inbox', inbox'[i].event = "WORK_ASSIGNATION"
                 PROVE  FALSE
      OBVIOUS
    <3>1. i + 1 < 1
      BY <2>2, <2>4 DEF FirstInv
    <3> QED
      BY <2>4, <3>1, Places
  <2>6. \A b \in Begins : Begin(b) \in sent' => \A c \in Commands : Assignation(c) \in sent'
    BY <1>0, <2>2 DEF FirstInv
  <2> QED
    BY <2>1, <2>2, <2>5, <2>6, DeliveredOrder DEF FirstInv
<1>5. CASE TakeWorkAssignation \/ TakeWorkStatus \/ TakeRegistrationReply
  <2>1. CASE TakeWorkAssignation
    BY <1>3, <2>1 DEF TakeWorkAssignation
  <2>2. CASE TakeWorkStatus
    BY <1>3, <2>2 DEF TakeWorkStatus
  <2>3. CASE TakeRegistrationReply
    BY <1>3, <2>3 DEF TakeRegistrationReply, Delivered, threadVars
  <2> QED
    BY <1>5, <2>1, <2>2, <2>3
<1>6. CASE AssessWork \/ EmitReply \/ ReadStatus
  <2>1. UNCHANGED <<sent, inbox, drainPc>>
    BY <1>6 DEF AssessWork, EmitReply, ReadStatus, brainVars
  <2>2. net'.pc # "assess"
    BY <1>6, LeavesAssess
  <2> QED
    BY <1>1, <2>1, <2>2
<1>7. ASSUME NEW b \in Begins, DrainStep(b) PROVE FirstInv'
  <2>1. /\ UNCHANGED <<sent, inbox, net>> /\ drainPc[b] # "none"
        /\ \/ drainPc' = drainPc
           \/ \E pc \in {"check", "front", "pop", "spawn", "clear", "done"} :
                drainPc' = [drainPc EXCEPT ![b] = pc]
    BY <1>7 DEF DrainStep, BeginWorking, CheckEmpty, GetFront, Pop, Spawn, EndWorking, At, GoTo,
                drainFrame, brainVars
  <2>2. \A d \in Begins : drainPc'[d] # "none" => drainPc[d] # "none"
    BY <2>1 DEF TypeOK
  <2> QED
    BY <1>1, <2>1, <2>2
<1>8. CASE \E j \in Jobs : JobStep(j)
  BY <1>1, <1>8 DEF JobStep, Execute, LockToEmit, EmitFinished, jobFrame, brainVars
<1>9. CASE DataRace \/ OnClose \/ UNCHANGED vars
  BY <1>1, <1>9 DEF DataRace, OnClose, vars, threadVars, brainVars
<1> QED
  BY <1>2, <1>4, <1>5, <1>6, <1>7, <1>8, <1>9 DEF Next, NetStep

-----------------------------------------------------------------------------
\* The nodes of the map of queues.

\* No event was sent.
LEMMA KeysInit == Init => KeysInv
  BY DEF Init, KeysInv

\* What is in a sequence and is not its head is in its tail.
LEMMA TailHas ==
  ASSUME NEW S, NEW s \in Seq(S), s # <<>>, NEW i \in DOMAIN s, s[i] # Head(s)
  PROVE  \E k \in DOMAIN Tail(s) : Tail(s)[k] = s[i]
<1>1. /\ Head(s) = s[1] /\ Tail(s) \in Seq(S)
      /\ Len(s) \in Nat /\ DOMAIN s = 1..Len(s)
      /\ Len(Tail(s)) = Len(s) - 1
      /\ \A k \in 1..Len(Tail(s)) : Tail(s)[k] = s[k + 1]
  BY SeqFront, LenProperties, HeadTailProperties
<1>2. DOMAIN Tail(s) = 1..Len(Tail(s))
  BY <1>1, LenProperties
<1>3. i # 1
  BY <1>1
<1>4. i - 1 \in 1..Len(Tail(s)) /\ (i - 1) + 1 = i
  BY <1>1, <1>3
<1> QED
  BY <1>1, <1>2, <1>4

\* Every step leaves the node of an assessed command's group where it is.
LEMMA KeysStep ==
  ASSUME TypeOK, BeginOnceInv, KeysInv, [Next]_vars
  PROVE  KeysInv'
<1> USE DEF Assignation, Assessable
<1>1. ASSUME UNCHANGED <<sent, inbox>>, keys \subseteq keys', net.pc # "assess" \/ UNCHANGED net
      PROVE  KeysInv'
  BY <1>1 DEF KeysInv
<1>2. ASSUME NEW m \in Messages, BrainSends(m) PROVE KeysInv'
  <2>1. sent' = sent \cup {m} /\ inbox' = Append(inbox, m) /\ UNCHANGED <<net, keys>>
    BY <1>2 DEF BrainSends, threadVars, servicesVars
  <2>2. /\ \A i \in DOMAIN inbox : i \in DOMAIN inbox' /\ inbox'[i] = inbox[i]
        /\ Len(inbox) + 1 \in DOMAIN inbox' /\ inbox'[Len(inbox) + 1] = m
    <3>1. inbox \in Seq(Messages)
      BY DEF TypeOK
    <3> QED
      BY <2>1, <3>1, AppendHas
  <2> QED
    BY <2>1, <2>2 DEF KeysInv
<1>3. ASSUME NEW e, Delivered(e), UNCHANGED keys
      PROVE  \A c \in Commands :
               \/ ~Assessable(c)
               \/ Assignation(c) \notin sent'
               \/ \E i \in DOMAIN inbox' : inbox'[i] = Assignation(c)
               \/ Head(inbox) = Assignation(c)
               \/ CommandGroup[c] \in keys'
  <2>1. UNCHANGED sent /\ net.pc = "idle"
    BY <1>3, DeliveredRest
  <2>2. \A i \in DOMAIN inbox : inbox[i] # Head(inbox) =>
          \E k \in DOMAIN inbox' : inbox'[k] = inbox[i]
    <3>1. inbox \in Seq(Messages) /\ inbox # <<>> /\ inbox' = Tail(inbox)
      BY <1>3 DEF Delivered, TypeOK
    <3> QED
      BY <3>1, TailHas
  <2> QED
    BY <1>3, <2>1, <2>2 DEF KeysInv
<1>4. CASE TakeWorkAssignation
  <2>1. /\ Delivered("WORK_ASSIGNATION") /\ UNCHANGED keys
        /\ net'.pc = "assess" /\ net'.reply.cmd = Head(inbox).cmd
    BY <1>4 DEF TakeWorkAssignation, servicesVars, Reply
  <2>2. \A c \in Commands : Head(inbox) = Assignation(c) => net'.reply.cmd = c
    BY <2>1
  <2> QED
    BY <1>3, <2>1, <2>2 DEF KeysInv
<1>5. ASSUME NEW e, Delivered(e), e # "WORK_ASSIGNATION", UNCHANGED keys PROVE KeysInv'
  <2>1. \A c \in Commands : Head(inbox) # Assignation(c)
    BY <1>5, DeliveredRest
  <2>2. net.pc = "idle"
    BY <1>5 DEF Delivered
  <2> QED
    BY <1>3, <1>5, <2>1, <2>2 DEF KeysInv
<1>6. CASE TakeAllBegins \/ TakeWorkStatus \/ TakeRegistrationReply
  <2>1. UNCHANGED keys
    BY <1>6 DEF TakeAllBegins, TakeWorkStatus, TakeRegistrationReply, servicesVars
  <2> QED
    BY <1>5, <1>6, <2>1 DEF TakeAllBegins, TakeWorkStatus, TakeRegistrationReply
<1>7. CASE AssessWork
  <2>1. net.pc = "assess" /\ UNCHANGED <<sent, inbox>>
    BY <1>7 DEF AssessWork, brainVars
  <2>2. /\ keys \subseteq keys'
        /\ Assessable(net.reply.cmd) => CommandGroup[net.reply.cmd] \in keys'
    BY <1>7 DEF AssessWork, Push, Touch, servicesVars
  <2> QED
    BY <2>1, <2>2 DEF KeysInv
<1>8. CASE EmitReply \/ ReadStatus
  BY <1>1, <1>8 DEF EmitReply, ReadStatus, brainVars, servicesVars
<1>9. ASSUME NEW b \in Begins, DrainStep(b) PROVE KeysInv'
  <2>1. UNCHANGED <<sent, inbox, net>> /\ keys \subseteq keys'
    BY <1>9 DEF DrainStep, BeginWorking, CheckEmpty, GetFront, Pop, Spawn, EndWorking, Touch,
                setWorking, PopFront, drainFrame, brainVars, servicesVars
  <2> QED
    BY <1>1, <2>1
<1>10. CASE \E j \in Jobs : JobStep(j)
  BY <1>1, <1>10 DEF JobStep, Execute, LockToEmit, EmitFinished, jobFrame, brainVars,
                     servicesVars
<1>11. CASE DataRace \/ OnClose \/ UNCHANGED vars
  BY <1>1, <1>11 DEF DataRace, OnClose, vars, threadVars, brainVars, servicesVars
<1> QED
  BY <1>2, <1>4, <1>6, <1>7, <1>8, <1>9, <1>10, <1>11 DEF Next, NetStep

-----------------------------------------------------------------------------
\* No two accesses meet.

\* A group that has a drain has its node: one of its commands was assessed before.
LEMMA DrainsHaveNodes ==
  ASSUME Disciplined, BeginOnceInv, FirstInv, KeysInv, NEW b \in Begins, drainPc[b] # "none"
  PROVE  BeginGroup[b] \in keys
<1>1. PICK c \in Commands : CommandGroup[c] = BeginGroup[b] /\ Assessable(c)
  BY DEF Disciplined
<1>2. Assignation(c) \in sent
  BY DEF BeginOnceInv, FirstInv
<1>3. /\ net.pc # "assess"
      /\ \A i \in DOMAIN inbox : inbox[i].event # "WORK_ASSIGNATION"
  BY DEF FirstInv
<1>4. \A i \in DOMAIN inbox : inbox[i] # Assignation(c)
  BY <1>3 DEF Assignation
<1> QED
  BY <1>1, <1>2, <1>3, <1>4 DEF KeysInv

\* What a thread may be about to access, and what that means for the others.
LEMMA AccessOf ==
  ASSUME NEW t \in Begins \cup {"net"}, NEW x \in Accesses(t)
  PROVE  \/ t \in Begins /\ drainPc[t] # "none" /\ x.group = BeginGroup[t]
         \/ t \notin Begins /\ net.pc = "assess"
<1>1. CASE t \in Begins
  BY <1>1 DEF Accesses, Access
<1>2. CASE t \notin Begins
  BY <1>2 DEF Accesses
<1> QED
  BY <1>1, <1>2

\* Two threads that access the map are drains of different groups, whose nodes are there.
LEMMA NoRace ==
  ASSUME Disciplined, BeginOnceInv, FirstInv, KeysInv
  PROVE  ~DataRace
<1> SUFFICES ASSUME NEW t \in Begins \cup {"net"}, NEW u \in Begins \cup {"net"}, t # u,
                    NEW x \in Accesses(t), NEW y \in Accesses(u), Conflict(x, y)
             PROVE  FALSE
  BY DEF DataRace
<1>1. /\ t \in Begins /\ drainPc[t] # "none" /\ x.group = BeginGroup[t]
      /\ u \in Begins /\ drainPc[u] # "none" /\ y.group = BeginGroup[u]
  BY AccessOf DEF FirstInv
<1>2. x.group \in keys /\ y.group \in keys
  BY <1>1, DrainsHaveNodes
<1>3. x.group # y.group
  BY <1>1 DEF Disciplined, OneBegin
<1> QED
  BY <1>2, <1>3 DEF Conflict, Inserts

\* Only a race and the end of the connection change the fault, when drains find their queues.
LEMMA FaultStep ==
  ASSUME TypeOK, PopsWhatItRead, PopsWhatItRead', [Next]_vars, ~DataRace, NoUndefinedBehaviour
  PROVE  NoUndefinedBehaviour'
<1>1. CASE UNCHANGED fault
  BY <1>1 DEF NoUndefinedBehaviour
<1>2. CASE OnClose
  BY <1>2 DEF OnClose, NoUndefinedBehaviour
<1>3. UNCHANGED fault \/ OnClose \/ fault' = "empty queue"
  <2>1. CASE \E m \in Messages : BrainSends(m)
    BY <2>1 DEF BrainSends
  <2>2. CASE NetStep
    BY <2>2 DEF NetStep, TakeWorkAssignation, AssessWork, EmitReply, TakeAllBegins,
                TakeWorkStatus, ReadStatus, TakeRegistrationReply
  <2>3. CASE \E b \in Begins : DrainStep(b)
    BY <2>3 DEF DrainStep, BeginWorking, CheckEmpty, GetFront, Pop, Spawn, EndWorking
  <2>4. CASE \E j \in Jobs : JobStep(j)
    BY <2>4 DEF JobStep, Execute, LockToEmit, EmitFinished, jobFrame
  <2>5. CASE UNCHANGED vars
    BY <2>5 DEF vars
  <2> QED
    BY <2>1, <2>2, <2>3, <2>4, <2>5 DEF Next
<1>4. fault' # "empty queue"
  BY DEF PopsWhatItRead
<1> QED
  BY <1>1, <1>2, <1>3, <1>4

(***************************************************************************)
(* A brain that sends every assignation before the first ALL_BEGINS, one   *)
(* ALL_BEGINS per group, and none for a group it assigned no command of a  *)
(* known service, never meets the races of all_begins and assessWork: any  *)
(* two threads in the map then name different groups, and no access        *)
(* inserts a node.  No front() or pop() finds an empty queue either.       *)
(***************************************************************************)
THEOREM DisciplineSuffices ==
  ASSUME Disciplined
  PROVE  Spec => []NoUndefinedBehaviour
<1> DEFINE RaceInv == BeginOnceInv /\ PopsWhatItRead /\ FirstInv /\ KeysInv
                        /\ NoUndefinedBehaviour
<1>1. Init => RaceInv
  BY ProtocolInit, FirstInit, KeysInit DEF ProtocolInv, Init, NoUndefinedBehaviour
<1>2. TypeOK /\ RaceInv /\ [Next]_vars => RaceInv'
  <2> SUFFICES ASSUME TypeOK, RaceInv, [Next]_vars PROVE RaceInv'
    OBVIOUS
  <2>1. Discipline = "all first" /\ OneBegin
    BY DEF Disciplined
  <2>2. BeginOnceInv' /\ PopsWhatItRead'
    BY <2>1, BeginOnceStep, FrontStep
  <2>3. FirstInv' /\ KeysInv'
    BY <2>1, FirstStep, KeysStep
  <2>4. NoUndefinedBehaviour'
    BY <2>2, NoRace, FaultStep
  <2> QED
    BY <2>2, <2>3, <2>4
<1>3. RaceInv => NoUndefinedBehaviour
  OBVIOUS
<1> HIDE DEF RaceInv
<1> QED
  BY <1>1, <1>2, <1>3, TypeCorrect, PTL DEF Spec

-----------------------------------------------------------------------------
\* What a thread tells of the brain's events and of the module's answers.

LEMMA BegunInit == Init => BegunInv
  BY DEF Init, BegunInv

LEMMA BegunStep ==
  ASSUME TypeOK, PlacedInv, BegunInv, [Next]_vars
  PROVE  BegunInv'
<1>0. /\ drainPc = [d \in Begins |-> drainPc[d]]
      /\ \A b \in Begins : BeginGroup[b] \in Groups
  BY ChannelAssumption DEF TypeOK
<1>1. CASE UNCHANGED <<drainPc, drainCmd, jobs>>
  BY <1>1 DEF BegunInv
<1>2. CASE TakeAllBegins
  <2>1. Head(inbox) \in Messages /\ Head(inbox).event = "ALL_BEGINS"
    BY <1>2, DeliveredHead DEF TakeAllBegins, Delivered
  <2>2. PICK b \in Begins : b = Head(inbox).begin
    BY <2>1, MessagesShape
  <2>3. drainPc' = [drainPc EXCEPT ![b] = "setWorking"] /\ UNCHANGED <<drainCmd, jobs>>
    BY <1>2, <2>2 DEF TakeAllBegins
  <2>4. \A d \in Begins : drainPc'[d] = IF d = b THEN "setWorking" ELSE drainPc[d]
    BY <1>0, <2>3
  <2> QED
    BY <2>3, <2>4 DEF BegunInv, Jobs
<1>3. ASSUME NEW b \in Begins, GetFront(b) PROVE BegunInv'
  <2>1. CASE isEmptyCommands(BeginGroup[b])
    BY <1>1, <1>3, <2>1 DEF GetFront
  <2>2. CASE ~isEmptyCommands(BeginGroup[b])
    <3>1. /\ drainCmd' = [drainCmd EXCEPT ![b] = FrontOf(BeginGroup[b])]
          /\ drainPc' = [drainPc EXCEPT ![b] = "pop"]
          /\ UNCHANGED jobs
      BY <1>3, <2>2 DEF GetFront, GoTo
    <3>2. commandsInfo[BeginGroup[b]] \in Seq(Commands) /\ commandsInfo[BeginGroup[b]] # <<>>
      BY <1>0, <2>2 DEF isEmptyCommands, TypeOK, ServicesTypeOK
    <3>3. /\ 1 \in DOMAIN commandsInfo[BeginGroup[b]]
          /\ FrontOf(BeginGroup[b]) = commandsInfo[BeginGroup[b]][1]
      BY <3>2, SeqFront DEF FrontOf
    <3>4. Queued(BeginGroup[b], commandsInfo[BeginGroup[b]])
      BY <1>0 DEF PlacedInv
    <3>5. CommandGroup[FrontOf(BeginGroup[b])] = BeginGroup[b]
      BY <3>3, <3>4 DEF Queued
    <3>6. /\ \A d \in Begins : drainPc'[d] = IF d = b THEN "pop" ELSE drainPc[d]
          /\ \A d \in Begins : d # b => drainCmd'[d] = drainCmd[d]
          /\ drainCmd'[b] = FrontOf(BeginGroup[b])
      BY <1>0, <3>1 DEF TypeOK
    <3> QED
      BY <3>1, <3>5, <3>6 DEF BegunInv, Jobs
  <2> QED
    BY <2>1, <2>2
<1>4. ASSUME NEW b \in Begins, Spawn(b) PROVE BegunInv'
  <2>1. drainPc[b] = "spawn" /\ drainCmd[b] \in Commands
    BY <1>4 DEF Spawn, At, TypeOK
  <2>2. /\ jobs' = [jobs EXCEPT ![<<b, drainCmd[b]>>] = "execute"]
        /\ drainPc' = [drainPc EXCEPT ![b] = "check"]
        /\ UNCHANGED drainCmd
    BY <1>4 DEF Spawn, GoTo
  <2>3. CommandGroup[drainCmd[b]] = BeginGroup[b]
    BY <2>1 DEF BegunInv
  <2>4. \A j \in Jobs : jobs'[j] # "none" => jobs[j] # "none" \/ j = <<b, drainCmd[b]>>
    BY <2>2 DEF TypeOK
  <2>5. \A d \in Begins : drainPc'[d] = IF d = b THEN "check" ELSE drainPc[d]
    BY <1>0, <2>2
  <2> QED
    BY <2>1, <2>2, <2>3, <2>4, <2>5 DEF BegunInv, Jobs
<1>5. ASSUME NEW b \in Begins, BeginWorking(b) \/ CheckEmpty(b) \/ EndWorking(b) PROVE BegunInv'
  <2>1. /\ \/ drainPc' = [drainPc EXCEPT ![b] = "check"]
           \/ drainPc' = [drainPc EXCEPT ![b] = "clear"]
           \/ drainPc' = [drainPc EXCEPT ![b] = "front"]
           \/ drainPc' = [drainPc EXCEPT ![b] = "done"]
        /\ UNCHANGED <<drainCmd, jobs>>
    BY <1>5 DEF BeginWorking, CheckEmpty, EndWorking, GoTo
  <2>2. PICK x \in {"check", "clear", "front", "done"} : drainPc' = [drainPc EXCEPT ![b] = x]
    BY <2>1
  <2>3. \A d \in Begins : drainPc'[d] = IF d = b THEN x ELSE drainPc[d]
    BY <1>0, <2>2
  <2> QED
    BY <2>1, <2>2, <2>3 DEF BegunInv, Jobs
<1>6. ASSUME NEW b \in Begins, Pop(b) PROVE BegunInv'
  <2>1. CASE isEmptyCommands(BeginGroup[b])
    BY <1>1, <1>6, <2>1 DEF Pop, drainFrame
  <2>2. CASE ~isEmptyCommands(BeginGroup[b])
    <3>1. /\ drainPc[b] = "pop" /\ drainPc' = [drainPc EXCEPT ![b] = "spawn"]
          /\ UNCHANGED <<drainCmd, jobs>>
      BY <1>6, <2>2 DEF Pop, At, GoTo
    <3>2. \A d \in Begins : drainPc'[d] = IF d = b THEN "spawn" ELSE drainPc[d]
      BY <1>0, <3>1
    <3> QED
      BY <3>1, <3>2 DEF BegunInv, Jobs
  <2> QED
    BY <2>1, <2>2
<1>7. ASSUME NEW j \in Jobs, JobStep(j) PROVE BegunInv'
  <2>1. /\ jobs[j] # "none"
        /\ \/ jobs' = [jobs EXCEPT ![j] = "lock"]
           \/ jobs' = [jobs EXCEPT ![j] = "emit"]
           \/ jobs' = [jobs EXCEPT ![j] = "done"]
        /\ UNCHANGED <<drainPc, drainCmd>>
    BY <1>7 DEF JobStep, Execute, LockToEmit, EmitFinished, JobAt, jobFrame
  <2>2. \A k \in Jobs : jobs'[k] # "none" => jobs[k] # "none"
    BY <2>1 DEF TypeOK
  <2> QED
    BY <2>1, <2>2 DEF BegunInv
<1>8. CASE \E m \in Messages : BrainSends(m)
  BY <1>1, <1>8 DEF BrainSends, threadVars
<1>9. CASE NetStep /\ ~TakeAllBegins
  BY <1>1, <1>9 DEF NetStep, TakeWorkAssignation, AssessWork, EmitReply, TakeWorkStatus,
                    ReadStatus, TakeRegistrationReply, threadVars
<1>10. CASE DataRace \/ OnClose \/ UNCHANGED vars
  BY <1>1, <1>10 DEF DataRace, OnClose, vars, threadVars
<1> QED
  BY <1>2, <1>3, <1>4, <1>5, <1>6, <1>7, <1>8, <1>9, <1>10 DEF Next, NetStep, DrainStep

\* What the brain was told stays told.
LEMMA ToldStays ==
  ASSUME TypeOK, [Next]_vars, NEW c
  PROVE  (RefuseSent(c) => RefuseSent(c)') /\ (FinishSent(c) => FinishSent(c)')
<1>1. CASE UNCHANGED outbox
  BY <1>1, OutboxSame
<1>2. ASSUME NEW r \in Replies, outbox' = Append(outbox, r)
      PROVE  (RefuseSent(c) => RefuseSent(c)') /\ (FinishSent(c) => FinishSent(c)')
  BY <1>2, OutboxGrows
<1>3. CASE EmitReply
  BY <1>2, <1>3 DEF EmitReply, TypeOK
<1> QED
  BY <1>1, <1>2, <1>3, EmitCases

\* ACTION_FINISHED is emitted by the thread of the command.
LEMMA OneStepReports ==
  ASSUME TypeOK, ReplyInv, [Next]_vars, NEW c, ~FinishSent(c), FinishSent(c)'
  PROVE  \E j \in Jobs : EmitFinished(j) /\ j[2] = c
<1>1. CASE UNCHANGED outbox
  BY <1>1, OutboxSame
<1>2. CASE EmitReply
  <2>1. net.reply \in Replies /\ outbox' = Append(outbox, net.reply)
    BY <1>2 DEF EmitReply, TypeOK
  <2>2. ~IsFinish(net.reply, c)
    BY <1>2 DEF ReplyInv, EmitReply, IsFinish
  <2> QED
    BY <2>1, <2>2, OutboxGrows
<1>3. ASSUME NEW j \in Jobs, EmitFinished(j) PROVE j[2] = c
  <2> DEFINE r == Reply("ACTION_FINISHED", "handling_module", j[2], "DONE")
  <2>1. j[2] \in Commands /\ outbox' = Append(outbox, r)
    BY <1>3 DEF EmitFinished, Jobs
  <2>2. r \in Replies /\ (IsFinish(r, c) => j[2] = c)
    BY <2>1, FinishedReply DEF Reply, IsFinish
  <2> HIDE DEF r
  <2> QED
    BY <2>1, <2>2, OutboxGrows
<1>4. \/ UNCHANGED outbox
      \/ EmitReply
      \/ \E j \in Jobs : EmitFinished(j)
  <2>1. CASE \E m \in Messages : BrainSends(m)
    BY <2>1 DEF BrainSends
  <2>2. CASE NetStep /\ ~EmitReply
    BY <2>2 DEF NetStep, TakeWorkAssignation, AssessWork, TakeAllBegins, TakeWorkStatus,
                ReadStatus, TakeRegistrationReply
  <2>3. CASE \E b \in Begins : DrainStep(b)
    BY <2>3 DEF DrainStep, BeginWorking, CheckEmpty, GetFront, Pop, Spawn, EndWorking, drainFrame
  <2>4. CASE \E j \in Jobs : Execute(j) \/ LockToEmit(j)
    BY <2>4 DEF Execute, LockToEmit
  <2>5. CASE DataRace \/ OnClose \/ UNCHANGED vars
    BY <2>5 DEF DataRace, OnClose, vars
  <2> QED
    BY <2>1, <2>2, <2>3, <2>4, <2>5 DEF Next, NetStep, JobStep
<1> QED
  BY <1>1, <1>2, <1>3, <1>4

\* A command with a thread was begun and accepted, and is not reported before the thread is done.
LEMMA ThreadOfBegun ==
  ASSUME TypeOK, ProtocolInv, BegunInv, NEW b \in Begins, NEW c \in Commands,
         jobs[<<b, c>>] # "none"
  PROVE  /\ Begin(b) \in sent /\ BeginGroup[b] = CommandGroup[c]
         /\ Creatable(c) /\ ~RefuseSent(c)
         /\ FinishSent(c) => jobs[<<b, c>>] = "done"
<1>1. <<b, c>> \in Jobs /\ <<b, c>>[1] = b /\ <<b, c>>[2] = c
  BY DEF Jobs
<1>2. drainPc[b] # "none" /\ CommandGroup[c] = BeginGroup[b]
  BY <1>1 DEF BegunInv
<1>3. Begin(b) \in sent
  BY <1>2 DEF ProtocolInv, BeginOnceInv
<1>4. c \in takenOn
  BY <1>1 DEF ProtocolInv, ReportInv, HeldInv
<1>5. Creatable(c)
  BY <1>4 DEF ProtocolInv, PlacedInv
<1>6. ~RefuseSent(c)
  BY <1>4 DEF takenOn, ProtocolInv, AnsweredOnceInv, Answering, IsAccept
<1>7. ASSUME FinishSent(c) PROVE jobs[<<b, c>>] = "done"
  <2>1. PICK d \in Begins : jobs[<<d, c>>] = "done"
    BY <1>7 DEF ProtocolInv, OneThreadInv
  <2>2. d = b
    BY <2>1 DEF ProtocolInv, OneThreadInv
  <2> QED
    BY <2>1, <2>2
<1> QED
  BY <1>2, <1>3, <1>5, <1>6, <1>7

\* The module's threads send nothing in the brain's name.
LEMMA OnlyTheBrainSends ==
  ASSUME NetStep \/ (\E b \in Begins : DrainStep(b)) \/ (\E j \in Jobs : JobStep(j))
  PROVE  UNCHANGED sent
<1>1. CASE NetStep
  BY <1>1 DEF NetStep, TakeWorkAssignation, AssessWork, EmitReply, TakeAllBegins, TakeWorkStatus,
              ReadStatus, TakeRegistrationReply, Delivered, brainVars
<1>2. CASE \E b \in Begins : DrainStep(b)
  BY <1>2 DEF DrainStep, BeginWorking, CheckEmpty, GetFront, Pop, Spawn, EndWorking, drainFrame,
              brainVars
<1>3. CASE \E j \in Jobs : JobStep(j)
  BY <1>3 DEF JobStep, Execute, LockToEmit, EmitFinished, jobFrame, brainVars
<1> QED
  BY <1>1, <1>2, <1>3

\* A thread is created where there was none.
LEMMA ThreadsAreNew ==
  ASSUME TypeOK, ProtocolInv,
         \/ NetStep
         \/ \E m \in Messages : BrainSends(m)
         \/ \E b \in Begins : DrainStep(b)
  PROVE  \/ UNCHANGED jobs
         \/ \E b \in Begins, c \in Commands :
              jobs[<<b, c>>] = "none" /\ jobs' = [jobs EXCEPT ![<<b, c>>] = "execute"]
<1>1. CASE NetStep \/ \E m \in Messages : BrainSends(m)
  BY <1>1 DEF BrainSends, NetStep, TakeWorkAssignation, AssessWork, EmitReply, TakeAllBegins,
              TakeWorkStatus, ReadStatus, TakeRegistrationReply, threadVars
<1>2. ASSUME NEW b \in Begins, Spawn(b)
      PROVE  \E c \in Commands :
               jobs[<<b, c>>] = "none" /\ jobs' = [jobs EXCEPT ![<<b, c>>] = "execute"]
  <2>1. drainPc[b] = "spawn" /\ jobs' = [jobs EXCEPT ![<<b, drainCmd[b]>>] = "execute"]
    BY <1>2 DEF Spawn, At
  <2>2. drainCmd[b] \in Commands
    BY <2>1 DEF TypeOK
  <2>3. jobs[<<b, drainCmd[b]>>] = "none"
    BY <2>1 DEF ProtocolInv, OneThreadInv
  <2> QED
    BY <2>1, <2>2, <2>3
<1>3. ASSUME NEW b \in Begins, DrainStep(b), ~Spawn(b) PROVE UNCHANGED jobs
  BY <1>3 DEF DrainStep, BeginWorking, CheckEmpty, GetFront, Pop, EndWorking
<1> QED
  BY <1>1, <1>2, <1>3

-----------------------------------------------------------------------------
\* The order in which the threads are created, with one drain for a group.

\* A step creates a thread, pops a command, or leaves the threads and the hands as they are.
LEMMA ThreadsStep ==
  ASSUME TypeOK, BeginOnceInv, PopsWhatItRead, [Next]_vars
  PROVE  \/ \E b \in Begins : Spawn(b)
         \/ \E b \in Begins : Starts(b)
         \/ /\ \A c \in Commands : HasThread(c)' <=> HasThread(c)
            /\ \A b \in Begins : drainPc'[b] = "spawn" =>
                 drainPc[b] = "spawn" /\ drainCmd'[b] = drainCmd[b]
<1> DEFINE Hands == \A b \in Begins : drainPc'[b] = "spawn" =>
                      drainPc[b] = "spawn" /\ drainCmd'[b] = drainCmd[b]
           Stays == (\A c \in Commands : HasThread(c)' <=> HasThread(c)) /\ Hands
<1>1. CASE UNCHANGED <<drainPc, drainCmd, jobs>>
  BY <1>1 DEF HasThread
<1>2. CASE TakeAllBegins
  <2>1. /\ UNCHANGED <<drainCmd, jobs>>
        /\ drainPc' = [drainPc EXCEPT ![Head(inbox).begin] = "setWorking"]
    BY <1>2 DEF TakeAllBegins
  <2>2. Hands
    BY <2>1 DEF TypeOK
  <2> QED
    BY <2>1, <2>2 DEF HasThread
<1>3. ASSUME NEW b \in Begins, BeginWorking(b) \/ CheckEmpty(b) \/ EndWorking(b) PROVE Stays
  <2>1. /\ UNCHANGED <<drainCmd, jobs>>
        /\ \E pc \in {"check", "clear", "front", "done"} : drainPc' = [drainPc EXCEPT ![b] = pc]
    BY <1>3 DEF BeginWorking, CheckEmpty, EndWorking, GoTo
  <2>2. Hands
    BY <2>1 DEF TypeOK
  <2> QED
    BY <2>1, <2>2 DEF HasThread
<1>4. ASSUME NEW b \in Begins, GetFront(b) PROVE Stays
  <2>1. /\ UNCHANGED jobs
        /\ drainPc[b] = "front"
        /\ drainPc' = drainPc \/ drainPc' = [drainPc EXCEPT ![b] = "pop"]
        /\ drainCmd' = drainCmd \/ drainCmd' = [drainCmd EXCEPT ![b] = FrontOf(BeginGroup[b])]
    BY <1>4 DEF GetFront, At, GoTo
  <2>2. Hands
    BY <2>1 DEF TypeOK
  <2> QED
    BY <2>1, <2>2 DEF HasThread
<1>5. ASSUME NEW b \in Begins, Pop(b) PROVE Starts(b)
  <2>1. drainPc[b] = "pop"
    BY <1>5 DEF Pop, At
  <2>2. commandsInfo[BeginGroup[b]] # <<>> /\ FrontOf(BeginGroup[b]) = drainCmd[b]
    BY <2>1 DEF PopsWhatItRead
  <2> QED
    BY <1>5, <2>1, <2>2
    DEF Pop, PopFront, isEmptyCommands, FrontOf, Starts, At, GoTo, drainFrame
<1>6. ASSUME NEW j \in Jobs, JobStep(j) PROVE Stays
  <2>1. /\ UNCHANGED <<drainPc, drainCmd>>
        /\ jobs[j] # "none"
        /\ \E pc \in {"lock", "emit", "done"} : jobs' = [jobs EXCEPT ![j] = pc]
    BY <1>6 DEF JobStep, Execute, LockToEmit, EmitFinished, JobAt, jobFrame
  <2>2. \A k \in Jobs : jobs'[k] = "none" <=> jobs[k] = "none"
    BY <2>1 DEF TypeOK
  <2>3. \A b \in Begins, c \in Commands : jobs'[<<b, c>>] = "none" <=> jobs[<<b, c>>] = "none"
    BY <2>2 DEF Jobs
  <2> QED
    BY <2>1, <2>3 DEF HasThread
<1>7. CASE NetStep /\ ~TakeAllBegins
  BY <1>1, <1>7 DEF NetStep, TakeWorkAssignation, AssessWork, EmitReply, TakeWorkStatus,
                    ReadStatus, TakeRegistrationReply, threadVars
<1>8. CASE DataRace \/ OnClose \/ UNCHANGED vars \/ \E m \in Messages : BrainSends(m)
  BY <1>1, <1>8 DEF DataRace, OnClose, vars, threadVars, BrainSends
<1> HIDE DEF Stays
<1>9. Stays \/ (\E b \in Begins : Spawn(b)) \/ \E b \in Begins : Starts(b)
  BY <1>2, <1>3, <1>4, <1>5, <1>6, <1>7, <1>8 DEF Next, NetStep, DrainStep, Stays
<1> QED
  BY <1>9 DEF Stays

\* What Spawn does to the threads and to the hands of the drains.
LEMMA SpawnsThread ==
  ASSUME TypeOK, NEW b \in Begins, Spawn(b)
  PROVE  /\ drainPc[b] = "spawn" /\ drainCmd[b] \in Commands
         /\ \A c \in Commands : HasThread(c)' <=> HasThread(c) \/ c = drainCmd[b]
         /\ \A d \in Begins : drainPc'[d] = "spawn" => d # b /\ drainPc[d] = "spawn"
         /\ UNCHANGED <<drainCmd, commandsInfo, net, outbox>>
<1>1. /\ drainPc[b] = "spawn" /\ drainCmd[b] \in Commands
      /\ drainPc' = [drainPc EXCEPT ![b] = "check"]
      /\ jobs' = [jobs EXCEPT ![<<b, drainCmd[b]>>] = "execute"]
      /\ UNCHANGED <<drainCmd, commandsInfo, net, outbox>>
  BY DEF Spawn, At, GoTo, servicesVars, drainFrame, TypeOK
<1>2. <<b, drainCmd[b]>> \in Jobs /\ \A d \in Begins, c \in Commands : <<d, c>> \in Jobs
  BY <1>1 DEF Jobs
<1>3. \A j \in Jobs : jobs'[j] = IF j = <<b, drainCmd[b]>> THEN "execute" ELSE jobs[j]
  BY <1>1 DEF TypeOK
<1>4. ASSUME NEW c \in Commands PROVE HasThread(c)' <=> HasThread(c) \/ c = drainCmd[b]
  <2>1. \A d \in Begins : jobs'[<<d, c>>] # "none" <=>
          jobs[<<d, c>>] # "none" \/ (d = b /\ c = drainCmd[b])
    BY <1>2, <1>3
  <2> QED
    BY <2>1 DEF HasThread
<1>5. \A d \in Begins : drainPc'[d] = "spawn" => d # b /\ drainPc[d] = "spawn"
  BY <1>1 DEF TypeOK
<1> QED
  BY <1>1, <1>4, <1>5

\* Only what is not taken on yet can come to be after another command.
LEMMA OrderGrows ==
  ASSUME TypeOK, ReplyInv, BeginOnceInv, AnsweredOnceInv, [Next]_vars,
         NEW c \in Commands, NEW d \in Commands, TakenBefore(c, d)', ~TakenBefore(c, d)
  PROVE  d \notin takenOn
<1>1. PICK a \in Commands : Appends(a)
  BY OrderElsewhere
<1>2. IsAccept(net.reply, d)
  BY <1>1, OrderOfAppend
<1>3. net.pc = "assess"
  BY <1>1 DEF Appends
<1>4. Answering(d)
  BY <1>2, <1>3 DEF Answering, IsAccept
<1> QED
  BY <1>3, <1>4 DEF AnsweredOnceInv, takenOn

ThreadOrderInv ==
  ProtocolInv /\ AcceptOnceInv /\ QueueInOrder /\ BegunInv /\ StartedInOrder /\ NotOvertakenInv

\* Every step keeps the order of the threads.
LEMMA ThreadOrderStep ==
  ASSUME OneBegin, TypeOK, ThreadOrderInv, [Next]_vars
  PROVE  StartedInOrder' /\ NotOvertakenInv'
<1> DEFINE Before(c, d) == CommandGroup[c] = CommandGroup[d] /\ TakenBefore(c, d)
<1>1. /\ ReplyInv /\ HeldInv /\ BeginOnceInv /\ PopsWhatItRead /\ AnsweredOnceInv /\ PlacedInv
      /\ BegunInv /\ QueueInOrder
  BY DEF ThreadOrderInv, ProtocolInv, ReportInv
<1>2. \A c \in Commands : HasThread(c) => c \in takenOn /\ c \in Started
  <2>1. \A b \in Begins, c \in Commands : <<b, c>> \in Jobs /\ <<b, c>>[2] = c
    BY DEF Jobs
  <2> QED
    BY <1>1, <2>1 DEF HasThread, HeldInv, Started
<1>3. \A b \in Begins : drainPc[b] \in {"pop", "spawn"} =>
        /\ drainCmd[b] \in Commands /\ drainCmd[b] \in takenOn
        /\ CommandGroup[drainCmd[b]] = BeginGroup[b]
  BY <1>1 DEF TypeOK, HeldInv, BegunInv
\* What comes to be after another command has no thread yet.
<1>4. ASSUME NEW c \in Commands, NEW d \in Commands, TakenBefore(c, d)', HasThread(d)
      PROVE  TakenBefore(c, d)
  BY <1>1, <1>2, <1>4, OrderGrows
\* The commands after one that waits, wait.
<1>5. ASSUME NEW c \in Commands, NEW d \in Commands, Before(c, d), Waits(c)
      PROVE  d \notin Started
  <2>1. CommandGroup[c] \in Groups
    BY CommandsAssumption
  <2>2. PICK i \in DOMAIN commandsInfo[CommandGroup[c]] : commandsInfo[CommandGroup[c]][i] = c
    BY <1>5 DEF Waits
  <2>3. PICK k \in DOMAIN commandsInfo[CommandGroup[c]] : commandsInfo[CommandGroup[c]][k] = d
    BY <1>1, <1>5, <2>1, <2>2 DEF QueueInOrder
  <2> QED
    BY <1>1, <2>1, <2>3 DEF PlacedInv, Queued
<1>6. CASE /\ \A c \in Commands : HasThread(c)' <=> HasThread(c)
           /\ \A b \in Begins : drainPc'[b] = "spawn" =>
                drainPc[b] = "spawn" /\ drainCmd'[b] = drainCmd[b]
  <2>1. StartedInOrder'
    BY <1>4, <1>6 DEF StartedInOrder, ThreadOrderInv, HasThread, TakenBefore, AcceptSent, IsAccept
  <2>2. NotOvertakenInv'
    <3> SUFFICES ASSUME NEW b \in Begins, NEW d \in Commands, drainPc'[b] = "spawn",
                        CommandGroup[d] = BeginGroup[b], TakenBefore(drainCmd[b], d)',
                        HasThread(d)
                 PROVE  FALSE
      BY <1>6 DEF NotOvertakenInv, HasThread, TakenBefore, AcceptSent, IsAccept
    <3>1. drainPc[b] = "spawn" /\ drainCmd'[b] = drainCmd[b] /\ drainCmd[b] \in Commands
      BY <1>3, <1>6
    <3>2. PICK c \in Commands : c = drainCmd[b]
      BY <3>1
    <3>3. TakenBefore(c, d)'
      BY <3>1, <3>2 DEF TakenBefore, AcceptSent, IsAccept
    <3>4. TakenBefore(c, d)
      BY <1>4, <3>3
    <3> QED
      BY <3>1, <3>2, <3>4 DEF NotOvertakenInv, ThreadOrderInv
  <2> QED
    BY <2>1, <2>2
<1>7. ASSUME NEW b \in Begins, Starts(b) PROVE StartedInOrder' /\ NotOvertakenInv'
  <2>1. /\ UNCHANGED <<net, outbox, jobs, drainCmd>>
        /\ drainPc[b] = "pop" /\ drainPc' = [drainPc EXCEPT ![b] = "spawn"]
    BY <1>7 DEF Starts, At
  <2>2. \A c : HasThread(c)' <=> HasThread(c)
    BY <2>1 DEF HasThread
  <2>3. \A c, d : TakenBefore(c, d)' <=> TakenBefore(c, d)
    BY <2>1 DEF TakenBefore, AcceptSent, IsAccept
  <2>4. drainCmd[b] \in Commands /\ CommandGroup[drainCmd[b]] = BeginGroup[b]
    BY <1>3, <2>1
  <2>5. Waits(drainCmd[b])
    <3>1. BeginGroup[b] \in Groups /\ commandsInfo[BeginGroup[b]] # <<>>
          /\ drainCmd[b] = Head(commandsInfo[BeginGroup[b]])
      BY <1>7, ChannelAssumption DEF Starts
    <3>2. commandsInfo[BeginGroup[b]] \in Seq(Commands)
      BY <3>1 DEF TypeOK, ServicesTypeOK
    <3>3. /\ 1 \in DOMAIN commandsInfo[BeginGroup[b]]
          /\ commandsInfo[BeginGroup[b]][1] = drainCmd[b]
      BY <3>1, <3>2, SeqFront
    <3> QED
      BY <2>4, <3>3 DEF Waits
  <2>6. \A d \in Commands : Before(drainCmd[b], d) => ~HasThread(d)
    BY <1>2, <1>5, <2>4, <2>5
  <2>7. \A d \in Begins : drainPc'[d] = "spawn" => d = b \/ drainPc[d] = "spawn"
    BY <2>1 DEF TypeOK
  <2>8. StartedInOrder'
    BY <2>2, <2>3 DEF StartedInOrder, ThreadOrderInv
  <2>9. NotOvertakenInv'
    BY <2>1, <2>2, <2>3, <2>4, <2>6, <2>7 DEF NotOvertakenInv, ThreadOrderInv
  <2> QED
    BY <2>8, <2>9
<1>8. ASSUME NEW b \in Begins, Spawn(b) PROVE StartedInOrder' /\ NotOvertakenInv'
  <2> DEFINE e == drainCmd[b]
  <2>1. /\ drainPc[b] = "spawn" /\ e \in Commands
        /\ \A c \in Commands : HasThread(c)' <=> HasThread(c) \/ c = e
        /\ \A d \in Begins : drainPc'[d] = "spawn" => d # b /\ drainPc[d] = "spawn"
        /\ UNCHANGED <<drainCmd, commandsInfo, net, outbox>>
    BY <1>8, SpawnsThread
  <2>2. \A c, d : TakenBefore(c, d)' <=> TakenBefore(c, d)
    BY <2>1 DEF TakenBefore, AcceptSent, IsAccept
  <2>3. CommandGroup[e] = BeginGroup[b] /\ e \in Started
    BY <1>3, <2>1 DEF Started
  <2>4. ASSUME NEW c \in Commands, Before(c, e) PROVE HasThread(c) \/ c = e
    <3>1. c \in takenOn
      BY <2>4 DEF TakenBefore, AcceptSent, takenOn
    <3>2. ~Waits(c)
      BY <1>5, <2>1, <2>3, <2>4
    <3>3. c \in Started
      BY <1>1, <3>1, <3>2 DEF PlacedInv
    <3>4. ASSUME NEW d \in Begins, drainPc[d] = "spawn", drainCmd[d] = c PROVE c = e
      <4>1. BeginGroup[d] = BeginGroup[b]
        BY <1>3, <2>3, <2>4, <3>4
      <4> QED
        BY <3>4, <4>1 DEF OneBegin
    <3> QED
      BY <3>3, <3>4 DEF Started, HasThread
  <2>5. \A d \in Begins : drainPc'[d] = "spawn" => BeginGroup[d] # CommandGroup[e]
    BY <2>1, <2>3 DEF OneBegin
  <2> HIDE DEF e
  <2>6. StartedInOrder'
    BY <2>1, <2>2, <2>4 DEF StartedInOrder, ThreadOrderInv
  <2>7. NotOvertakenInv'
    BY <2>1, <2>2, <2>5 DEF NotOvertakenInv, ThreadOrderInv
  <2> QED
    BY <2>6, <2>7
<1> QED
  BY <1>1, <1>6, <1>7, <1>8, ThreadsStep

(***************************************************************************)
(* With one ALL_BEGINS per group, consumeService threads are created in    *)
(* the order in which assessWork took their commands on (all_begins: the   *)
(* front of the queue, pop, then the thread), whatever is assigned while   *)
(* the group is drained.                                                   *)
(***************************************************************************)
THEOREM DrainsKeepTheOrder ==
  ASSUME OneBegin
  PROVE  Spec => []StartedInOrder
<1>1. Init => ThreadOrderInv
  <2> SUFFICES ASSUME Init PROVE ThreadOrderInv
    OBVIOUS
  <2>1. \A b \in Begins, c \in Commands : jobs[<<b, c>>] = "none" /\ drainPc[b] = "none"
    BY DEF Init, Jobs
  <2>2. StartedInOrder /\ NotOvertakenInv
    BY <2>1 DEF StartedInOrder, NotOvertakenInv, HasThread
  <2> QED
    BY <2>2, ProtocolInit, OrderInit, BegunInit DEF ThreadOrderInv, OrderInv
<1>2. TypeOK /\ ThreadOrderInv /\ [Next]_vars => ThreadOrderInv'
  <2> SUFFICES ASSUME TypeOK, ThreadOrderInv, [Next]_vars PROVE ThreadOrderInv'
    OBVIOUS
  <2>1. ProtocolInv'
    BY ProtocolStep DEF ThreadOrderInv
  <2>2. AcceptOnceInv' /\ QueueInOrder'
    BY OrderInvStep DEF ThreadOrderInv, ProtocolInv, OrderInv
  <2>3. BegunInv'
    BY BegunStep DEF ThreadOrderInv, ProtocolInv
  <2>4. StartedInOrder' /\ NotOvertakenInv'
    BY ThreadOrderStep
  <2> QED
    BY <2>1, <2>2, <2>3, <2>4 DEF ThreadOrderInv
<1>3. ThreadOrderInv => StartedInOrder
  BY DEF ThreadOrderInv
<1> QED
  BY <1>1, <1>2, <1>3, TypeCorrect, PTL DEF Spec
=============================================================================
