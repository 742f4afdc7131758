--------------------------- MODULE Handling_proofs ---------------------------
(***************************************************************************)
(* Theorems about the host and the board together, from those about the    *)
(* channel and about the gripper: with a brain that begins one group at a  *)
(* time, calls of handlingService do not overlap and ACTION_FINISHED means *)
(* that the servo has moved.                                               *)
(***************************************************************************)
EXTENDS Handling, TLAPS

\* The theorems about the parts.
CP == INSTANCE WorkProtocol_proofs

GP == INSTANCE Gripper_proofs WITH Calls <- Commands

-----------------------------------------------------------------------------
(***************************************************************************)
(* The definitions of the parts under the names that their theorems have   *)
(* here: expanded, they are the same.                                      *)
(***************************************************************************)

LEMMA PartsOK ==
  /\ CP!CommandsAssumption /\ CP!ChannelAssumption
  /\ GP!HandlingAssumption /\ GP!FirmwareAssumption
  BY PartsAssumption
  DEF Channel!CommandsAssumption, CP!CommandsAssumption, Channel!ChannelAssumption,
      CP!ChannelAssumption, Grip!HandlingAssumption, GP!HandlingAssumption, Grip!Requests,
      GP!Requests, Grip!FirmwareAssumption, GP!FirmwareAssumption, Grip!Bytes, GP!Bytes

LEMMA SameInit == Init => CP!Init /\ GP!Init
  BY DEF Init, Channel!Init, CP!Init, Channel!ServicesInit, CP!ServicesInit, Channel!Jobs, CP!Jobs,
         Grip!Init, GP!Init, Grip!HostInit, GP!HostInit, Grip!FirmwareInit, GP!FirmwareInit,
         Grip!Cleared, GP!Cleared, Grip!Indices, GP!Indices

LEMMA SameVars ==
  /\ UNCHANGED channelVars <=> UNCHANGED CP!vars
  /\ UNCHANGED gripVars <=> UNCHANGED GP!vars
  BY DEF channelVars, gripVars, hostVars, CP!vars, CP!servicesVars, CP!threadVars, CP!brainVars,
         GP!vars, GP!lineVars, GP!hostVars, GP!boardVars

LEMMA SameBrainSends ==
  ASSUME NEW m
  PROVE  /\ m \in Channel!Messages => m \in CP!Messages
         /\ Channel!BrainSends(m) => CP!BrainSends(m)
  BY DEF Channel!BrainSends, CP!BrainSends, Channel!Running, CP!Running, Channel!Messages,
         CP!Messages, Channel!Assignation, CP!Assignation, Channel!Status, CP!Status,
         Channel!Begin, CP!Begin, Channel!Registration, CP!Registration, Channel!MaySend,
         CP!MaySend, Channel!servicesVars, CP!servicesVars, Channel!threadVars, CP!threadVars

LEMMA SameNetStep == Channel!NetStep => CP!NetStep
  BY DEF Channel!NetStep, CP!NetStep, Channel!TakeWorkAssignation, CP!TakeWorkAssignation,
         Channel!AssessWork, CP!AssessWork, Channel!EmitReply, CP!EmitReply,
         Channel!TakeAllBegins, CP!TakeAllBegins, Channel!TakeWorkStatus, CP!TakeWorkStatus,
         Channel!ReadStatus, CP!ReadStatus, Channel!TakeRegistrationReply,
         CP!TakeRegistrationReply, Channel!Delivered, CP!Delivered, Channel!Running, CP!Running,
         Channel!Reply, CP!Reply, Channel!Assessable, CP!Assessable, Channel!services,
         CP!services, Channel!Push, CP!Push, Channel!Touch, CP!Touch, Channel!servicesVars,
         CP!servicesVars, Channel!brainVars, CP!brainVars, Channel!threadVars, CP!threadVars

LEMMA SameDrainStep ==
  ASSUME NEW b
  PROVE  Channel!DrainStep(b) => CP!DrainStep(b)
  BY DEF Channel!DrainStep, CP!DrainStep, Channel!BeginWorking, CP!BeginWorking,
         Channel!CheckEmpty, CP!CheckEmpty, Channel!GetFront, CP!GetFront, Channel!Pop, CP!Pop,
         Channel!Spawn, CP!Spawn, Channel!EndWorking, CP!EndWorking, Channel!At, CP!At,
         Channel!GoTo, CP!GoTo, Channel!Running, CP!Running, Channel!setWorking, CP!setWorking,
         Channel!Touch, CP!Touch, Channel!isEmptyCommands, CP!isEmptyCommands, Channel!FrontOf,
         CP!FrontOf, Channel!PopFront, CP!PopFront, Channel!drainFrame, CP!drainFrame,
         Channel!brainVars, CP!brainVars, Channel!servicesVars, CP!servicesVars

LEMMA SameJobStep ==
  ASSUME NEW j
  PROVE  /\ j \in Channel!Jobs <=> j \in CP!Jobs
         /\ Channel!Execute(j) => CP!Execute(j)
         /\ Channel!LockToEmit(j) => CP!LockToEmit(j)
         /\ Channel!EmitFinished(j) <=> CP!EmitFinished(j)
  BY DEF Channel!Jobs, CP!Jobs, Channel!Execute, CP!Execute, Channel!LockToEmit, CP!LockToEmit,
         Channel!EmitFinished, CP!EmitFinished, Channel!JobAt, CP!JobAt, Channel!Running,
         CP!Running, Channel!Creatable, CP!Creatable, Channel!creators, CP!creators,
         Channel!Reply, CP!Reply, Channel!jobFrame, CP!jobFrame, Channel!servicesVars,
         CP!servicesVars, Channel!brainVars, CP!brainVars

LEMMA SameHostSteps ==
  ASSUME NEW c
  PROVE  Grip!HostSteps(c) => GP!HostSteps(c)
  BY DEF Grip!HostSteps, GP!HostSteps, Grip!HostStep, GP!HostStep, Grip!Begin, GP!Begin,
         Grip!OpenFails, GP!OpenFails, Grip!SetupFails, GP!SetupFails, Grip!CheckReply,
         GP!CheckReply, Grip!DataAvail, GP!DataAvail, Grip!GetChar, GP!GetChar, Grip!GetCharTimesOut, GP!GetCharTimesOut,
         Grip!Keep, GP!Keep, Grip!NoChar, GP!NoChar, Grip!Complete, GP!Complete, Grip!Text,
         GP!Text, Grip!lineVars, GP!lineVars, Grip!boardVars, GP!boardVars

LEMMA SameBoardSteps ==
  /\ Grip!BoardSteps => GP!BoardSteps
  /\ Grip!Arrives => GP!Arrives
  /\ Grip!CtsMoves => GP!CtsMoves
  BY DEF Grip!BoardSteps, GP!BoardSteps, Grip!BoardStep, GP!BoardStep, Grip!ReceiveByte,
         GP!ReceiveByte, Grip!SendByte, GP!SendByte, Grip!EndMessage, GP!EndMessage,
         Grip!Arrives, GP!Arrives, Grip!ByteArrives, GP!ByteArrives, Grip!CtsMoves, GP!CtsMoves,
         Grip!CtsChanges, GP!CtsChanges, Grip!Stores, GP!Stores, Grip!Indices, GP!Indices,
         Grip!Cleared, GP!Cleared, Grip!BracketsAfter, GP!BracketsAfter,
         Grip!messageProcessing, GP!messageProcessing, Grip!Matches, GP!Matches, Grip!Requests,
         GP!Requests, Grip!Text, GP!Text, Grip!Done, GP!Done, Grip!ToggleDone, GP!ToggleDone,
         Grip!Error, GP!Error, Grip!lineVars, GP!lineVars, Grip!hostVars, GP!hostVars

-----------------------------------------------------------------------------
\* Every step is one of the channel's and one of the gripper's, or leaves that part alone.

\* The steps that leave the gripper alone, and those that leave the channel alone.
ChannelSteps ==
  /\ UNCHANGED gripVars
  /\ \/ \E m \in CP!Messages : CP!BrainSends(m) /\ (m.event = "ALL_BEGINS" => OneByOne)
     \/ CP!NetStep
     \/ \E b \in Begins : CP!DrainStep(b)
     \/ \E j \in CP!Jobs : CP!Execute(j) /\ (Channel!Creatable(j[2]) => Grip!Returned(j[2]))
     \/ \E j \in CP!Jobs : CP!LockToEmit(j) \/ CP!EmitFinished(j)

GripSteps ==
  /\ UNCHANGED channelVars
  /\ \/ \E c \in Commands : Executing(c) /\ GP!HostSteps(c)
     \/ GP!BoardSteps \/ GP!Arrives \/ GP!CtsMoves

LEMMA Kinds ==
  ASSUME [Next]_vars
  PROVE  ChannelSteps \/ GripSteps \/ UNCHANGED vars
<1>1. ASSUME NEW m \in Channel!Messages, BrainSends(m) PROVE ChannelSteps
  BY <1>1, SameBrainSends DEF BrainSends, ChannelSteps
<1>2. CASE NetStep
  BY <1>2, SameNetStep DEF NetStep, ChannelSteps
<1>3. ASSUME NEW b \in Begins, DrainStep(b) PROVE ChannelSteps
  BY <1>3, SameDrainStep DEF DrainStep, ChannelSteps
<1>4. ASSUME NEW j \in Channel!Jobs, JobStep(j) PROVE ChannelSteps
  BY <1>4, SameJobStep DEF JobStep, Execute, ChannelSteps
<1>5. ASSUME NEW c \in Commands, Move(c) PROVE GripSteps
  BY <1>5, SameHostSteps DEF Move, GripSteps
<1>6. CASE Board \/ Line \/ Cts
  BY <1>6, SameBoardSteps DEF Board, Line, Cts, GripSteps
<1> QED
  BY <1>1, <1>2, <1>3, <1>4, <1>5, <1>6 DEF Next

LEMMA ChannelStep == [Next]_vars => [CP!Next]_(CP!vars)
<1>1. ASSUME ChannelSteps PROVE CP!Next
  BY <1>1 DEF ChannelSteps, CP!Next, CP!JobStep
<1>2. UNCHANGED vars \/ GripSteps => UNCHANGED CP!vars
  BY SameVars DEF GripSteps, vars
<1> QED
  BY <1>1, <1>2, Kinds

LEMMA GripStep == [Next]_vars => [GP!Next]_(GP!vars)
<1>1. ASSUME GripSteps PROVE GP!Next
  BY <1>1 DEF GripSteps, GP!Next
<1>2. UNCHANGED vars \/ ChannelSteps => UNCHANGED GP!vars
  BY SameVars DEF ChannelSteps, vars
<1> QED
  BY <1>1, <1>2, Kinds

-----------------------------------------------------------------------------
\* What holds of the parts holds of them together.

\* The board's buffer holds a request and the zero that ends it (LineBuffer has 200 bytes).
BufferSuffices == BufferSize > 4

LEMMA SameTypeOK == TypeOK <=> CP!TypeOK /\ GP!TypeOK
  BY DEF TypeOK, Channel!TypeOK, CP!TypeOK, Channel!ServicesTypeOK, CP!ServicesTypeOK,
         Channel!Messages, CP!Messages, Channel!Assignation, CP!Assignation, Channel!Status,
         CP!Status, Channel!Begin, CP!Begin, Channel!Registration, CP!Registration,
         Channel!Replies, CP!Replies, Channel!Ids, CP!Ids, Channel!Jobs, CP!Jobs, Grip!TypeOK,
         GP!TypeOK, Grip!Bytes, GP!Bytes, Grip!NoChar, GP!NoChar, Grip!Indices, GP!Indices,
         Grip!Requests, GP!Requests

LEMMA SameNeverError == NeverError <=> GP!NeverError
  BY DEF NeverError, Grip!NeverError, GP!NeverError

LEMMA SameServes == ServesAtMostMaxFds <=> GP!ServesAtMostMaxFds
<1>1. {c \in Commands : Grip!Returned(c) /\ result[c] = 0} =
        {c \in Commands : GP!Returned(c) /\ result[c] = 0}
  BY DEF Grip!Returned, GP!Returned
<1> QED
  BY <1>1 DEF ServesAtMostMaxFds, Grip!ServesAtMostMaxFds, GP!ServesAtMostMaxFds,
              Grip!Cardinality, GP!Cardinality

\* A behaviour of the two together is one of each.
LEMMA BothParts == Spec => CP!Spec /\ GP!Spec
  BY SameInit, ChannelStep, GripStep, PTL DEF Spec, CP!Spec, GP!Spec

(***************************************************************************)
(* Type correctness of the host and the board together: every variable of  *)
(* the channel, of the calls and of the firmware keeps its type.           *)
(***************************************************************************)
THEOREM TypeCorrect == Spec => []TypeOK
<1>1. CP!Spec => []CP!TypeOK
  BY PartsOK, CP!TypeCorrect
<1>2. GP!Spec => []GP!TypeOK
  BY PartsOK, GP!TypeCorrect
<1> QED
  BY <1>1, <1>2, BothParts, SameTypeOK, PTL

(***************************************************************************)
(* Whatever commands the brain assigns, messageProcessing never answers    *)
(* ERROR to what handlingService writes for them.                          *)
(***************************************************************************)
THEOREM NoErrorAnswer ==
  ASSUME BufferSuffices
  PROVE  Spec => []NeverError
<1>1. GP!Spec => []GP!NeverError
  BY PartsOK, GP!NoErrorAnswer DEF BufferSuffices, GP!BufferSuffices
<1> QED
  BY <1>1, BothParts, SameNeverError, PTL

(***************************************************************************)
(* No call closes its descriptor, so at most MaxFds commands are served.   *)
(***************************************************************************)
THEOREM AtMostMaxFdsServed ==
  ASSUME BufferSuffices
  PROVE  Spec => []ServesAtMostMaxFds
<1>1. GP!Spec => []GP!ServesAtMostMaxFds
  BY PartsOK, GP!AtMostMaxFdsServed DEF BufferSuffices, GP!BufferSuffices
<1> QED
  BY <1>1, BothParts, SameServes, PTL

-----------------------------------------------------------------------------
\* One group is begun at a time.

LEMMA SameTold ==
  ASSUME NEW c
  PROVE  /\ Channel!RefuseSent(c) <=> CP!RefuseSent(c)
         /\ (Channel!RefuseSent(c) <=> CP!RefuseSent(c))'
         /\ Channel!FinishSent(c) <=> CP!FinishSent(c)
         /\ (Channel!FinishSent(c) <=> CP!FinishSent(c))'
         /\ Channel!Creatable(c) <=> CP!Creatable(c)
         /\ Channel!Begin(c) = CP!Begin(c)
  BY DEF Channel!RefuseSent, CP!RefuseSent, Channel!FinishSent, CP!FinishSent, Channel!IsFinish,
         CP!IsFinish, Channel!Creatable, CP!Creatable, Channel!creators, CP!creators,
         Channel!Begin, CP!Begin

\* What the brain was told stays told.
LEMMA TellsMore ==
  ASSUME CP!TypeOK, [Next]_vars, NEW c
  PROVE  /\ Channel!RefuseSent(c) => Channel!RefuseSent(c)'
         /\ Channel!FinishSent(c) => Channel!FinishSent(c)'
<1>1. [CP!Next]_(CP!vars)
  BY ChannelStep
<1>2. (CP!RefuseSent(c) => CP!RefuseSent(c)') /\ (CP!FinishSent(c) => CP!FinishSent(c)')
  BY <1>1, PartsOK, CP!ToldStays
<1> QED
  BY <1>2, SameTold

LEMMA NothingBegun == Init => OneActive /\ CallInv /\ MovedInv
<1> SUFFICES ASSUME Init PROVE OneActive /\ CallInv /\ MovedInv
  OBVIOUS
<1>1. sent = {}
  BY DEF Init, Channel!Init
<1>2. \A c \in Commands : call[c] = "none"
  BY DEF Init, Grip!Init, Grip!HostInit
<1>3. \A j \in Channel!Jobs : jobs[j] = "none"
  BY DEF Init, Channel!Init
<1>4. OneActive
  BY <1>1 DEF OneActive, Active
<1>5. CallInv
  BY <1>2, <1>3 DEF CallInv, Grip!UnderWay
<1>6. MovedInv
  BY <1>2 DEF MovedInv, Grip!Returned
<1> QED
  BY <1>4, <1>5, <1>6

\* The brain begins a group when none is under way, and the module only ends what was begun.
LEMMA OneActiveStep ==
  ASSUME CP!TypeOK, OneActive, [Next]_vars
  PROVE  OneActive'
<1>1. CASE UNCHANGED sent
  <2>1. \A c \in Commands : Active(c)' => Active(c)
    BY <1>1, TellsMore DEF Active
  <2> QED
    BY <2>1 DEF OneActive
<1>2. ASSUME NEW m \in CP!Messages, CP!BrainSends(m), m.event = "ALL_BEGINS" => OneByOne
      PROVE  OneActive'
  <2>1. sent' = sent \cup {m}
    BY <1>2 DEF CP!BrainSends
  <2>2. CASE m.event # "ALL_BEGINS"
    <3>1. \A b \in Begins : Channel!Begin(b) \in sent' => Channel!Begin(b) \in sent
      BY <2>1, <2>2 DEF Channel!Begin
    <3>2. \A c \in Commands : Active(c)' => Active(c)
      BY <3>1, TellsMore DEF Active
    <3> QED
      BY <3>2 DEF OneActive
  <2>3. CASE m.event = "ALL_BEGINS"
    <3>1. PICK d \in Begins : m = CP!Begin(d)
      BY <1>2, <2>3, PartsOK, CP!BeginsAreBegins
    <3>2. \A b \in Begins : Channel!Begin(b) \in sent' => Channel!Begin(b) \in sent \/ b = d
      BY <2>1, <3>1 DEF Channel!Begin, CP!Begin
    <3>3. \A c \in Commands : ~Active(c)
      BY <1>2, <2>3 DEF OneByOne, Active
    <3>4. \A c \in Commands : Active(c)' => CommandGroup[c] = BeginGroup[d]
      BY <3>2, <3>3, TellsMore DEF Active
    <3> QED
      BY <3>4, HandlingAssumption DEF OneActive
  <2> QED
    BY <2>2, <2>3
<1>3. CASE CP!NetStep \/ (\E b \in Begins : CP!DrainStep(b)) \/ \E j \in CP!Jobs : CP!JobStep(j)
  BY <1>1, <1>3, PartsOK, CP!OnlyTheBrainSends
<1>4. CASE GripSteps \/ UNCHANGED vars
  BY <1>1, <1>4 DEF GripSteps, vars, channelVars
<1> QED
  BY <1>2, <1>3, <1>4, Kinds DEF ChannelSteps, CP!JobStep

-----------------------------------------------------------------------------
\* Calls do not overlap.

\* A thread that is not done has a command that was begun.
LEMMA ThreadIsActive ==
  ASSUME CP!TypeOK, CP!ProtocolInv, CP!BegunInv, NEW b \in Begins, NEW c \in Commands,
         jobs[<<b, c>>] # "none"
  PROVE  /\ Channel!Creatable(c)
         /\ jobs[<<b, c>>] # "done" \/ ~Channel!FinishSent(c) => Active(c)
<1>1. /\ CP!Begin(b) \in sent /\ BeginGroup[b] = CommandGroup[c]
      /\ CP!Creatable(c) /\ ~CP!RefuseSent(c)
      /\ CP!FinishSent(c) => jobs[<<b, c>>] = "done"
  BY PartsOK, CP!ThreadOfBegun
<1> QED
  BY <1>1, SameTold DEF Active

\* A host step is of one call, which has not returned.
LEMMA OneCallSteps ==
  ASSUME GP!TypeOK, NEW c \in Commands, GP!HostSteps(c)
  PROVE  /\ call[c] # "returned"
         /\ \A d \in Commands : d # c => call'[d] = call[d] /\ result'[d] = result[d]
         /\ UNCHANGED servo
<1>1. call = [d \in Commands |-> call[d]] /\ result = [d \in Commands |-> result[d]]
  BY DEF GP!TypeOK
<1>2. /\ call[c] # "returned"
      /\ \E x : call' = [call EXCEPT ![c] = x]
      /\ result' = result \/ result' = [result EXCEPT ![c] = 0]
  BY DEF GP!HostSteps, GP!HostStep, GP!Begin, GP!OpenFails, GP!SetupFails, GP!CheckReply,
         GP!DataAvail, GP!GetChar, GP!GetCharTimesOut, GP!Keep
<1> QED
  BY <1>1, <1>2 DEF GP!HostSteps, GP!boardVars

LEMMA CallStep ==
  ASSUME CP!TypeOK, CP!ProtocolInv, CP!BegunInv, GP!TypeOK, CallInv, [Next]_vars
  PROVE  CallInv'
<1>0. /\ jobs = [j \in CP!Jobs |-> jobs[j]]
      /\ \A b \in Begins, c \in Commands : <<b, c>> \in CP!Jobs /\ <<b, c>>[2] = c
      /\ \A j \in CP!Jobs : j[1] \in Begins /\ j[2] \in Commands /\ j = <<j[1], j[2]>>
      /\ CP!Jobs = Channel!Jobs
  <2>1. jobs = [j \in CP!Jobs |-> jobs[j]]
    BY DEF CP!TypeOK
  <2>2. \A b \in Begins, c \in Commands : <<b, c>> \in CP!Jobs /\ <<b, c>>[2] = c
    BY DEF CP!Jobs
  <2>3. \A j \in CP!Jobs : j[1] \in Begins /\ j[2] \in Commands /\ j = <<j[1], j[2]>>
    BY DEF CP!Jobs
  <2>4. CP!Jobs = Channel!Jobs
    BY DEF CP!Jobs, Channel!Jobs
  <2> QED
    BY <2>1, <2>2, <2>3, <2>4
<1>1. CASE UNCHANGED <<call, jobs>>
  BY <1>1 DEF CallInv, Grip!UnderWay, Grip!Returned, Channel!Jobs
<1>2. ASSUME UNCHANGED call, NEW b \in Begins, NEW c \in Commands, jobs[<<b, c>>] = "none",
             jobs' = [jobs EXCEPT ![<<b, c>>] = "execute"]
      PROVE  CallInv'
  <2>1. \A j \in CP!Jobs : jobs'[j] = IF j = <<b, c>> THEN "execute" ELSE jobs[j]
    BY <1>0, <1>2
  <2>2. \A d \in Begins, e \in Commands :
          jobs[<<d, e>>] # "none" => jobs'[<<d, e>>] = jobs[<<d, e>>]
    <3>1. SUFFICES ASSUME NEW d \in Begins, NEW e \in Commands, jobs[<<d, e>>] # "none"
                   PROVE  jobs'[<<d, e>>] = jobs[<<d, e>>]
      OBVIOUS
    <3>2. PICK k \in CP!Jobs : k = <<d, e>>
      BY <1>0
    <3>3. k # <<b, c>>
      BY <1>2, <3>1, <3>2
    <3> QED
      BY <2>1, <3>2, <3>3
  <2>3. \A e \in Commands :
          /\ call'[e] # "none" => \E d \in Begins : jobs'[<<d, e>>] # "none"
          /\ Grip!UnderWay(e)' => \E d \in Begins : jobs'[<<d, e>>] = "execute"
    BY <1>2, <2>2 DEF CallInv, Grip!UnderWay
  <2>4. \A j \in Channel!Jobs : jobs'[j] \in {"lock", "emit"} => Grip!Returned(j[2])'
    BY <1>0, <1>2, <2>1 DEF CallInv, Grip!Returned
  <2> QED
    BY <2>3, <2>4 DEF CallInv, Channel!Jobs
<1>3. ASSUME UNCHANGED call, NEW j \in CP!Jobs, CP!Execute(j),
             Channel!Creatable(j[2]) => Grip!Returned(j[2])
      PROVE  CallInv'
  <2>1. jobs[j] = "execute" /\ jobs' = [jobs EXCEPT ![j] = IF CP!Creatable(j[2]) THEN "lock" ELSE "done"]
    BY <1>3 DEF CP!Execute, CP!JobAt
  <2>2. Channel!Creatable(j[2])
    BY <1>0, <2>1, ThreadIsActive
  <2>3. Grip!Returned(j[2])
    BY <1>3, <2>2
  <2>4. \A k \in CP!Jobs : jobs'[k] = IF k = j THEN "lock" ELSE jobs[k]
    BY <1>0, <2>1, <2>2, SameTold
  <2>5. \A d \in Begins, e \in Commands :
          /\ jobs[<<d, e>>] # "none" => jobs'[<<d, e>>] # "none"
          /\ jobs[<<d, e>>] = "execute" /\ e # j[2] => jobs'[<<d, e>>] = "execute"
    <3>1. SUFFICES ASSUME NEW d \in Begins, NEW e \in Commands
                   PROVE  /\ jobs[<<d, e>>] # "none" => jobs'[<<d, e>>] # "none"
                          /\ jobs[<<d, e>>] = "execute" /\ e # j[2] =>
                               jobs'[<<d, e>>] = "execute"
      OBVIOUS
    <3>2. PICK k \in CP!Jobs : k = <<d, e>> /\ k[2] = e
      BY <1>0
    <3>3. jobs'[k] = IF k = j THEN "lock" ELSE jobs[k]
      BY <2>4
    <3> QED
      BY <3>2, <3>3
  <2>6. \A e \in Commands :
          /\ call'[e] # "none" => \E d \in Begins : jobs'[<<d, e>>] # "none"
          /\ Grip!UnderWay(e)' => \E d \in Begins : jobs'[<<d, e>>] = "execute"
    <3>1. \A e \in Commands : Grip!UnderWay(e) => e # j[2]
      BY <2>3 DEF Grip!UnderWay, Grip!Returned
    <3> QED
      BY <1>3, <2>5, <3>1 DEF CallInv, Grip!UnderWay
  <2>7. \A k \in Channel!Jobs : jobs'[k] \in {"lock", "emit"} => Grip!Returned(k[2])'
    BY <1>0, <1>3, <2>3, <2>4 DEF CallInv, Grip!Returned
  <2> QED
    BY <2>6, <2>7 DEF CallInv, Channel!Jobs
<1>4. ASSUME UNCHANGED call, NEW j \in CP!Jobs, CP!LockToEmit(j) \/ CP!EmitFinished(j)
      PROVE  CallInv'
  <2>1. PICK x \in {"emit", "done"} : jobs' = [jobs EXCEPT ![j] = x]
    BY <1>4 DEF CP!LockToEmit, CP!EmitFinished
  <2>2. jobs[j] \in {"lock", "emit"}
    BY <1>4 DEF CP!LockToEmit, CP!EmitFinished, CP!JobAt
  <2>3. Grip!Returned(j[2])
    BY <1>0, <2>2 DEF CallInv
  <2>4. \A k \in CP!Jobs : jobs'[k] = IF k = j THEN x ELSE jobs[k]
    BY <1>0, <2>1
  <2> QED
    BY <1>0, <1>4, <2>1, <2>2, <2>3, <2>4 DEF CallInv, Grip!UnderWay, Grip!Returned
<1>5. ASSUME UNCHANGED jobs, NEW c \in Commands, Executing(c), GP!HostSteps(c)
      PROVE  CallInv'
  <2>1. call[c] # "returned" /\ \A d \in Commands : d # c => call'[d] = call[d]
    BY <1>5, OneCallSteps
  <2>2. \E b \in Begins : jobs[<<b, c>>] = "execute"
    BY <1>5 DEF Executing
  <2> QED
    BY <1>0, <1>5, <2>1, <2>2 DEF CallInv, Grip!UnderWay, Grip!Returned
<1>6. CASE ChannelSteps
  <2>1. UNCHANGED call
    BY <1>6 DEF ChannelSteps, gripVars, hostVars
  <2>2. \/ CP!NetStep
        \/ \E m \in CP!Messages : CP!BrainSends(m)
        \/ \E b \in Begins : CP!DrainStep(b)
        => \/ UNCHANGED jobs
           \/ \E b \in Begins, c \in Commands :
                jobs[<<b, c>>] = "none" /\ jobs' = [jobs EXCEPT ![<<b, c>>] = "execute"]
    BY PartsOK, CP!ThreadsAreNew
  <2> QED
    BY <1>1, <1>2, <1>3, <1>4, <1>6, <2>1, <2>2 DEF ChannelSteps
<1>7. CASE GripSteps
  <2>1. UNCHANGED jobs
    BY <1>7 DEF GripSteps, channelVars
  <2>2. GP!BoardSteps \/ GP!Arrives \/ GP!CtsMoves => UNCHANGED call
    BY DEF GP!BoardSteps, GP!Arrives, GP!CtsMoves, GP!hostVars
  <2> QED
    BY <1>1, <1>5, <1>7, <2>1, <2>2 DEF GripSteps
<1>8. CASE UNCHANGED vars
  BY <1>1, <1>8 DEF vars, channelVars, gripVars, hostVars
<1> QED
  BY <1>6, <1>7, <1>8, Kinds

\* The calls and the threads.
CallsInd ==
  /\ CP!TypeOK /\ CP!ProtocolInv /\ CP!BegunInv
  /\ GP!TypeOK
  /\ OneActive /\ CallInv

LEMMA CallsAlways == Spec => []CallsInd
<1>1. Init => CallsInd
  BY SameInit, PartsOK, NothingBegun, CP!TypeInit, CP!ProtocolInit, CP!BegunInit, GP!TypeInit
  DEF CallsInd
<1>2. CallsInd /\ [Next]_vars => CallsInd'
  <2> SUFFICES ASSUME CallsInd, [Next]_vars PROVE CallsInd'
    OBVIOUS
  <2>1. [CP!Next]_(CP!vars) /\ [GP!Next]_(GP!vars)
    BY ChannelStep, GripStep
  <2>2. CP!OneBegin
    BY HandlingAssumption DEF CP!OneBegin
  <2>3. CP!TypeOK' /\ CP!ProtocolInv'
    BY <2>1, <2>2, PartsOK, CP!TypeStep, CP!ProtocolStep DEF CallsInd
  <2>4. CP!BegunInv'
    BY <2>1, PartsOK, CP!BegunStep DEF CallsInd, CP!ProtocolInv
  <2>5. GP!TypeOK'
    BY <2>1, PartsOK, GP!TypeStep DEF CallsInd
  <2>6. OneActive' /\ CallInv'
    BY OneActiveStep, CallStep DEF CallsInd
  <2> QED
    BY <2>3, <2>4, <2>5, <2>6 DEF CallsInd
<1> QED
  BY <1>1, <1>2, PTL DEF Spec

\* A call starts when none is under way.
LEMMA NoOverlap ==
  ASSUME CallsInd, [Next]_vars
  PROVE  GP!OneAtATime
<1>1. SUFFICES ASSUME NEW c \in Commands, call[c] = "none", GP!UnderWay(c)',
                      NEW d \in Commands, GP!UnderWay(d)
               PROVE  FALSE
  BY DEF GP!OneAtATime
<1>2. call'[c] # call[c]
  BY <1>1 DEF GP!UnderWay
<1>3. Executing(c)
  <2>1. ASSUME NEW e \in Commands, GP!HostSteps(e) PROVE e = c
    BY <1>2, <2>1, OneCallSteps DEF CallsInd
  <2>2. GP!BoardSteps \/ GP!Arrives \/ GP!CtsMoves \/ ChannelSteps \/ UNCHANGED vars
        => UNCHANGED call
    BY DEF GP!BoardSteps, GP!Arrives, GP!CtsMoves, GP!hostVars, ChannelSteps, vars, gripVars,
           hostVars
  <2> QED
    BY <1>2, <2>1, <2>2, Kinds DEF GripSteps
<1>4. \A e \in Commands : (\E b \in Begins : jobs[<<b, e>>] = "execute") => Active(e)
  BY ThreadIsActive DEF CallsInd
<1>5. Active(c)
  BY <1>3, <1>4 DEF Executing
<1>6. Active(d)
  BY <1>1, <1>4 DEF CallsInd, CallInv, Grip!UnderWay, GP!UnderWay
<1>7. c = d
  BY <1>5, <1>6 DEF CallsInd, OneActive
<1> QED
  BY <1>1, <1>7 DEF GP!UnderWay

-----------------------------------------------------------------------------
\* What is reported has been moved.

LEMMA ExchangeOfCalls ==
  ASSUME BufferSuffices
  PROVE  Spec => []GP!ExchangeInd
<1>1. GP!Spec /\ [][GP!OneAtATime]_(GP!vars) => []GP!ExchangeInd
  BY PartsOK, GP!ExchangeAlways DEF BufferSuffices, GP!BufferSuffices
<1>2. Spec => [][GP!OneAtATime]_(GP!vars)
  <2>1. CallsInd /\ [Next]_vars => [GP!OneAtATime]_(GP!vars)
    BY NoOverlap
  <2> QED
    BY <2>1, CallsAlways, PTL DEF Spec
<1> QED
  BY <1>1, <1>2, BothParts, PTL

\* The board moves the servo only for a call under way, and no other call waits for its report.
LEMMA MovedStep ==
  ASSUME CallsInd, GP!ExchangeInd, MovedInv, [Next]_vars
  PROVE  MovedInv'
<1>1. SUFFICES ASSUME NEW c \in Commands, Grip!Returned(c)', ~Channel!FinishSent(c)'
               PROVE  servo' = Request[c] \/ result'[c] = 1
  BY DEF MovedInv, Request
<1>2. ~Channel!FinishSent(c)
  BY <1>1, TellsMore DEF CallsInd
<1>3. CASE UNCHANGED <<call, result, servo>>
  BY <1>1, <1>2, <1>3 DEF MovedInv, Grip!Returned
<1>4. ASSUME NEW d \in Commands, GP!HostSteps(d)
      PROVE  servo' = Request[c] \/ result'[c] = 1
  <2>1. /\ call[d] # "returned" /\ UNCHANGED servo
        /\ d # c => call'[c] = call[c] /\ result'[c] = result[c]
    BY <1>4, OneCallSteps DEF CallsInd
  <2>2. CASE d # c
    <3>1. Grip!Returned(c) /\ result'[c] = result[c]
      BY <1>1, <2>1, <2>2 DEF Grip!Returned
    <3> QED
      BY <1>2, <2>1, <3>1 DEF MovedInv
  <2>3. CASE d = c
    <3>1. ~GP!Returned(c) /\ GP!Returned(c)'
      BY <1>1, <2>1, <2>3 DEF GP!Returned, Grip!Returned
    <3>2. CASE result'[c] = 0
      BY <2>1, <3>1, <3>2, GripStep, PartsOK, GP!ReturnStep
    <3>3. CASE result'[c] # 0
      <4>1. GP!OpenFails(c) \/ GP!SetupFails(c)
        BY <1>4, <2>3, <3>1, <3>3
        DEF GP!HostSteps, GP!HostStep, GP!Begin, GP!OpenFails, GP!SetupFails, GP!CheckReply,
            GP!DataAvail, GP!GetChar, GP!GetCharTimesOut, GP!Keep, GP!Returned, CallsInd, GP!TypeOK
      <4>2. result[c] = 1
        BY <4>1 DEF GP!OpenFails, GP!SetupFails, GP!ExchangeInd, GP!ExchangeInv
      <4> QED
        BY <4>1, <4>2 DEF GP!OpenFails, GP!SetupFails
    <3> QED
      BY <3>2, <3>3
  <2> QED
    BY <2>2, <2>3
<1>5. ASSUME GP!ReceiveByte, UNCHANGED call, NEW d \in Commands, GP!UnderWay(d)
      PROVE  FALSE
  <2>1. \A e \in Commands, b \in Begins :
          jobs[<<b, e>>] = "execute" \/ (jobs[<<b, e>>] # "none" /\ ~Channel!FinishSent(e))
            => Active(e)
    BY ThreadIsActive DEF CallsInd
  <2>2. Active(d)
    BY <1>5, <2>1 DEF CallsInd, CallInv, Grip!UnderWay, GP!UnderWay
  <2>3. call[c] = "returned"
    BY <1>1, <1>5 DEF Grip!Returned
  <2>4. Active(c)
    BY <1>2, <2>1, <2>3 DEF CallsInd, CallInv
  <2>5. c = d
    BY <2>2, <2>4 DEF CallsInd, OneActive
  <2> QED
    BY <1>5, <2>3, <2>5 DEF GP!UnderWay
<1>6. CASE GP!BoardSteps
  <2>1. UNCHANGED <<call, result, fds>>
    BY <1>6 DEF GP!BoardSteps, GP!hostVars
  <2>2. CASE GP!ReceiveByte
    <3>1. ~GP!AllQuiet
      BY <2>2 DEF GP!ReceiveByte, GP!AllQuiet
    <3> QED
      BY <1>5, <2>1, <2>2, <3>1 DEF GP!ExchangeInd, GP!ExchangeInv
  <2>3. CASE GP!SendByte \/ GP!EndMessage
    BY <1>3, <2>1, <2>3 DEF GP!SendByte, GP!EndMessage
  <2> QED
    BY <1>6, <2>2, <2>3 DEF GP!BoardSteps, GP!BoardStep
<1>7. CASE GP!Arrives \/ GP!CtsMoves
  BY <1>3, <1>7 DEF GP!Arrives, GP!ByteArrives, GP!CtsMoves, GP!CtsChanges, GP!hostVars
<1>8. CASE ChannelSteps \/ UNCHANGED vars
  BY <1>3, <1>8 DEF ChannelSteps, vars, gripVars, hostVars
<1> QED
  BY <1>4, <1>6, <1>7, <1>8, Kinds DEF GripSteps

LEMMA MovedAlways ==
  ASSUME BufferSuffices
  PROVE  Spec => []MovedInv
<1>1. CallsInd /\ GP!ExchangeInd /\ MovedInv /\ [Next]_vars => MovedInv'
  BY MovedStep
<1> QED
  BY <1>1, NothingBegun, CallsAlways, ExchangeOfCalls, PTL DEF Spec

LEMMA SameReturns == GP!ReturnsAfterMove => ReturnsAfterMove
<1>1. [\A c \in Commands :
         ~GP!Returned(c) /\ GP!Returned(c)' /\ result'[c] = 0 =>
           servo = Request[c] /\ toBoard = <<>> /\ toHost = <<>> /\ sending = <<>>]_(GP!vars)
      => [\A c \in Commands :
            ~Grip!Returned(c) /\ Grip!Returned(c)' /\ result'[c] = 0 =>
              servo = Request[c] /\ toBoard = <<>> /\ toHost = <<>> /\ sending = <<>>]_(Grip!vars)
  BY DEF GP!Returned, Grip!Returned, GP!vars, GP!lineVars, GP!hostVars, GP!boardVars, Grip!vars,
         Grip!lineVars, Grip!hostVars, Grip!boardVars
<1> QED
  BY <1>1, PTL DEF ReturnsAfterMove, Grip!ReturnsAfterMove, GP!ReturnsAfterMove

(***************************************************************************)
(* With a brain that begins one group at a time, a call of handlingService *)
(* that returns 0 finds the servo where it asked for, and leaves no byte   *)
(* of its exchange on the line.                                            *)
(***************************************************************************)
THEOREM ReturnsMeanMoved ==
  ASSUME BufferSuffices
  PROVE  Spec => ReturnsAfterMove
<1>1. GP!Spec /\ [][GP!OneAtATime]_(GP!vars) => GP!ReturnsAfterMove
  BY PartsOK, GP!ReturnsMeanMoved DEF BufferSuffices, GP!BufferSuffices
<1>2. CallsInd /\ [Next]_vars => [GP!OneAtATime]_(GP!vars)
  BY NoOverlap
<1>3. Spec => [][GP!OneAtATime]_(GP!vars)
  BY <1>2, CallsAlways, PTL DEF Spec
<1> QED
  BY <1>1, <1>3, BothParts, SameReturns, PTL

(***************************************************************************)
(* And when ACTION_FINISHED of a command is emitted, the servo stands      *)
(* where the command asked for, unless the tty could not be opened or set  *)
(* up, of which the event says nothing: between the return and the event   *)
(* no other command has moved it, because the brain still waits for this   *)
(* one.                                                                    *)
(***************************************************************************)
THEOREM ReportsMeanMoved ==
  ASSUME BufferSuffices
  PROVE  Spec => ReportsTheMove
<1>1. CallsInd /\ MovedInv /\ [Next]_vars
      => [\A c \in Commands :
            ~Channel!FinishSent(c) /\ Channel!FinishSent(c)' =>
              servo = Request[c] \/ (Grip!Returned(c) /\ result[c] = 1)]_vars
  <2> SUFFICES ASSUME CallsInd, MovedInv, [Next]_vars, NEW c \in Commands,
                      ~Channel!FinishSent(c), Channel!FinishSent(c)'
               PROVE  servo = Request[c] \/ (Grip!Returned(c) /\ result[c] = 1)
    OBVIOUS
  <2>1. ~CP!FinishSent(c) /\ CP!FinishSent(c)' /\ [CP!Next]_(CP!vars)
    BY SameTold, ChannelStep
  <2>2. CP!TypeOK /\ CP!ReplyInv
    BY DEF CallsInd, CP!ProtocolInv, CP!ReportInv
  <2>3. PICK j \in CP!Jobs : CP!EmitFinished(j) /\ j[2] = c
    BY <2>1, <2>2, PartsOK, CP!OneStepReports
  <2>4. jobs[j] = "emit" /\ j \in Channel!Jobs
    BY <2>3 DEF CP!EmitFinished, CP!JobAt, CP!Jobs, Channel!Jobs
  <2>5. Grip!Returned(c)
    BY <2>3, <2>4 DEF CallsInd, CallInv
  <2> QED
    BY <2>5 DEF MovedInv
<1> QED
  BY <1>1, CallsAlways, MovedAlways, PTL DEF Spec, ReportsTheMove

=============================================================================
