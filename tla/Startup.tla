------------------------------- MODULE Startup -------------------------------
(***************************************************************************)
(* From main() to a registered module (main.cpp, libs/AIO/Module.cpp,      *)
(* libs/HandlingModule/HandlingModule.cpp, CommunicationChannel::start).   *)
(* The main thread builds the services, connects the client, waits on a    *)
(* condition variable until the open listener, on the network thread, has  *)
(* run, binds the events and emits REGISTRATION through the socket.        *)
(*                                                                         *)
(* The module is composed with SioSocket: REGISTRATION is its only early   *)
(* packet, the replies need a bound event, and the socket goes on with the *)
(* emits of all threads once the module is registered.                     *)
(***************************************************************************)
EXTENDS SioSocket

VARIABLES
  main,              \* what the main thread does next
  connect_finished,  \* of connection_listener, under its _lock
  services,          \* the keys of Services::services
  creators,          \* the keys of Service::creators
  bound,             \* how many of Events have their handler in current_socket
  address            \* "bad" if no connection can even be made from it

mainVars == <<main, connect_finished, services, creators, bound, address>>
vars == <<allSocketVars, mainVars>>

\* The services that HandlingModule adds.
Names == {"SHUT-GRIP", "OPEN-GRIP"}

\* What bind_events gives a handler, in its order.
Events == <<"REGISTRATION_REPLY", "WORK_ASSIGNATION", "ALL_BEGINS", "WORK_STATUS">>

Init ==
  /\ SocketInit
  /\ main = "construct"
  /\ connect_finished = FALSE
  /\ services = {}
  /\ creators = {}
  /\ bound = 0
  /\ address \in {"good", "bad"}

At(step) == Running /\ main = step

-----------------------------------------------------------------------------
\* The main thread.

\* new CloseService(), whose constructor registers its class, and addService.
AddService(name) ==
  /\ At("construct")
  /\ name \notin services
  /\ services' = services \cup {name}
  /\ creators' = creators \cup {name}
  /\ UNCHANGED <<allSocketVars, main, connect_finished, bound, address>>

\* start(): the listeners are set, and the network thread begins to connect.
Connect ==
  /\ At("construct")
  /\ services = Names
  /\ main' = "lock"
  /\ UNCHANGED <<allSocketVars, connect_finished, services, creators, bound, address>>

\* _lock is taken, and kept until the thread waits or has no need to.
CheckFinished ==
  /\ At("lock")
  /\ main' = IF connect_finished THEN "bind" ELSE "decided"
  /\ UNCHANGED <<allSocketVars, connect_finished, services, creators, bound, address>>

LockTaken == main = "decided"

\* wait(): the thread joins those that wait and gives _lock back, in one step.
Wait ==
  /\ At("decided")
  /\ main' = "wait"
  /\ UNCHANGED <<allSocketVars, connect_finished, services, creators, bound, address>>

\* wait() may return without any notify: the if around it does not look again.
WakeSpuriously ==
  /\ At("wait")
  /\ main' = "bind"
  /\ UNCHANGED <<allSocketVars, connect_finished, services, creators, bound, address>>

\* current_socket is the socket of "/"; its handlers are added one at a time.
Bind ==
  /\ At("bind")
  /\ bound' = bound + 1
  /\ main' = IF bound' = Len(Events) THEN "subscribe" ELSE "bind"
  /\ UNCHANGED <<allSocketVars, connect_finished, services, creators, address>>

\* A slip: subscription is called before bind_events is done.
SubscribeFirst(p) ==
  /\ main \in {"bind", "subscribe"}
  /\ Emit(p)
  /\ UNCHANGED mainVars

\* subscription: REGISTRATION, which offers every command of services.
Subscribe(p) ==
  /\ main = "subscribe"
  /\ Emit(p)
  /\ main' = "emitting"
  /\ UNCHANGED <<connect_finished, services, creators, bound, address>>

\* emit has returned; there is no sensor service to start, and main loops.
Run ==
  /\ At("emitting")
  /\ \A p \in Early : pc[p] = "done"
  /\ main' = "run"
  /\ UNCHANGED <<allSocketVars, connect_finished, services, creators, bound, address>>

MainStep ==
  \/ \E name \in Names : AddService(name)
  \/ Connect \/ CheckFinished \/ Wait
  \/ Bind
  \/ \E p \in Early : Subscribe(p)
  \/ Run

-----------------------------------------------------------------------------
\* The network thread, which runs from connect() on.

Connecting == main # "construct"

\* A slip: the listener does not take _lock.
OpenUnlocked ==
  /\ Connecting /\ address = "good"
  /\ OnOpen
  /\ connect_finished' = TRUE
  /\ main' = IF main = "wait" THEN "bind" ELSE main
  /\ UNCHANGED <<services, creators, bound, address>>

\* on_open with its listener on_connected: a thread that waits is woken, none is later.
Open ==
  /\ Connecting /\ address = "good"
  /\ ~LockTaken
  /\ OnOpen
  /\ connect_finished' = TRUE
  /\ main' = IF main = "wait" THEN "bind" ELSE main
  /\ UNCHANGED <<services, creators, bound, address>>

\* connect_impl cannot make a connection: the fail listener calls exit(0).
OnFail ==
  /\ Running
  /\ Connecting /\ address = "bad"
  /\ fault' = "exit"
  /\ UNCHANGED <<socketVars, emitVars, netVars, clientVars, mainVars>>

NetStep ==
  \/ SocketNetStep /\ UNCHANGED mainVars
  \/ Open
  \/ OnFail

\* What the threads of the module emit once it is registered.
EmitLater(p) ==
  /\ p \in NetPackets => bound = Len(Events)
  /\ p \notin Early /\ Emit(p)
  /\ UNCHANGED mainVars

EmitSteps(p) == EmitStep(p) /\ UNCHANGED mainVars

Disconnect == OnDisconnect /\ UNCHANGED mainVars

\* The server does not disconnect a namespace before anybody uses it.
CloseNamespace ==
  /\ main \in {"subscribe", "emitting", "run"}
  /\ OnClose
  /\ UNCHANGED mainVars

Quiescent == ~Running \/ (main = "run" /\ SocketQuiescent)

Next ==
  \/ MainStep
  \/ WakeSpuriously
  \/ \E p \in Packets : EmitLater(p) \/ EmitSteps(p)
  \/ NetStep
  \/ Disconnect
  \/ CloseNamespace
  \/ Quiescent /\ UNCHANGED vars

Spec == Init /\ [][Next]_vars

(***************************************************************************)
(* The main thread and the threads inside emit are scheduled.  The network *)
(* thread serves what is posted and what arrives, and the client goes on   *)
(* trying to connect: its default is 2^32 attempts.  No wake-up without a  *)
(* notify is relied on.                                                    *)
(***************************************************************************)
FairSpec ==
  /\ Spec
  /\ WF_vars(MainStep)
  /\ \A p \in Packets : WF_vars(EmitSteps(p))
  /\ WF_vars(NetStep)

-----------------------------------------------------------------------------
\* Properties.

\* The values of the variables.
TypeOK ==
  /\ SocketTypeOK
  /\ main \in {"construct", "lock", "decided", "wait", "bind", "subscribe", "emitting", "run"}
  /\ connect_finished \in BOOLEAN
  /\ services \subseteq Names
  /\ creators \subseteq Names
  /\ bound \in 0 .. Len(Events)
  /\ main \notin {"subscribe", "emitting", "run"} => bound # Len(Events)
  /\ address \in {"good", "bad"}

(***************************************************************************)
(* When REGISTRATION reaches the server, the module can take what the      *)
(* server sends next: every event has its handler, and every command that  *)
(* REGISTRATION offers has a creator, so that the map creators gets no new *)
(* node while the threads of commands search it.                           *)
(***************************************************************************)
RegisteredIsReady ==
  Early \cap Range(wire) # {} => bound = Len(Events) /\ services = Names /\ services \subseteq creators

(***************************************************************************)
(* The main thread does not wait, or decide to, once the open listener has *)
(* run: the check and the wait are one critical section, and the listener  *)
(* another, so that its only notify is not made between the two.           *)
(***************************************************************************)
NoLostWakeup == main \in {"decided", "wait"} => ~connect_finished

(***************************************************************************)
(* start() ends with its emit, or the process does, without any help of a  *)
(* spurious wake-up.                                                       *)
(***************************************************************************)
StartReturns == <>(main = "run" \/ ~Running)

-----------------------------------------------------------------------------
(***************************************************************************)
(* The inductive invariant behind RegisteredIsReady: what main has done by *)
(* the time it is at each step, and that REGISTRATION is nowhere before    *)
(* subscription.                                                           *)
(***************************************************************************)
Prepared ==
  /\ services \subseteq creators
  /\ main # "construct" => services = Names
  /\ main \in {"subscribe", "emitting", "run"} => bound = Len(Events)

\* The packets that some step may still put on the wire, or has put there.
Underway ==
  Range(m_packet_queue) \cup Range(posted) \cup Range(wire)
    \cup {front[p] : p \in Packets} \cup {netFront} \cup {p \in Packets : pc[p] # "none"}

NotBeforeSubscription == Early \cap Underway # {} => main \in {"emitting", "run"}

ReadyInv == Prepared /\ NotBeforeSubscription
=============================================================================
