------------------------------ MODULE Services ------------------------------
(***************************************************************************)
(* The service registry of the handling module (libs/AIO/Services.cpp):    *)
(* the names a command may ask for, one FIFO queue of assigned commands    *)
(* per group, and the "working" flag.  The class has no lock of its own:   *)
(* its callers decide which threads touch it together, so the module also  *)
(* says which accesses conflict (Conflict).                                *)
(***************************************************************************)
EXTENDS Naturals, Sequences, FiniteSets

CONSTANTS
  Commands,      \* the COMMAND_IDs the brain assigns
  Groups,        \* the GROUP_IDs
  CommandGroup,  \* the GROUP_ID of each command
  CommandName    \* the COMMAND (service name) of each command

ASSUME CommandsAssumption ==
  /\ CommandGroup \in [Commands -> Groups]
  /\ CommandName \in [Commands -> STRING]

VARIABLES
  commandsInfo,  \* the queue of each group
  keys,          \* the groups that have a node in the map commandsInfo
  working        \* set and cleared by the threads that drain a group

servicesVars == <<commandsInfo, keys, working>>

\* The keys of the map services: what addService stored when the module was built.
services == {"SHUT-GRIP", "OPEN-GRIP"}

\* The keys of the static map creators: each service's constructor registers its class.
creators == {"SHUT-GRIP", "OPEN-GRIP"}

\* createFromString: a name without a creator gives NULL.
Creatable(c) == CommandName[c] \in creators

Assessable(c) == CommandName[c] \in services

ServicesTypeOK ==
  /\ commandsInfo \in [Groups -> Seq(Commands)]
  /\ keys \subseteq Groups
  /\ working \in BOOLEAN

ServicesInit ==
  /\ commandsInfo = [g \in Groups |-> <<>>]
  /\ keys = {}
  /\ working = FALSE

(***************************************************************************)
(* operator[] of the map inserts the node of a group the first time any    *)
(* thread names that group.                                                *)
(***************************************************************************)
Touch(g) == keys' = keys \cup {g}

\* A slip in assessWork: a command is put in front of the ones assigned before it.
PushFront(c) ==
  /\ Touch(CommandGroup[c])
  /\ commandsInfo' = [commandsInfo EXCEPT ![CommandGroup[c]] = <<c>> \o @]
  /\ UNCHANGED working

\* assessWork of a command whose service exists: the command joins its group's queue.
Push(c) ==
  /\ Touch(CommandGroup[c])
  /\ commandsInfo' = [commandsInfo EXCEPT ![CommandGroup[c]] = Append(@, c)]
  /\ UNCHANGED working

isEmptyCommands(g) == commandsInfo[g] = <<>>

\* The two halves of getNextWork: the copy of front(), then pop().
FrontOf(g) == Head(commandsInfo[g])

\* A slip in getNextWork: pop() is forgotten.
PopNothing(g) == commandsInfo[g] # <<>> /\ UNCHANGED servicesVars

PopFront(g) ==
  /\ commandsInfo' = [commandsInfo EXCEPT ![g] = Tail(@)]
  /\ UNCHANGED <<keys, working>>

setWorking(b) ==
  /\ working' = b
  /\ UNCHANGED <<commandsInfo, keys>>

(***************************************************************************)
(* What one thread is doing to the map of queues: the group it names and   *)
(* whether it changes that group's queue.  Two accesses of different       *)
(* threads conflict when one of them inserts a node in the map, or when    *)
(* they are to one queue and one of them changes it: std::map and          *)
(* std::queue leave what happens then undefined.  operator[] is not const, *)
(* but for a key that is there the C++ library of the board (libstdc++)    *)
(* only searches the tree, so two such calls give what one after the other *)
(* gives.  The flag is one byte, whose racing writes leave one of the      *)
(* values written.                                                         *)
(***************************************************************************)
Access(g, w) == [group |-> g, writes |-> w]

Inserts(a) == a.group \notin keys

Conflict(a, b) ==
  \/ Inserts(a) \/ Inserts(b)
  \/ a.group = b.group /\ (a.writes \/ b.writes)
=============================================================================
