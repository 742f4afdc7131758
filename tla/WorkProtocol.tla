---------------------------- MODULE WorkProtocol ----------------------------
(***************************************************************************)
(* What the handling module promises the brain about assigned commands,    *)
(* without its threads and its lock: a command is refused, or it waits in  *)
(* its group's queue until the group has begun, is started in the order of *)
(* arrival, and is reported finished once - after it was accepted.  The    *)
(* module may stop at any moment.                                          *)
(***************************************************************************)
EXTENDS Naturals, Sequences

CONSTANTS Commands, Groups, CommandGroup

VARIABLES
  waiting,   \* per group, the commands not started yet, oldest first
  started,   \* the commands that left their queue
  finished,  \* the commands reported finished
  accepted,  \* the commands the brain was told are accepted
  refused,   \* the commands the brain was told are refused
  begun,     \* the groups that may start
  stopped    \* the module is no more

vars == <<waiting, started, finished, accepted, refused, begun, stopped>>

Waits(c) == \E i \in DOMAIN waiting[CommandGroup[c]] : waiting[CommandGroup[c]][i] = c

Init ==
  /\ waiting = [g \in Groups |-> <<>>]
  /\ started = {}
  /\ finished = {}
  /\ accepted = {}
  /\ refused = {}
  /\ begun = {}
  /\ stopped = FALSE

Enqueue(c) ==
  /\ ~stopped
  /\ c \notin started \cup refused
  /\ ~Waits(c)
  /\ waiting' = [waiting EXCEPT ![CommandGroup[c]] = Append(@, c)]
  /\ UNCHANGED <<started, finished, accepted, refused, begun, stopped>>

Accept(c) ==
  /\ ~stopped
  /\ c \in started \/ Waits(c)
  /\ c \notin accepted
  /\ accepted' = accepted \cup {c}
  /\ UNCHANGED <<waiting, started, finished, refused, begun, stopped>>

Refuse(c) ==
  /\ ~stopped
  /\ c \notin started \cup refused
  /\ ~Waits(c)
  /\ refused' = refused \cup {c}
  /\ UNCHANGED <<waiting, started, finished, accepted, begun, stopped>>

GroupBegins(g) ==
  /\ ~stopped
  /\ begun' = begun \cup {g}
  /\ UNCHANGED <<waiting, started, finished, accepted, refused, stopped>>

Start(g) ==
  /\ ~stopped
  /\ g \in begun
  /\ waiting[g] # <<>>
  /\ Head(waiting[g]) \notin started
  /\ started' = started \cup {Head(waiting[g])}
  /\ waiting' = [waiting EXCEPT ![g] = Tail(@)]
  /\ UNCHANGED <<finished, accepted, refused, begun, stopped>>

Finish(c) ==
  /\ ~stopped
  /\ c \in started \cap accepted
  /\ c \notin finished
  /\ finished' = finished \cup {c}
  /\ UNCHANGED <<waiting, started, accepted, refused, begun, stopped>>

Stop ==
  /\ ~stopped
  /\ stopped' = TRUE
  /\ UNCHANGED <<waiting, started, finished, accepted, refused, begun>>

Next ==
  \/ \E c \in Commands : Enqueue(c) \/ Accept(c) \/ Refuse(c) \/ Finish(c)
  \/ \E g \in Groups : GroupBegins(g) \/ Start(g)
  \/ Stop

Spec == Init /\ [][Next]_vars
=============================================================================
