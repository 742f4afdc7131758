---------------------------- MODULE ClientSession ----------------------------
(***************************************************************************)
(* What the socket.io client promises whoever calls connect, without its   *)
(* threads, its timers and its queue of handlers: one connection at a      *)
(* time; an attempt at one only when it was arranged; a connection that    *)
(* fails or ends is followed by another attempt or by the listener, never  *)
(* by both; and the listener is told at most once per connect, as the last *)
(* thing that happens before the next one.                                 *)
(***************************************************************************)
EXTENDS Naturals

CONSTANT Limit   \* attempts made one after the other, the first one included

VARIABLES
  conn,      \* "none", "attempt" until its listener has run, then "open"
  arranged,  \* will there be an attempt ?
  told,      \* was the fail or the close listener called ?
  attempts   \* attempts since connect, or since a connection opened

vars == <<conn, arranged, told, attempts>>

Init ==
  /\ conn = "none"
  /\ arranged = FALSE
  /\ told = FALSE
  /\ attempts = 0

\* connect, once nothing is left of the session before.
Begin ==
  /\ conn = "none" /\ ~arranged
  /\ arranged' = TRUE
  /\ told' = FALSE
  /\ attempts' = 0
  /\ UNCHANGED conn

Attempt ==
  /\ conn = "none" /\ arranged /\ ~told
  /\ attempts < Limit
  /\ conn' = "attempt"
  /\ arranged' = FALSE
  /\ attempts' = attempts + 1
  /\ UNCHANGED told

\* There is no such address.
CannotTry ==
  /\ conn = "none" /\ arranged /\ ~told
  /\ arranged' = FALSE
  /\ told' = TRUE
  /\ UNCHANGED <<conn, attempts>>

\* A call of connect or close, or of the client's own close, undoes what was arranged.
Cancel ==
  /\ conn = "none" /\ arranged /\ ~told
  /\ arranged' = FALSE
  /\ UNCHANGED <<conn, told, attempts>>

Open ==
  /\ conn = "attempt"
  /\ conn' = "open"
  /\ attempts' = 0
  /\ UNCHANGED <<arranged, told>>

\* An attempt is refused, or a connection is over: one more attempt, or the listener.
Ends ==
  /\ conn # "none" /\ ~arranged /\ ~told
  /\ conn' = "none"
  /\ \/ attempts < Limit /\ arranged' = TRUE /\ told' = FALSE
     \/ arranged' = FALSE /\ told' = TRUE
  /\ UNCHANGED attempts

Next == Begin \/ Attempt \/ CannotTry \/ Cancel \/ Open \/ Ends

Spec == Init /\ [][Next]_vars
=============================================================================
