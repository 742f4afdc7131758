----------------------------- MODULE MCHandling -----------------------------
(***************************************************************************)
(* A small instance of Handling for TLC: three groups of one command.      *)
(***************************************************************************)
EXTENDS Handling, TLC

CONSTANTS c1, c2, c3, b1, b2, b3

MCCommandGroup == c1 :> "g1" @@ c2 :> "g2" @@ c3 :> "g3"
MCBeginGroup == b1 :> "g1" @@ b2 :> "g2" @@ b3 :> "g3"

\* Requests of both lengths, so that a message may leave something behind.
ShutOpenShut == c1 :> "SHUT-GRIP" @@ c2 :> "OPEN-GRIP" @@ c3 :> "SHUT-GRIP"

FirstToLast == <<c1, c2, c3>>
=============================================================================
