------------------------------ MODULE MCGripper ------------------------------
(***************************************************************************)
(* Small instances of Gripper for TLC.                                     *)
(***************************************************************************)
EXTENDS Gripper, TLC

CONSTANTS k1, k2, k3

\* Requests of both lengths, so that a message may leave something behind.
CloseOpenClose == k1 :> "CLOSE" @@ k2 :> "OPEN" @@ k3 :> "CLOSE"
=============================================================================
