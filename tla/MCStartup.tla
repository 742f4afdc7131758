------------------------------ MODULE MCStartup ------------------------------
(***************************************************************************)
(* Small instances of Startup, and of SioSocket in it, for TLC.            *)
(***************************************************************************)
EXTENDS Startup

CONSTANTS reg, f1, f2, r1
=============================================================================
