----------------------- MODULE MCCommunicationChannel -----------------------
(***************************************************************************)
(* Small instances of CommunicationChannel for TLC.                        *)
(***************************************************************************)
EXTENDS CommunicationChannel, TLC

CONSTANTS c1, c2, c3, b1, b2

\* Two commands of group 1 and one of group 2.
MCCommandGroup == c1 :> "g1" @@ c2 :> "g1" @@ c3 :> "g2"

\* All have a service, or the third has none.
AllServed == c1 :> "OPEN-GRIP" @@ c2 :> "SHUT-GRIP" @@ c3 :> "OPEN-GRIP"
OneUnserved == c1 :> "OPEN-GRIP" @@ c2 :> "SHUT-GRIP" @@ c3 :> "TOGGLE"

\* One ALL_BEGINS for each group, or two for the first.
BeginEach == b1 :> "g1" @@ b2 :> "g2"
BeginTwice == b1 :> "g1" @@ b2 :> "g1"
=============================================================================
