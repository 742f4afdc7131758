---------------------------- MODULE MCSioPacket ----------------------------
(***************************************************************************)
(* Instances of SioPacket with the messages of SioMessage: a thread whose  *)
(* messages have binary parts, and one whose messages have none.           *)
(***************************************************************************)
EXTENDS SioPacket, SioMessage

Nested == Array(<<Leaf("event"),
                  Object(<< <<"image", Binary("a")>>,
                            <<"more", Array(<<Leaf("text"), Binary("b")>>)>> >>)>>)

WithParts ==
  {Packet("4", "event", "/", NoId, Nested),
   Packet("4", "ack", "/chat", 7, Array(<<Binary("c")>>)),
   Packet("4", "event", "/chat", NoId, Array(<<Leaf("event"), Binary("d"), Leaf("e")>>))}

WithoutParts ==
  {Packet("4", "connect", "/chat", NoId, Null),
   Packet("4", "event", "/", 3, Array(<<Leaf("event"), Object(<< <<"x", Number(1)>> >>)>>)),
   Packet("2", "undetermined", "/", NoId, Null)}

SendableOnce == [e \in Emitters |-> IF e = "parts" THEN WithParts ELSE WithoutParts]
=============================================================================
