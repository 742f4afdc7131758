\* Two emits with an acknowledgement and a close, or an emit and two closes, or three
\* closes; a connection lost once.
SPECIFICATION FairSpec
CONSTANTS
  Emitters = {"e1", "e2"}
  MaxLosses = 1
  MaxCalls = 3
INVARIANTS
  TypeOK
  ClosedOnce
  AckToItsEmitter
PROPERTIES
  ClosedForAReason
  CloseCloses
  OpensOrCloses
