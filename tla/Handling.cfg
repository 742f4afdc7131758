\* One group at a time, in any order of the three; the third finds no descriptor.
SPECIFICATION FairSpec
CONSTANTS
  c1 = c1  c2 = c2  c3 = c3
  b1 = b1  b2 = b2  b3 = b3
  Commands = {c1, c2, c3}
  Groups = {"g1", "g2", "g3"}
  CommandGroup <- MCCommandGroup
  CommandName <- ShutOpenShut
  Begins = {b1, b2, b3}
  BeginGroup <- MCBeginGroup
  StatusOf = {}
  ModuleIds = {}
  InitialId = "gripper"
  Discipline = "all first"
  MaxInFlight = 1
  MayClose = FALSE
  NoCommand = NoCommand
  NoReply = NoReply
  AssignOrder <- FirstToLast
  MaxFds = 2
  BufferSize = 8
  NoByte = NoByte
INVARIANTS
  TypeOK
  NeverError
  ServesAtMostMaxFds
PROPERTIES
  ReturnsAfterMove
  ReportsTheMove
  EveryBegunCommandFinishes
