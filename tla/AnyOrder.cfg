\* One ALL_BEGINS per group, sent at any moment.
SPECIFICATION FairSpec
CONSTANTS
  c1 = c1  c2 = c2  c3 = c3
  b1 = b1  b2 = b2
  Commands = {c1, c2, c3}
  Groups = {"g1", "g2"}
  CommandGroup <- MCCommandGroup
  CommandName <- OneUnserved
  Begins = {b1, b2}
  BeginGroup <- BeginEach
  StatusOf = {}
  ModuleIds = {}
  InitialId = "gripper"
  Discipline = "any"
  MaxInFlight = 2
  MayClose = TRUE
  NoCommand = NoCommand
  NoReply = NoReply
INVARIANTS
  EachCommandOnce
  PopsWhatItRead
  StartedInOrder
PROPERTIES
  ImplementsWorkProtocol
  EveryAssignationAnswered
  EveryBegunCommandStarts
