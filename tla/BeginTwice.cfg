\* Two ALL_BEGINS for one group, and a command without a service.
SPECIFICATION Spec
CONSTANTS
  c1 = c1  c2 = c2  c3 = c3
  b1 = b1  b2 = b2
  Commands = {c1, c2, c3}
  Groups = {"g1", "g2"}
  CommandGroup <- MCCommandGroup
  CommandName <- OneUnserved
  Begins = {b1, b2}
  BeginGroup <- BeginTwice
  StatusOf = {}
  ModuleIds = {}
  InitialId = "gripper"
  Discipline = "any"
  MaxInFlight = 1
  MayClose = FALSE
  NoCommand = NoCommand
  NoReply = NoReply
INVARIANTS
  AcceptedBeforeFinished
  WorkingOnlyWhileDraining
