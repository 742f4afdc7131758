\* Every assignation before the first ALL_BEGINS, one of these per group.
SPECIFICATION Spec
CONSTANTS
  c1 = c1  c2 = c2  c3 = c3
  b1 = b1  b2 = b2
  Commands = {c1, c2, c3}
  Groups = {"g1", "g2"}
  CommandGroup <- MCCommandGroup
  CommandName <- AllServed
  Begins = {b1, b2}
  BeginGroup <- BeginEach
  StatusOf = {c1}
  ModuleIds = {"m7"}
  InitialId = "gripper"
  Discipline = "all first"
  MaxInFlight = 1
  MayClose = FALSE
  NoCommand = NoCommand
  NoReply = NoReply
INVARIANTS
  TypeOK
  NoUndefinedBehaviour
