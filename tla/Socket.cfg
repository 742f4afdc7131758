\* Start-up, overlapping emits, connections lost twice, a namespace closed.
SPECIFICATION FairSpec
CONSTANTS
  reg = reg  f1 = f1  f2 = f2  r1 = r1
  Early = {reg}
  Late = {f1, f2}
  NetPackets = {r1}
  MaxLosses = 2
  MayClose = TRUE
  NoPacket = NoPacket
INVARIANTS
  EachPacketOnce
  RepliesFirst
  RegisteredIsReady
  NoLostWakeup
PROPERTIES
  QueuedIsDrained
  TakenAlong
  StartReturns
