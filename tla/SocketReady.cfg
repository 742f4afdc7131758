\* The module registers while CONNECT arrives.
SPECIFICATION FairSpec
CONSTANTS
  reg = reg  f1 = f1  f2 = f2  r1 = r1
  Early = {reg}
  Late = {f1, f2}
  NetPackets = {r1}
  MaxLosses = 0
  MayClose = FALSE
  NoPacket = NoPacket
PROPERTIES
  ReadySocketSends
