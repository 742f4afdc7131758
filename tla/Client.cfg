\* Three calls of the user, connections lost twice and refused twice.
SPECIFICATION FairSpec
CONSTANTS
  m_reconn_attempts = 1
  MaxCalls = 3
  MaxDrops = 2
  MaxRefusals = 2
INVARIANTS
  OpenedHasConnection
  OneConnection
  NoStalePongTimer
PROPERTIES
  LostConnectionReturns
  ImplementsClientSession
