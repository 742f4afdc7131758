\* connect, then a connection that is lost while a ping is not answered.
SPECIFICATION Spec
CONSTANTS
  m_reconn_attempts = 2
  MaxCalls = 1
  MaxDrops = 1
  MaxRefusals = 0
INVARIANTS
  EndIsHeard
