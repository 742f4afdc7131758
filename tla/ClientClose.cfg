\* connect, then sync_close, with a server that accepts and stays.
SPECIFICATION FairSpec
CONSTANTS
  m_reconn_attempts = 2
  MaxCalls = 2
  MaxDrops = 0
  MaxRefusals = 0
PROPERTIES
  SyncCloseReturns
