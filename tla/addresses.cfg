SPECIFICATION FairSpec
CONSTANTS
  p1 = p1
  Peer <- MCPeer
  Raw <- MCRaw
  Conns <- MCConns
  Configs <- MCConfigs
  FreshFor <- MCFreshFor
  AgingFor <- MCAgingFor
  MaxTime = 2
  MaxFaults = 1
  MaxRestarts = 1
  NoRecord = NoRecord
  Torn = Torn
INVARIANT HonestFreshness
PROPERTIES KnownAfterStart LastingConnectionSaved
CHECK_DEADLOCK FALSE
