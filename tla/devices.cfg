SPECIFICATION Spec
CONSTANTS
  p1 = p1
  p2 = p2
  c1 = c1
  c2 = c2
  a1 = a1
  Peer <- MCPeer
  Client <- MCClient
  Addr <- MCAddr
  Name <- MCName
  Key <- MCKey
  Reserved = "local"
  MaxCommands = 4
  MaxFaults = 1
  MaxRestarts = 1
  NoDevice = NoDevice
  Torn = Torn
SYMMETRY Symmetry
INVARIANTS NamesUnique TrustAgrees RemovedIsGone AddressesDialable
CHECK_DEADLOCK FALSE
