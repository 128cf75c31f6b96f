SPECIFICATION FairSpec
CONSTANTS
  p1 = p1 ssh = ssh web = web x1 = x1 x2 = x2 s1 = s1 s2 = s2 t1 = t1 t2 = t2
  Peer <- MCPeer
  Protocol <- MCProtocol
  LRule <- MCLRule
  FRule <- MCFRule
  Stream <- MCStream
  Tcp <- MCTcp
  Capacity = 1
  NoTcp = NoTcp
  NoRule = NoRule
INVARIANTS NoServiceWithoutTrust RightProtocol
PROPERTY OpenAnswered
