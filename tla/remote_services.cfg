\* Every command, next to a list or a local removal, against a device that changes and a network that fails.
SPECIFICATION RemoteSpec
CONSTANTS
  c1 = c1 c2 = c2
  Task = {c1, c2}
  Peer = {nas}
  Name = {web}
  Service <- Entries
  Ops <- CommandsOf
  MaxEpoch = 1
  NoSnapshot = NoSnapshot NoPeer = NoPeer Unread = Unread
INVARIANTS TypeOK SnapshotFaithful AttachedWasPublished LocalAfterRemote
PROPERTIES NoResurrection ImplementsStore
