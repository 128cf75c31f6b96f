SPECIFICATION Spec
CONSTANTS
  p1 = p1
  p2 = p2
  p3 = p3
  n1 = n1
  n2 = n2
  Proc <- MCProc
  Port <- MCPort
  Homes <- MCHomes
  MaxFaults = 3
  Absent = Absent
  NoPort = NoPort
  NoProc = NoProc
  Foreign = Foreign
SYMMETRY Symmetry
CONSTRAINT Scope
INVARIANTS Recoverable Discoverable ServedThroughout
PROPERTY AllOrNothing
