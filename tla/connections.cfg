\* A caller at one end, which dials directly and through a relay; the relayed
\* connection may break at any time; both ends run their governance loops.
SPECIFICATION FairSpec
CONSTANTS
  a = a b = b o1 = o1 r = r d = d
  Node = {a, b}
  Conn = {r, d}
  Relayed = {r}
  Opener = {o1}
  Home <- AllAtOne
  DirectKnown = {a}
  RelayKnown = {a}
  Flaky = {r}
  NoConn = NoConn
PROPERTIES KeepsOwnStreams OpenEnds SurplusClosed
