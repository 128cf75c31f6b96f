\* The relay may or may not answer at the endpoint that is tried first.
SPECIFICATION FairSpec
CONSTANTS
  udp = udp tcp = tcp u1 = u1 u2 = u2 u3 = u3 t1 = t1 t2 = t2 t3 = t3
  Group <- UdpFirst
  Conn = {u1, u2, u3, t1, t2, t3}
  Via <- Transport
  Reliable = {tcp}
  MaxFaults = 2
  NoConn = NoConn NoEndpoint = NoEndpoint
INVARIANT CarrierKnown
PROPERTY Recovers
