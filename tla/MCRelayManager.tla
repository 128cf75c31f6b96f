--------------------------- MODULE MCRelayManager ---------------------------
(* Instances of RelayManager. *)
EXTENDS RelayManager

CONSTANTS udp, tcp, u1, u2, u3, t1, t2, t3

\* The order of RelayPeers::new, which puts the UDP endpoints first.
UdpFirst == <<udp, tcp>>
Transport == [c \in Conn |-> IF c \in {u1, u2, u3} THEN udp ELSE tcp]
=============================================================================
