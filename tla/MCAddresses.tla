---------------------------- MODULE MCAddresses ----------------------------
(***************************************************************************)
(* Addresses for TLC: a public address with and without the identity of    *)
(* the peer and a loopback one.                           *)
(***************************************************************************)
EXTENDS Addresses

CONSTANTS p1

Udp == [host |-> "public", transport |-> "udp", port0 |-> FALSE, circuit |-> FALSE, p2p |-> "none"]
UdpOwn == [Udp EXCEPT !.p2p = "own"]
Loopback == [Udp EXCEPT !.host = "loopback", !.transport = "tcp"]

MCPeer == {p1}
MCRaw == {UdpOwn, Loopback}
MCConfigs == {{}, {UdpOwn, Loopback}}
MCConns == {[peer |-> p1, addr |-> UdpOwn, out |-> TRUE], [peer |-> p1, addr |-> Loopback, out |-> TRUE]}
MCFreshFor == [tcp |-> 0, udp |-> 0, relayed |-> 1, other |-> 0]
MCAgingFor == [tcp |-> 1, udp |-> 1, relayed |-> 2, other |-> 1]

=============================================================================
