----------------------------- MODULE MCDevices -----------------------------
(* Devices for TLC: two devices and names of which two differ in case only. *)
EXTENDS Devices, TLC

CONSTANTS p1, p2, c1, c2, a1

MCPeer == {p1, p2}
MCClient == {c1, c2}
MCAddr == {a1}
MCKey == [Nas |-> "nas", nas |-> "nas", tv |-> "tv", Local |-> "local"]
MCName == DOMAIN MCKey
Symmetry == Permutations(MCPeer) \cup Permutations(MCClient)

=============================================================================
