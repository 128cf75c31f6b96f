------------------------------ MODULE MCTunnels ------------------------------
(* A small instance of Tunnels: two listening rules that claim one protocol, *)
(* two forwarding rules with one port.                                       *)
EXTENDS Tunnels

CONSTANTS p1, ssh, web, x1, x2, s1, s2, t1, t2

MCPeer == {p1}
MCProtocol == {ssh, web}
MCLRule == {[port |-> x1, protocol |-> ssh], [port |-> x2, protocol |-> ssh]}
MCFRule == {[port |-> x1, peer |-> p1, protocol |-> ssh],
            [port |-> x1, peer |-> p1, protocol |-> web]}
MCStream == {s1, s2}
MCTcp == {t1, t2}
=============================================================================
