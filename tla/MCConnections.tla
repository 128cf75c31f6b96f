---------------------------- MODULE MCConnections ----------------------------
(* Instances of Connections. *)
EXTENDS Connections

CONSTANTS a, b, r, d, o1

\* The only caller is at the first node.
AllAtOne == [o \in Opener |-> a]
=============================================================================
