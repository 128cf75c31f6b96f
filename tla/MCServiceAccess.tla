--------------------------- MODULE MCServiceAccess ---------------------------
(* Instances of ServiceAccess: a service with two endpoints. *)
EXTENDS ServiceAccess, TLC

CONSTANTS e1, e2, s1, d1, x1, x2, x3, ssh, web

\* One service with two endpoints.
OneService == [e \in Endpoint |-> s1]
SameDevice == [s \in Service |-> d1]

\* An endpoint may be served under another protocol after a new apply, or keeps its own.
AnyProtocol == [e \in Endpoint |-> Protocol]
OwnProtocol == (e1 :> {ssh}) @@ (e2 :> {web})

\* Endpoints with their protocols are interchangeable as a whole.
Swap == (e1 :> e2) @@ (e2 :> e1) @@ (ssh :> web) @@ (web :> ssh)
InterchangeableEndpoints == Permutations(Proc) \cup Permutations(Port) \cup {Swap}
=============================================================================
