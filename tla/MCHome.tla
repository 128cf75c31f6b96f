------------------------------- MODULE MCHome -------------------------------
(***************************************************************************)
(* Home for TLC: a current home, homes with devices, accesses and services *)
(* to migrate, one whose service cannot be represented, a half migrated    *)
(* one and an empty one.                                                   *)
(***************************************************************************)
EXTENDS Home, TLC

CONSTANTS p1, p2, p3, n1, n2

MCProc == {p1, p2, p3}
MCPort == {n1, n2}

Of(f) == f @@ Nothing

Current == Of([config |-> {<<"version", "3">>}, devices |-> {<<"device", "a">>},
               trusted |-> {<<"peer", "a">>}])

State(proto) == {<<"desired", "s", "running">>, <<"provider", "s", "wasmtime">>,
                 <<"port", "s", proto, "8080", "80">>, <<"file", "s">>}

LegacyPeers ==
  Of([config |-> {<<"peer", "b">>, <<"obsolete", "tcp_tunneling">>}, trusted |-> {<<"peer", "a">>}])
LegacyDevices ==
  Of([config |-> {<<"version", "2">>}, book |-> {<<"device", "b">>}, devices |-> {<<"device", "a">>}])
LegacyAccesses ==
  Of([config |-> {<<"version", "3">>}, access |-> {<<"access", "x", "8080">>},
      prefs |-> {<<"access", "y", "9090">>}, remote |-> {<<"cached", "r">>}])
LegacyServices ==
  Of([config |-> {<<"version", "3">>}, state |-> State("tcp"),
      services |-> {<<"data", "s">>, <<"component", "s">>}])

Udp == Of([config |-> {<<"version", "3">>}, state |-> State("udp"), services |-> {<<"data", "s">>}])
Half == Of([config |-> {<<"version", "3">>}, state |-> State("tcp"),
            services |-> {<<"manifest", "s">>}])

MCHomes == {Current, LegacyPeers, LegacyDevices, LegacyAccesses, LegacyServices, Udp, Half, Nothing}
Symmetry == Permutations(MCProc) \cup Permutations(MCPort)

\* Three processes and as many faults in a home that needs no migration; in the others two
\* processes at a time, which end where nothing concerns the migration any more, and one fault.
Scope ==
  \/ original \in {Current, Nothing}
  \/ /\ faults <= 1
     /\ Cardinality({p \in Proc : task[p].pc # "idle"}) <= 2
     /\ \A p \in Proc : task[p].pc \in Migrating \cup {"idle", "create", "lock", "config"}

=============================================================================
