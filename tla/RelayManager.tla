---------------------------- MODULE RelayManager ----------------------------
(***************************************************************************)
(* How a node keeps a reservation at one relay peer                        *)
(* (crates/swarm/src/libp2p/relay.rs, the relay records of                 *)
(* state/connectivity.rs): swarm events and an audit every ten minutes     *)
(* start a reconcile task unless one is running, and the task tries the    *)
(* endpoints of the peer, UDP first, until one is ready.                   *)
(*                                                                         *)
(* The event handler and the audit are branches of one select!; the        *)
(* reconcile task is spawned.  What the swarm does by itself is external,  *)
(* and every mishap in it costs one of MaxFaults.                          *)
(***************************************************************************)
EXTENDS Naturals, Sequences, FiniteSets

CONSTANTS
  Group,      \* the endpoints of the relay peer in the order they are tried
  Conn,       \* connection ids
  Via,        \* [Conn -> Endpoint]
  Reliable,   \* endpoints a dial to which fails by a mishap only
  MaxFaults,
  NoConn, NoEndpoint

Endpoint == {Group[i] : i \in 1..Len(Group)}

ASSUME RelayAssumption ==
  /\ Len(Group) > 0
  /\ Cardinality(Endpoint) = Len(Group)
  /\ Via \in [Conn -> Endpoint]
  /\ Reliable \subseteq Endpoint
  /\ MaxFaults \in Nat
  /\ NoConn \notin Conn
  /\ NoEndpoint \notin Endpoint

VARIABLES
  up,          \* the connections of the swarm to the relay
  dialing,     \* the endpoint of the dial in flight
  listener,    \* [Endpoint -> ...]: circuit listeners of the swarm
  events,      \* the swarm_event channel
  table,       \* State.connections of the relay peer, by established_at
  current,     \* [Endpoint -> Conn]: current_direct_connection_id
  registered,  \* [Endpoint -> BOOLEAN]: listener_registered
  flag,        \* task_flag of the group
  task,        \* the reconcile task
  audit,       \* relay_management_loop: the index of the endpoint it looks at next
  faults

swarm == <<up, dialing, listener>>
status == <<current, registered>>
vars == <<swarm, events, table, status, flag, task, audit, faults>>

Event == [kind : {"established", "closed"}, conn : Conn]
           \cup [kind : {"listening", "unlistening"}, ep : Endpoint]
           \cup [kind : {"accepted"}]
Listener == [state : {"none", "pending", "registered"}, on : Conn \cup {NoConn}]
Task == [pc : {"none", "check", "others", "close", "carrier", "dial", "await",
               "listen", "listened", "poll", "polled", "done"},
         at : 1..Len(Group),
         ids : SUBSET Conn,
         seen : BOOLEAN]

NoListener == [state |-> "none", on |-> NoConn]
NoTask == [pc |-> "none", at |-> 1, ids |-> {}, seen |-> FALSE]

Fault == faults < MaxFaults /\ faults' = faults + 1
NoFault == UNCHANGED faults

\* relay_endpoint_active, relay_endpoint_ready, relay_peer_ready.
EndpointActive(e) == current[e] # NoConn
EndpointReady(e) == registered[e] /\ EndpointActive(e)
PeerReady == \E e \in Endpoint : EndpointReady(e)

\* What swarm.listeners() has, not what the records say of it.
Registered(e) == listener[e].state = "registered"

-----------------------------------------------------------------------------
(* The swarm.                                                              *)

Pending(kind, c) == \E i \in 1..Len(events) : events[i] = [kind |-> kind, conn |-> c]
Fresh(c) == /\ c \notin up
            /\ \A i \in 1..Len(table) : table[i] # c
            /\ ~Pending("established", c) /\ ~Pending("closed", c)
            /\ c \notin task.ids

\* The connection c ends and takes the listeners it carries with it.
Down(c) ==
  LET lost(e) == listener[e].on = c
      told == SelectSeq(Group, LAMBDA e : lost(e) /\ Registered(e))
      closed == <<[kind |-> "closed", conn |-> c]>>
      gone == [i \in 1..Len(told) |-> [kind |-> "unlistening", ep |-> told[i]]]
  IN /\ up' = up \ {c}
     /\ listener' = [e \in Endpoint |-> IF lost(e) THEN NoListener ELSE listener[e]]
     /\ events' \in {events \o closed \o gone, events \o gone \o closed}

\* A connection through e; a listener that waits for one takes it.
Established(e) ==
  LET fresh == {c \in Conn : Via[c] = e /\ Fresh(c)}
      c == CHOOSE d \in fresh : TRUE
  IN /\ fresh # {}
     /\ up' = up \cup {c}
     /\ events' = Append(events, [kind |-> "established", conn |-> c])
     /\ listener' = [f \in Endpoint |-> IF listener[f] = [state |-> "pending", on |-> NoConn]
                                        THEN [listener[f] EXCEPT !.on = c] ELSE listener[f]]

DialSucceeds ==
  /\ dialing # NoEndpoint
  /\ Established(dialing)
  /\ dialing' = NoEndpoint
  /\ UNCHANGED <<table, status, flag, task, audit, faults>>

DialFails ==
  /\ dialing # NoEndpoint
  /\ IF dialing \in Reliable THEN Fault ELSE NoFault
  /\ dialing' = NoEndpoint
  /\ listener' = [e \in Endpoint |-> IF listener[e].on = NoConn THEN NoListener ELSE listener[e]]
  /\ UNCHANGED <<up, events, table, status, flag, task, audit>>

\* Somebody else dials the relay, for a circuit to another peer.
CircuitDial(e) ==
  /\ dialing = NoEndpoint
  /\ Fault
  /\ Established(e)
  /\ UNCHANGED <<dialing, table, status, flag, task, audit>>

\* A connection breaks, is idle too long or is closed by governance.
Break(c) ==
  /\ c \in up
  /\ Fault
  /\ Down(c)
  /\ UNCHANGED <<dialing, table, status, flag, task, audit>>

\* The relay accepts the reservation of a listener.
Accept(e) ==
  /\ listener[e].state = "pending" /\ listener[e].on # NoConn
  /\ listener' = [listener EXCEPT ![e].state = "registered"]
  /\ events' = events \o <<[kind |-> "accepted"], [kind |-> "listening", ep |-> e]>>
  /\ UNCHANGED <<up, dialing, table, status, flag, task, audit, faults>>

Renew(e) ==
  /\ Registered(e)
  /\ events = <<>>
  /\ events' = <<[kind |-> "accepted"]>>
  /\ UNCHANGED <<swarm, table, status, flag, task, audit, faults>>

\* The relay refuses or ends a reservation.
ListenerFails(e) ==
  /\ listener[e].on # NoConn
  /\ Fault
  /\ listener' = [listener EXCEPT ![e] = NoListener]
  /\ events' = IF Registered(e) THEN Append(events, [kind |-> "unlistening", ep |-> e]) ELSE events
  /\ UNCHANGED <<up, dialing, table, status, flag, task, audit>>

-----------------------------------------------------------------------------
(* The event handler.                                                      *)

\* spawn_relay_reconcile_task: nothing remembers a call that finds the flag set.
Spawn ==
  IF flag THEN UNCHANGED <<flag, task>>
  ELSE flag' = TRUE /\ task' = [NoTask EXCEPT !.pc = "check"]

\* trigger_relay_reconcile, after the records have changed.
Trigger == IF PeerReady' THEN UNCHANGED <<flag, task>> ELSE Spawn

Take(kind) == events # <<>> /\ Head(events).kind = kind /\ events' = Tail(events)

\* record_relay_connection_established: the latest connection of the transport.
RecordEstablished(c) == current' = [current EXCEPT ![Via[c]] = c]

\* record_relay_connection_closed, which says whether it was the connection on record.
RecordClosed(c) ==
  /\ current[Via[c]] = c
  /\ current' = [current EXCEPT ![Via[c]] = NoConn]

\* record_relay_listener_check.
ListenerCheck(e, seen) == registered' = [registered EXCEPT ![e] = seen]

\* The table first, then the record of the endpoint.
ConnectionEstablished ==
  /\ Take("established")
  /\ LET c == Head(events).conn
     IN /\ table' = Append(table, c)
        /\ RecordEstablished(c)
  /\ UNCHANGED <<swarm, registered, flag, task, audit, faults>>

\* Mutant: the record keeps the connection.
ConnectionClosedKept ==
  /\ Take("closed")
  /\ table' = SelectSeq(table, LAMBDA d : d # Head(events).conn)
  /\ UNCHANGED <<swarm, status, flag, task, audit, faults>>

\* Only the connection on record ends the record, and triggers.
ConnectionClosed ==
  /\ Take("closed")
  /\ LET c == Head(events).conn
     IN /\ table' = SelectSeq(table, LAMBDA d : d # c)
        /\ \/ RecordClosed(c) /\ UNCHANGED registered /\ Trigger
           \/ current[Via[c]] # c /\ UNCHANGED <<status, flag, task>>
  /\ UNCHANGED <<swarm, audit, faults>>

\* handle_new_listen_addr with the address of a circuit.
Listening ==
  /\ Take("listening")
  /\ ListenerCheck(Head(events).ep, TRUE)
  /\ UNCHANGED <<swarm, table, current, flag, task, audit, faults>>

\* handle_expired_listen_addr, handle_listener_closed.
Unlistening ==
  /\ Take("unlistening")
  /\ ListenerCheck(Head(events).ep, FALSE)
  /\ UNCHANGED current
  /\ Trigger
  /\ UNCHANGED <<swarm, table, audit, faults>>

\* record_relay_reservation_accepted: the endpoints take the first connection
\* of their transport in the table.
Accepted ==
  /\ Take("accepted")
  /\ LET of(e) == SelectSeq(table, LAMBDA c : Via[c] = e)
     IN current' = [e \in Endpoint |-> IF of(e) = <<>> THEN current[e] ELSE of(e)[1]]
  /\ UNCHANGED <<swarm, table, registered, flag, task, audit, faults>>

\* handle_new_listen_addr with an address of an interface.
NewListenAddr ==
  /\ Spawn
  /\ UNCHANGED <<swarm, events, table, status, audit, faults>>

HandleEvent ==
  ConnectionEstablished \/ ConnectionClosed \/ Listening \/ Unlistening \/ Accepted

-----------------------------------------------------------------------------
(* The reconcile task.                                                     *)

E == Group[task.at]
Goto(pc) == task' = [task EXCEPT !.pc = pc]

\* An endpoint has failed: the next one, or all of them after a delay.
Fail == task' = IF task.at < Len(Group) THEN [task EXCEPT !.pc = "others", !.at = @ + 1]
                ELSE [NoTask EXCEPT !.pc = "check"]

\* ensure_relay_peer_reservation.
Check ==
  /\ task.pc = "check"
  /\ Goto(IF PeerReady THEN "done" ELSE "others")
  /\ UNCHANGED <<swarm, events, table, status, flag, audit, faults>>

\* close_other_relay_connections_for_peer: the connections on record of the
\* other endpoints, then the swarm is told to close each.
Others ==
  LET ids == {current[e] : e \in Endpoint \ {E}} \ {NoConn}
  IN /\ task.pc = "others"
     /\ task' = [task EXCEPT !.pc = IF ids = {} THEN "carrier" ELSE "close", !.ids = ids]
     /\ UNCHANGED <<swarm, events, table, status, flag, audit, faults>>

CloseOther ==
  /\ task.pc = "close"
  /\ \E c \in task.ids :
       /\ task' = [task EXCEPT !.pc = IF task.ids = {c} THEN "carrier" ELSE "close",
                               !.ids = @ \ {c}]
       /\ IF c \in up THEN Down(c) ELSE UNCHANGED <<up, listener, events>>
  /\ UNCHANGED <<dialing, table, status, flag, audit, faults>>

\* ensure_relay_endpoint_carrier; PeerCondition::NotDialing refuses a dial while
\* another one is in flight, and the task waits as if the dial were its own.
Carrier ==
  /\ task.pc = "carrier"
  /\ Goto(IF EndpointActive(E) THEN "listen" ELSE "dial")
  /\ UNCHANGED <<swarm, events, table, status, flag, audit, faults>>

Dial ==
  /\ task.pc = "dial"
  /\ dialing' = IF dialing = NoEndpoint THEN E ELSE dialing
  /\ Goto("await")
  /\ UNCHANGED <<up, listener, events, table, status, flag, audit, faults>>

\* The event handler keeps up with delays of 100 ms and more, but for mishaps.
EventsLag == events # <<>>

AwaitSucceeds ==
  /\ task.pc = "await"
  /\ EndpointActive(E)
  /\ Goto("listen")
  /\ UNCHANGED <<swarm, events, table, status, flag, audit, faults>>

\* Five seconds: enough for a dial to succeed or to fail, but for mishaps.
AwaitTimeout ==
  /\ task.pc = "await"
  /\ ~EndpointActive(E)
  /\ Fail
  /\ IF dialing = E \/ EventsLag THEN Fault ELSE NoFault
  /\ UNCHANGED <<swarm, events, table, status, flag, audit>>

ReadListener ==
  /\ task.pc \in {"listen", "poll"}
  /\ task' = [task EXCEPT !.seen = Registered(E),
                          !.pc = IF @ = "listen" THEN "listened" ELSE "polled"]
  /\ UNCHANGED <<swarm, events, table, status, flag, audit, faults>>

\* swarm.listen_on: the reservation goes over any connection to the relay, or
\* over one that is dialed for it if no dial is in flight.
ListenOn(e) ==
  IF up # {} THEN /\ \E c \in up : listener' = [listener EXCEPT ![e] = [state |-> "pending", on |-> c]]
                  /\ UNCHANGED dialing
  ELSE IF dialing = NoEndpoint
  THEN /\ listener' = [listener EXCEPT ![e] = [state |-> "pending", on |-> NoConn]]
       /\ dialing' = e
  ELSE UNCHANGED <<listener, dialing>>

\* try_relay_endpoint_reservation; a second listener for the same address is
\* not told apart from the first.
Listen ==
  /\ task.pc = "listened"
  /\ Goto("poll")
  /\ IF task.seen THEN /\ ListenerCheck(E, TRUE)
                       /\ UNCHANGED <<listener, dialing>>
     ELSE /\ IF listener[E].state = "none" THEN ListenOn(E) ELSE UNCHANGED <<listener, dialing>>
          /\ UNCHANGED registered
  /\ UNCHANGED <<up, events, table, current, flag, audit, faults>>

\* wait_relay_endpoint_ready: the answer of the swarm is recorded, then judged.
Polled(ready) ==
  /\ task.pc = "polled"
  /\ ListenerCheck(E, task.seen)
  /\ ready = (task.seen /\ EndpointActive(E))
  /\ UNCHANGED <<swarm, events, table, current, flag, audit>>

PollSucceeds == Polled(TRUE) /\ Goto("done") /\ NoFault
PollAgain == Polled(FALSE) /\ Goto("poll") /\ NoFault

\* Five seconds: enough for the relay to answer a request, but for mishaps.
PollTimeout ==
  /\ Polled(FALSE) /\ Fail
  /\ IF (listener[E].state # "none" /\ EndpointActive(E)) \/ EventsLag THEN Fault ELSE NoFault

\* The end of the task; TaskGuard is dropped last.
Done ==
  /\ task.pc = "done"
  /\ task' = NoTask
  /\ flag' = FALSE
  /\ UNCHANGED <<swarm, events, table, status, audit, faults>>

Reconcile ==
  \/ Check \/ Others \/ CloseOther \/ Carrier \/ Dial \/ AwaitSucceeds \/ AwaitTimeout
  \/ ReadListener \/ Listen \/ PollSucceeds \/ PollAgain \/ PollTimeout \/ Done

-----------------------------------------------------------------------------
(* relay_management_loop, every RELAY_HEALTH_CHECK_INTERVAL.               *)

\* After the last endpoint the records are judged.
AuditNext ==
  IF audit < Len(Group) THEN audit' = audit + 1 /\ UNCHANGED <<flag, task>>
  ELSE audit' = 1 /\ Trigger

\* Mutant: the answer of the swarm is not recorded.
AuditUnrecorded ==
  /\ UNCHANGED <<swarm, events, table, status, faults>>
  /\ AuditNext

\* The answer of the swarm is recorded after an await; that it is out of date
\* by then is a mishap.
Audit ==
  /\ \E seen \in BOOLEAN :
       /\ registered' = [registered EXCEPT ![Group[audit]] = seen]
       /\ IF seen = Registered(Group[audit]) THEN NoFault ELSE Fault
  /\ UNCHANGED current
  /\ AuditNext
  /\ UNCHANGED <<swarm, events, table>>

-----------------------------------------------------------------------------

Init ==
  /\ up = {}
  /\ dialing = NoEndpoint
  /\ listener = [e \in Endpoint |-> NoListener]
  /\ events = <<>>
  /\ table = <<>>
  /\ current = [e \in Endpoint |-> NoConn]
  /\ registered = [e \in Endpoint |-> FALSE]
  /\ flag = FALSE
  /\ task = NoTask
  /\ audit = 1
  /\ faults = 0

Next ==
  \/ DialSucceeds \/ DialFails
  \/ \E e \in Endpoint : CircuitDial(e) \/ Accept(e) \/ Renew(e) \/ ListenerFails(e)
  \/ \E c \in Conn : Break(c)
  \/ HandleEvent \/ NewListenAddr
  \/ Reconcile
  \/ Audit

\* Every task of the node runs; a dial ends, with success unless it may
\* fail; the relay answers; a wait that is in vain times out.
Fairness ==
  /\ WF_vars(HandleEvent) /\ WF_vars(Reconcile) /\ WF_vars(Audit)
  /\ SF_vars(AwaitTimeout) /\ SF_vars(PollTimeout)
  /\ WF_vars(DialSucceeds \/ DialFails)
  /\ \A e \in Endpoint : WF_vars(Accept(e))

Spec == Init /\ [][Next]_vars
FairSpec == Spec /\ Fairness

-----------------------------------------------------------------------------

\* The types of the variables.
TypeOK ==
  /\ up \subseteq Conn
  /\ dialing \in Endpoint \cup {NoEndpoint}
  /\ listener \in [Endpoint -> Listener]
  /\ events \in Seq(Event)
  /\ table \in Seq(Conn)
  /\ current \in [Endpoint -> Conn \cup {NoConn}]
  /\ registered \in [Endpoint -> BOOLEAN]
  /\ flag \in BOOLEAN
  /\ task \in Task
  /\ audit \in 1..Len(Group)
  /\ faults \in 0..MaxFaults

\* The connection on record for an endpoint is in the table and of that
\* transport (connectivity.rs:306-381): once its events are handled, it is up.
CarrierKnown ==
  \A e \in Endpoint : EndpointActive(e) =>
    /\ Via[current[e]] = e
    /\ \E i \in 1..Len(table) : table[i] = current[e]
    /\ current[e] \in up \/ Pending("closed", current[e])

\* However often connections break and reservations end, whatever triggers are
\* dropped while the flag is set, the node has a reservation again once the
\* mishaps are over (relay.rs:343, relay.rs:517).
Recovers == <>[](\E e \in Endpoint : Registered(e))
=============================================================================
