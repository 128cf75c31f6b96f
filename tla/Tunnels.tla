------------------------------- MODULE Tunnels -------------------------------
(***************************************************************************)
(* The tunnels of one node and the stream layer beneath them               *)
(* (crates/stream and daemon/src/controls/tcp_tunneling).                  *)
(*                                                                         *)
(* Serving: a listening rule registers its protocol with the stream layer  *)
(* and has a task that copies every stream of that protocol to a local     *)
(* port.  A stream passes four hands, with nothing locked in between: the  *)
(* connection offers the protocols registered when the stream arrives, the *)
(* upgrade asks the registry and the allow list again, the negotiated      *)
(* stream is put into the bounded channel of the listener, and the task    *)
(* takes it out.  Rules and trust may change at each of these points.      *)
(*                                                                         *)
(* Forwarding: a forwarding rule has a task that binds a local port and    *)
(* opens a stream to its peer for every TCP connection.  The requests of a *)
(* connection wait in one channel and the handler negotiates one at a      *)
(* time, since it remembers a single caller in pending_upgrade.            *)
(*                                                                         *)
(* There is one connection per peer here; which connection open_stream     *)
(* chooses is the subject of Connections.                                  *)
(***************************************************************************)
EXTENDS Naturals, Sequences, FiniteSets, SequencesExt

CONSTANTS
  Peer,       \* remote peers
  Protocol,   \* stream protocols of service endpoints
  LRule,      \* listening rules in use, [port, protocol]
  FRule,      \* forwarding rules in use, [port, peer, protocol]
  Stream,     \* inbound streams that can be in being at one time
  Tcp,        \* TCP connections that can be in being at one time
  Capacity,   \* streams a listener channel holds (9 in the code: 8, and 1 for its sender)
  NoTcp, NoRule

ASSUME CapacityAssumption == Capacity \in Nat \ {0}
ASSUME RulesAssumption ==
  /\ NoTcp \notin Tcp
  /\ \A r \in LRule : r.protocol \in Protocol
  /\ \A r \in FRule : r.protocol \in Protocol /\ r.peer \in Peer

VARIABLES
  allowed,    \* the allow list the swarm and the stream layer share
  conn,       \* peers there is a connection with
  listening,  \* TcpTunnelingControl.listening_rules
  listeners,  \* Registry.listeners: protocols with a live channel
  queue,      \* queue[pr]: streams in the channel of the listener of pr
  stream,     \* the inbound streams
  forwarding, \* the tasks of TcpTunnelingControl.forwarding_rules, by rule
  releasing,  \* ports whose task is aborted but not yet dropped
  tcp,        \* the TCP connections accepted by forwarding tasks
  requests,   \* requests[p]: OpenRequests in the channel of the connection
  pending,    \* pending[p]: the caller in Handler.pending_upgrade
  inflight    \* inflight[p]: protocols of the substreams being negotiated

inVars  == <<listening, listeners, queue, stream>>
outVars == <<forwarding, releasing, tcp, requests, pending, inflight>>
vars    == <<allowed, conn, inVars, outVars>>

-----------------------------------------------------------------------------
(***************************************************************************)
(* Data.                                                                   *)
(***************************************************************************)
NoStream == [pc |-> "none", peer |-> CHOOSE p \in Peer : TRUE,
             protocol |-> CHOOSE pr \in Protocol : TRUE,
             offered |-> {}, trusted |-> FALSE]

\* trusted: the peer was in the allow list at some moment since the stream arrived.
InboundStream ==
  [pc : {"none", "offered", "upgraded", "queued", "served"}, peer : Peer,
   protocol : Protocol, offered : SUBSET Protocol, trusted : BOOLEAN]

NoConnection == [pc |-> "none", rule |-> NoRule, got |-> {}]

\* got: the protocols of the streams handed to this connection.  "abandoned": its
\* task is gone while its request is still with the connection handler.
TcpConnection ==
  [pc : {"none", "opening", "piped", "abandoned"},
   rule : FRule \cup {NoRule}, got : SUBSET Protocol]

\* The type invariant: a listener channel holds the streams marked as being in it and is
\* never over its capacity.
TypeOK ==
  /\ allowed \subseteq Peer
  /\ conn \subseteq Peer
  /\ listening \subseteq LRule
  /\ listeners \subseteq Protocol
  /\ stream \in [Stream -> InboundStream \cup {NoStream}]
  /\ \A pr \in Protocol :
       /\ queue[pr] \in Seq(Stream)
       /\ Len(queue[pr]) <= Capacity
       /\ ToSet(queue[pr]) = {s \in Stream : stream[s].pc = "queued" /\ stream[s].protocol = pr}
  /\ forwarding \in [FRule -> {"none", "binding", "bound", "dead"}]
  /\ releasing \subseteq {r.port : r \in FRule}
  /\ tcp \in [Tcp -> TcpConnection]
  /\ \A p \in Peer :
       /\ requests[p] \in Seq(Tcp)
       /\ pending[p] \in Tcp \cup {NoTcp}
       /\ inflight[p] \subseteq Protocol

-----------------------------------------------------------------------------
(***************************************************************************)
(* Connections.                                                            *)
(***************************************************************************)
\* An inbound connection is only accepted from a peer in the allow list.
Connected(p) ==
  /\ p \notin conn /\ p \in allowed
  /\ conn' = conn \cup {p}
  /\ UNCHANGED <<allowed, inVars, outVars>>

\* The connection ends: its handler goes with the requests it has, whose callers get an
\* error and hang up, and the streams over it end.
Close(p) ==
  LET lost == ToSet(requests[p]) \cup ({pending[p]} \ {NoTcp})
      gone == {t \in Tcp : tcp[t].pc = "piped" /\ tcp[t].rule.peer = p}
      ended == {s \in Stream : stream[s].peer = p /\ stream[s].pc \in {"offered", "upgraded", "served"}}
  IN /\ p \in conn
     /\ conn' = conn \ {p}
     /\ tcp' = [t \in Tcp |->
          IF t \in lost \cup gone THEN NoConnection ELSE tcp[t]]
     /\ stream' = [s \in Stream |-> IF s \in ended THEN NoStream ELSE stream[s]]
     /\ requests' = [requests EXCEPT ![p] = << >>]
     /\ pending' = [pending EXCEPT ![p] = NoTcp]
     /\ inflight' = [inflight EXCEPT ![p] = {}]
     /\ UNCHANGED <<allowed, listening, listeners, queue, forwarding, releasing>>

\* authorize and revoke change the shared list; a connection stays as it is.
Authorize(p) ==
  /\ p \notin allowed
  /\ allowed' = allowed \cup {p}
  /\ stream' = [s \in Stream |-> IF stream[s].pc # "none" /\ stream[s].peer = p
                                 THEN [stream[s] EXCEPT !.trusted = TRUE] ELSE stream[s]]
  /\ UNCHANGED <<conn, listening, listeners, queue, outVars>>

Revoke(p) ==
  /\ p \in allowed
  /\ allowed' = allowed \ {p}
  /\ UNCHANGED <<conn, inVars, outVars>>

-----------------------------------------------------------------------------
(***************************************************************************)
(* Serving.                                                                *)
(***************************************************************************)
\* supported_inbound_protocols and protocol_allow_list: a protocol whose channel is live.
Registered(pr) == pr \in listeners

\* The peer opens a stream; listen_protocol takes a snapshot of the registered protocols.
Arrive(s, p, pr) ==
  /\ stream[s].pc = "none" /\ p \in conn
  /\ Registered(pr)
  /\ stream' = [stream EXCEPT ![s] =
       [NoStream EXCEPT !.pc = "offered", !.peer = p, !.protocol = pr,
                        !.offered = listeners, !.trusted = p \in allowed]]
  /\ UNCHANGED <<allowed, conn, listening, listeners, queue, outVars>>

\* authorize_inbound: the node's allow list; a tunnel's listener adds none of its own.
Authorized(p) == p \in allowed

UpgradeByOffer(s) ==
  /\ stream[s].pc = "offered"
  /\ stream' = [stream EXCEPT ![s] =
       IF stream[s].protocol \in stream[s].offered THEN [@ EXCEPT !.pc = "upgraded"] ELSE NoStream]
  /\ UNCHANGED <<allowed, conn, listening, listeners, queue, outVars>>

\* upgrade_inbound: no listener any more, or a peer that is not allowed, ends the stream.
Upgrade(s) ==
  /\ stream[s].pc = "offered"
  /\ stream' = [stream EXCEPT ![s] =
       IF Registered(stream[s].protocol) /\ Authorized(stream[s].peer)
       THEN [@ EXCEPT !.pc = "upgraded"] ELSE NoStream]
  /\ UNCHANGED <<allowed, conn, listening, listeners, queue, outVars>>

\* on_inbound_stream: into the channel of the listener there is now; dropped when there
\* is none or its channel is full.
Deliver(s) ==
  LET pr == stream[s].protocol
      ok == pr \in listeners /\ Len(queue[pr]) < Capacity
  IN /\ stream[s].pc = "upgraded"
     /\ stream' = [stream EXCEPT ![s] = IF ok THEN [@ EXCEPT !.pc = "queued"] ELSE NoStream]
     /\ queue' = IF ok THEN [queue EXCEPT ![pr] = Append(@, s)] ELSE queue
     /\ UNCHANGED <<allowed, conn, listening, listeners, outVars>>

\* listen_p2p_to_port: the task of the rule takes a stream and connects it to its port.
Take(r) ==
  LET pr == r.protocol IN
  /\ r \in listening /\ queue[pr] # << >>
  /\ stream' = [stream EXCEPT ![Head(queue[pr])].pc = "served"]
  /\ queue' = [queue EXCEPT ![pr] = Tail(@)]
  /\ UNCHANGED <<allowed, conn, listening, listeners, outVars>>

\* Either side closes, or the local port refuses.
ServeEnd(s) ==
  /\ stream[s].pc = "served"
  /\ stream' = [stream EXCEPT ![s] = NoStream]
  /\ UNCHANGED <<allowed, conn, listening, listeners, queue, outVars>>

\* add_listening_rule: refused when the rule is there or its protocol is registered.
AddListeningRule(r) ==
  /\ r \notin listening /\ r.protocol \notin listeners
  /\ listening' = listening \cup {r}
  /\ listeners' = listeners \cup {r.protocol}
  /\ UNCHANGED <<allowed, conn, queue, stream, outVars>>

\* The streams when the task of a rule is aborted: those in the channel are dropped with
\* it; those being copied have tasks of their own, and go on or end (ServeEnd) whether or
\* not the clean-up of the aborted task reached them.
StreamsWithout(r) ==
  [s \in Stream |-> IF stream[s].pc = "queued" /\ stream[s].protocol = r.protocol
                    THEN NoStream ELSE stream[s]]

\* remove_listening_rule: unregister, cancel, abort.
RemoveListeningRule(r) ==
  /\ r \in listening
  /\ listening' = listening \ {r}
  /\ listeners' = listeners \ {r.protocol}
  /\ stream' = StreamsWithout(r)
  /\ queue' = [queue EXCEPT ![r.protocol] = << >>]
  /\ UNCHANGED <<allowed, conn, outVars>>

-----------------------------------------------------------------------------
(***************************************************************************)
(* Forwarding.                                                             *)
(***************************************************************************)
\* add_forwarding_rule: the call returns before its task has bound the port.
AddForwardingRule(r) ==
  /\ forwarding[r] = "none"
  /\ forwarding' = [forwarding EXCEPT ![r] = "binding"]
  /\ UNCHANGED <<allowed, conn, inVars, releasing, tcp, requests, pending, inflight>>

Held(port) == port \in releasing \/ \E r \in FRule : r.port = port /\ forwarding[r] = "bound"

\* The task binds its port, or finds it held, ends, and leaves its rule in the table.
Bind(r) ==
  /\ forwarding[r] = "binding"
  /\ forwarding' = [forwarding EXCEPT ![r] = IF Held(r.port) THEN "dead" ELSE "bound"]
  /\ UNCHANGED <<allowed, conn, inVars, releasing, tcp, requests, pending, inflight>>

\* A connection whose task is gone: forgotten, or left to the handler that has its request.
Dropped(c) == IF c.pc = "opening" THEN [c EXCEPT !.pc = "abandoned"] ELSE NoConnection

\* remove_forwarding_rule: cancel and abort; the socket is closed when the task is
\* dropped, and of its connections, which are tasks of their own, any may go on.
RemoveForwardingRule(r) ==
  /\ forwarding[r] # "none"
  /\ forwarding' = [forwarding EXCEPT ![r] = "none"]
  /\ \E killed \in SUBSET {t \in Tcp : tcp[t].rule = r /\ tcp[t].pc # "abandoned"} :
       tcp' = [t \in Tcp |-> IF t \in killed THEN Dropped(tcp[t]) ELSE tcp[t]]
  /\ releasing' = IF forwarding[r] = "bound" THEN releasing \cup {r.port} ELSE releasing
  /\ UNCHANGED <<allowed, conn, inVars, requests, pending, inflight>>

\* The runtime drops the aborted task and with it the socket.
Release(port) ==
  /\ port \in releasing
  /\ releasing' = releasing \ {port}
  /\ UNCHANGED <<allowed, conn, inVars, forwarding, tcp, requests, pending, inflight>>

\* forward_port_to_peer accepts a TCP connection and its task opens a stream: the request
\* goes into the channel of a connection that is there or is dialled for it, which needs
\* no trust in the peer.
Accept(t, r) ==
  /\ tcp[t].pc = "none" /\ forwarding[r] = "bound"
  /\ tcp' = [tcp EXCEPT ![t] = [pc |-> "opening", rule |-> r, got |-> {}]]
  /\ conn' = conn \cup {r.peer}
  /\ requests' = [requests EXCEPT ![r.peer] = Append(@, t)]
  /\ UNCHANGED <<allowed, inVars, forwarding, releasing, pending, inflight>>

PollAlways(p) ==
  /\ p \in conn /\ requests[p] # << >>
  /\ pending' = [pending EXCEPT ![p] = Head(requests[p])]
  /\ requests' = [requests EXCEPT ![p] = Tail(@)]
  /\ inflight' = [inflight EXCEPT ![p] = @ \cup {tcp[Head(requests[p])].rule.protocol}]
  /\ tcp' = [tcp EXCEPT ![pending[p]] = IF pending[p] = NoTcp THEN @ ELSE NoConnection]
  /\ UNCHANGED <<allowed, conn, inVars, forwarding, releasing>>

\* Handler::poll: nothing while an upgrade is pending, otherwise the next request.
Poll(p) ==
  /\ p \in conn /\ pending[p] = NoTcp /\ requests[p] # << >>
  /\ pending' = [pending EXCEPT ![p] = Head(requests[p])]
  /\ requests' = [requests EXCEPT ![p] = Tail(@)]
  /\ inflight' = [inflight EXCEPT ![p] = @ \cup {tcp[Head(requests[p])].rule.protocol}]
  /\ UNCHANGED <<allowed, conn, inVars, forwarding, releasing, tcp>>

\* FullyNegotiatedOutbound: the stream goes to whoever is in pending_upgrade, and nowhere
\* when that caller is gone.
Negotiated(p, pr) ==
  /\ pr \in inflight[p] /\ pending[p] # NoTcp
  /\ tcp' = [tcp EXCEPT ![pending[p]] =
       IF @.pc = "abandoned" THEN NoConnection ELSE [@ EXCEPT !.pc = "piped", !.got = {pr}]]
  /\ pending' = [pending EXCEPT ![p] = NoTcp]
  /\ inflight' = [inflight EXCEPT ![p] = @ \ {pr}]
  /\ UNCHANGED <<allowed, conn, inVars, forwarding, releasing, requests>>

NegotiationFailsKept(p, pr) ==
  /\ pr \in inflight[p] /\ pending[p] # NoTcp
  /\ tcp' = [tcp EXCEPT ![pending[p]] = NoConnection]
  /\ inflight' = [inflight EXCEPT ![p] = @ \ {pr}]
  /\ UNCHANGED <<allowed, conn, inVars, forwarding, releasing, requests, pending>>

\* DialUpgradeError: the peer does not serve the protocol, refuses, or times out; the
\* caller gets the error and hangs up.
NegotiationFails(p, pr) ==
  /\ pr \in inflight[p] /\ pending[p] # NoTcp
  /\ tcp' = [tcp EXCEPT ![pending[p]] = NoConnection]
  /\ pending' = [pending EXCEPT ![p] = NoTcp]
  /\ inflight' = [inflight EXCEPT ![p] = @ \ {pr}]
  /\ UNCHANGED <<allowed, conn, inVars, forwarding, releasing, requests>>

\* copy_bidirectional ends.
Hangup(t) ==
  /\ tcp[t].pc = "piped"
  /\ tcp' = [tcp EXCEPT ![t] = NoConnection]
  /\ UNCHANGED <<allowed, conn, inVars, forwarding, releasing, requests, pending, inflight>>

-----------------------------------------------------------------------------
Init ==
  /\ allowed \in SUBSET Peer
  /\ conn = {}
  /\ listening = {} /\ listeners = {}
  /\ queue = [pr \in Protocol |-> << >>]
  /\ stream = [s \in Stream |-> NoStream]
  /\ forwarding = [r \in FRule |-> "none"]
  /\ releasing = {}
  /\ tcp = [t \in Tcp |-> NoConnection]
  /\ requests = [p \in Peer |-> << >>]
  /\ pending = [p \in Peer |-> NoTcp]
  /\ inflight = [p \in Peer |-> {}]

Next ==
  \/ \E p \in Peer : Connected(p) \/ Close(p) \/ Authorize(p) \/ Revoke(p)
  \/ \E s \in Stream, p \in Peer, pr \in Protocol : Arrive(s, p, pr)
  \/ \E s \in Stream : Upgrade(s) \/ Deliver(s) \/ ServeEnd(s)
  \/ \E r \in LRule : Take(r) \/ AddListeningRule(r) \/ RemoveListeningRule(r)
  \/ \E r \in FRule : AddForwardingRule(r) \/ Bind(r) \/ RemoveForwardingRule(r)
  \/ \E port \in {r.port : r \in FRule} : Release(port)
  \/ \E t \in Tcp, r \in FRule : Accept(t, r)
  \/ \E t \in Tcp : Hangup(t)
  \/ \E p \in Peer : Poll(p)
  \/ \E p \in Peer, pr \in Protocol : Negotiated(p, pr) \/ NegotiationFails(p, pr)

Spec == Init /\ [][Next]_vars

\* The connection task polls its handler when it is woken, and
\* libp2p ends every substream negotiation, at the latest with its timeout.
Fairness ==
  /\ \A p \in Peer : WF_vars(Poll(p))
  /\ \A p \in Peer : WF_vars(\E pr \in Protocol : Negotiated(p, pr) \/ NegotiationFails(p, pr))

FairSpec == Spec /\ Fairness

-----------------------------------------------------------------------------
\* upgrade.rs: "Authorize here, before the stream is exposed to protocol code."  A stream
\* reaches a service only if its peer was trusted at some moment since the stream arrived,
\* also over a connection this node dialled and that needed no trust.
NoServiceWithoutTrust ==
  \A s \in Stream : stream[s].pc \in {"queued", "served"} => stream[s].trusted

\* A TCP connection is piped into a stream of the protocol of its rule, though the handler
\* gives a negotiated stream to whoever is in pending_upgrade (handler.rs, debug_assert_eq).
RightProtocol ==
  \A t \in Tcp : tcp[t].pc = "piped" => tcp[t].got = {tcp[t].rule.protocol}

\* Every TCP connection a forwarding task accepts gets its stream or an error: no request
\* is left behind in a handler that remembers a single caller, nor in a closed connection.
OpenAnswered ==
  \A t \in Tcp : (tcp[t].pc = "opening") ~> (tcp[t].pc # "opening")
=============================================================================
