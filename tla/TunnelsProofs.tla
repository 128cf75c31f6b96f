---------------------------- MODULE TunnelsProofs ----------------------------
(***************************************************************************)
(* For any number of peers, protocols, rules, streams and TCP connections  *)
(* and any capacity of the listener channels: no stream of a peer that was *)
(* not trusted reaches a service, and no TCP connection is joined to a     *)
(* stream of another protocol.                                             *)
(***************************************************************************)
EXTENDS Tunnels, TLAPS

Variables ==
  /\ allowed \subseteq Peer
  /\ conn \subseteq Peer
  /\ listening \subseteq LRule
  /\ listeners \subseteq Protocol
  /\ stream \in [Stream -> InboundStream \cup {NoStream}]
  /\ queue \in [Protocol -> Seq(Stream)]
  /\ forwarding \in [FRule -> {"none", "binding", "bound", "dead"}]
  /\ releasing \subseteq {r.port : r \in FRule}
  /\ tcp \in [Tcp -> TcpConnection]
  /\ requests \in [Peer -> Seq(Tcp)]
  /\ pending \in [Peer -> Tcp \cup {NoTcp}]
  /\ inflight \in [Peer -> SUBSET Protocol]

\* A stream that has passed the upgrade had a trusted peer.
TrustInv ==
  \A s \in Stream : stream[s].pc \in {"upgraded", "queued", "served"} => stream[s].trusted

\* A peer is trusted at the arrival of its streams or later, if it is trusted now.
TrustedSince ==
  \A s \in Stream : stream[s].pc # "none" /\ stream[s].peer \in allowed => stream[s].trusted

\* x waits in the channel of pr.
Waiting(st, x, pr) == st[x].pc = "queued" /\ st[x].protocol = pr

\* The channel q of pr holds each of the streams that wait in it once.
Holds(q, st, pr) ==
  /\ Len(q) <= Capacity
  /\ \A i \in 1 .. Len(q) : Waiting(st, q[i], pr)
  /\ \A i, j \in 1 .. Len(q) : q[i] = q[j] => i = j
  /\ \A x \in Stream : Waiting(st, x, pr) => \E i \in 1 .. Len(q) : q[i] = x

QueueInv == \A pr \in Protocol : Holds(queue[pr], stream, pr)

\* A TCP connection, or what is left of one, that has asked p for a stream.
Asks(tc, t, p) ==
  tc[t].pc \in {"opening", "abandoned"} /\ tc[t].rule \in FRule /\ tc[t].rule.peer = p

\* The connection to p: a caller waits once, in the channel q or in pending_upgrade, and what
\* is being negotiated is the protocol of the caller in pending_upgrade.
Line(q, caller, protocols, tc, p) ==
  /\ \A i \in 1 .. Len(q) : Asks(tc, q[i], p) /\ q[i] # caller
  /\ \A i, j \in 1 .. Len(q) : q[i] = q[j] => i = j
  /\ caller # NoTcp => Asks(tc, caller, p)
  /\ protocols = IF caller = NoTcp THEN {} ELSE {tc[caller].rule.protocol}

RequestInv == \A p \in Peer : Line(requests[p], pending[p], inflight[p], tcp, p)

IInv == Variables /\ TrustInv /\ TrustedSince /\ QueueInv /\ RequestInv /\ RightProtocol

-----------------------------------------------------------------------------
\* Append, by its elements: a send to a listener channel or a request of
\* open_stream puts one element behind those that wait.
LEMMA AppendFacts ==
  ASSUME NEW S, NEW q \in Seq(S), NEW x \in S
  PROVE  /\ Append(q, x) \in Seq(S) /\ Len(Append(q, x)) = Len(q) + 1
         /\ \A i \in 1 .. Len(q) : Append(q, x)[i] = q[i]
         /\ Append(q, x)[Len(q) + 1] = x
  OBVIOUS

\* Head and Tail, by their elements: a receiver takes the first of those that
\* wait and leaves the others in their order.
LEMMA TailFacts ==
  ASSUME NEW S, NEW q \in Seq(S), q # << >>
  PROVE  /\ Len(q) \in Nat /\ Len(q) > 0 /\ Head(q) = q[1] /\ Head(q) \in S
         /\ Tail(q) \in Seq(S) /\ Len(Tail(q)) = Len(q) - 1
         /\ \A i \in 1 .. Len(Tail(q)) : i + 1 \in 1 .. Len(q) /\ Tail(q)[i] = q[i + 1]
  OBVIOUS

\* A stream that does not exist is in none of the stages of its arrival.
LEMMA NoStreamFacts == NoStream.pc = "none"
  BY DEF NoStream

-----------------------------------------------------------------------------
\* A channel that is not touched goes on holding its streams, as long as no
\* stream starts or stops waiting in it.
LEMMA HoldsSame ==
  ASSUME NEW q \in Seq(Stream), NEW st, NEW su, NEW pr, Holds(q, st, pr),
         \A x \in Stream : Waiting(su, x, pr) <=> Waiting(st, x, pr)
  PROVE  Holds(q, su, pr)
  BY DEF Holds

\* A stream sent to the channel of its protocol, which has room, is held by it
\* from then on, once.
LEMMA HoldsAppend ==
  ASSUME NEW q \in Seq(Stream), NEW st, NEW su, NEW pr, Holds(q, st, pr),
         NEW s \in Stream, Len(q) < Capacity, ~ Waiting(st, s, pr), Waiting(su, s, pr),
         \A x \in Stream \ {s} : Waiting(su, x, pr) <=> Waiting(st, x, pr)
  PROVE  Holds(Append(q, s), su, pr)
<1>1. PICK c \in Seq(Stream) : c = Append(q, s)
  BY AppendFacts
<1>2. /\ Len(c) = Len(q) + 1 /\ Len(q) \in Nat
      /\ \A i \in 1 .. Len(q) : c[i] = q[i]
      /\ c[Len(q) + 1] = s
  BY <1>1, AppendFacts
<1>3. \A i \in 1 .. Len(q) : q[i] # s
  BY DEF Holds
<1>4. Len(c) <= Capacity
  BY <1>2, CapacityAssumption
<1>5. \A i \in 1 .. Len(c) : Waiting(su, c[i], pr)
  BY <1>2, <1>3 DEF Holds
<1>6. \A i, j \in 1 .. Len(c) : c[i] = c[j] => i = j
  BY <1>2, <1>3 DEF Holds
<1>7. \A x \in Stream : Waiting(su, x, pr) => \E i \in 1 .. Len(c) : c[i] = x
  BY <1>2 DEF Holds
<1> QED
  BY <1>1, <1>4, <1>5, <1>6, <1>7 DEF Holds

\* The stream a listening rule receives is no longer held, and the others are.
LEMMA HoldsTail ==
  ASSUME NEW q \in Seq(Stream), NEW st, NEW su, NEW pr, Holds(q, st, pr), q # << >>,
         ~ Waiting(su, Head(q), pr),
         \A x \in Stream \ {Head(q)} : Waiting(su, x, pr) <=> Waiting(st, x, pr)
  PROVE  Holds(Tail(q), su, pr)
<1>1. PICK c \in Seq(Stream) : c = Tail(q)
  BY TailFacts
<1>2. /\ Len(q) \in Nat /\ Len(q) > 0 /\ Head(q) = q[1]
      /\ Len(c) = Len(q) - 1
      /\ \A i \in 1 .. Len(c) : i + 1 \in 1 .. Len(q) /\ c[i] = q[i + 1]
  BY <1>1, TailFacts
<1>3. \A i \in 1 .. Len(c) : c[i] # Head(q)
  BY <1>2 DEF Holds
<1>4. Len(c) <= Capacity
  BY <1>2, CapacityAssumption DEF Holds
<1>5. \A i \in 1 .. Len(c) : Waiting(su, c[i], pr)
  <2>1. \A i \in 1 .. Len(c) : c[i] \in Stream
    OBVIOUS
  <2>2. \A i \in 1 .. Len(c) : Waiting(st, c[i], pr)
    BY <1>2 DEF Holds
  <2> QED
    BY <1>3, <2>1, <2>2
<1>6. \A i, j \in 1 .. Len(c) : c[i] = c[j] => i = j
  BY <1>2 DEF Holds
<1>7. \A x \in Stream : Waiting(su, x, pr) => \E i \in 1 .. Len(c) : c[i] = x
  <2> SUFFICES ASSUME NEW x \in Stream, Waiting(su, x, pr) PROVE \E i \in 1 .. Len(c) : c[i] = x
    OBVIOUS
  <2>1. PICK i \in 1 .. Len(q) : q[i] = x
    BY DEF Holds
  <2>2. i # 1
    BY <1>2, <2>1
  <2>3. i - 1 \in 1 .. Len(c) /\ c[i - 1] = x
    BY <1>2, <2>1, <2>2
  <2> QED
    BY <2>3
<1> QED
  BY <1>1, <1>4, <1>5, <1>6, <1>7 DEF Holds

\* An empty channel holds its streams if no stream waits in it: at the start,
\* and after the receiver was dropped with its rule.
LEMMA HoldsNothing ==
  ASSUME NEW su, NEW pr, \A x \in Stream : ~ Waiting(su, x, pr)
  PROVE  Holds(<< >>, su, pr)
  BY CapacityAssumption DEF Holds

-----------------------------------------------------------------------------
\* The serving side.
ServeInv ==
  /\ stream \in [Stream -> InboundStream \cup {NoStream}]
  /\ queue \in [Protocol -> Seq(Stream)]
  /\ TrustInv
  /\ QueueInv

\* A step that touches neither the streams nor the channels keeps the serving
\* side.
LEMMA ServeSame ==
  ASSUME ServeInv, UNCHANGED <<stream, queue>>
  PROVE  ServeInv'
  BY DEF ServeInv, TrustInv, QueueInv

\* A step keeps the serving side if it leaves the channels alone and changes
\* only streams that are in none of them, before and after, and none that has
\* passed the upgrade without trust.
LEMMA ServeApart ==
  ASSUME ServeInv, queue' = queue, stream' \in [Stream -> InboundStream \cup {NoStream}],
         \A s \in Stream : stream'[s] # stream[s] =>
            /\ stream[s].pc # "queued" /\ stream'[s].pc # "queued"
            /\ stream'[s].pc \in {"upgraded", "served"} => stream'[s].trusted
  PROVE  ServeInv'
<1>1. \A s \in Stream, pr \in Protocol : Waiting(stream', s, pr) <=> Waiting(stream, s, pr)
  BY DEF Waiting
<1>2. QueueInv'
  BY <1>1, HoldsSame DEF ServeInv, QueueInv
<1>3. TrustInv'
  BY DEF ServeInv, TrustInv
<1> QED
  BY <1>2, <1>3 DEF ServeInv

\* The behaviour hands an upgraded stream to the channel of its protocol, or
\* drops it because the channel is full or gone: the serving side keeps its
\* invariant.
LEMMA DeliverServe ==
  ASSUME ServeInv, NEW s \in Stream, Deliver(s)
  PROVE  ServeInv'
<1>1. PICK z : z = stream[s]
  OBVIOUS
<1>2. z \in InboundStream /\ z.pc = "upgraded" /\ z.protocol \in Protocol /\ z.trusted
  BY <1>1, NoStreamFacts DEF Deliver, InboundStream, ServeInv, TrustInv
<1>3. CASE ~ (z.protocol \in listeners /\ Len(queue[z.protocol]) < Capacity)
  <2>1. stream' = [stream EXCEPT ![s] = NoStream] /\ queue' = queue
    BY <1>1, <1>3 DEF Deliver
  <2>2. stream' \in [Stream -> InboundStream \cup {NoStream}]
    BY <2>1 DEF ServeInv
  <2> QED
    BY <1>1, <1>2, <2>1, <2>2, NoStreamFacts, ServeApart DEF ServeInv
<1>4. CASE z.protocol \in listeners /\ Len(queue[z.protocol]) < Capacity
  <2>1. PICK pr \in Protocol : pr = z.protocol
    BY <1>2
  <2>2. PICK y : y = [z EXCEPT !.pc = "queued"]
    OBVIOUS
  <2>3. y \in InboundStream /\ y.pc = "queued" /\ y.protocol = pr /\ y.trusted
    BY <1>2, <2>1, <2>2 DEF InboundStream
  <2>4. PICK q \in Seq(Stream) : q = queue[pr]
    BY DEF ServeInv
  <2>5. /\ stream' = [stream EXCEPT ![s] = y]
        /\ queue' = [queue EXCEPT ![pr] = Append(q, s)]
    BY <1>1, <1>4, <2>1, <2>2, <2>4 DEF Deliver
  <2>6. /\ stream' \in [Stream -> InboundStream \cup {NoStream}]
        /\ queue' \in [Protocol -> Seq(Stream)]
    BY <2>3, <2>5, AppendFacts DEF ServeInv
  <2>7. TrustInv'
    BY <2>3, <2>5 DEF ServeInv, TrustInv
  <2>8. ASSUME NEW o \in Protocol PROVE Holds(queue'[o], stream', o)
    <3>1. Holds(queue[o], stream, o) /\ ~ Waiting(stream, s, o) /\ queue[o] \in Seq(Stream)
      BY <1>1, <1>2 DEF ServeInv, QueueInv, Waiting
    <3>2. \A x \in Stream \ {s} : Waiting(stream', x, o) <=> Waiting(stream, x, o)
      BY <2>5 DEF Waiting, ServeInv
    <3>3. CASE o = pr
      <4>1. Waiting(stream', s, o) /\ queue'[o] = Append(q, s) /\ q = queue[o] /\ Len(q) < Capacity
        BY <1>4, <2>1, <2>3, <2>4, <2>5, <3>3 DEF Waiting, ServeInv
      <4> QED
        BY <3>1, <3>2, <4>1, HoldsAppend
    <3>4. CASE o # pr
      <4>1. ~ Waiting(stream', s, o) /\ queue'[o] = queue[o]
        BY <2>3, <2>5, <3>4 DEF Waiting, ServeInv
      <4> QED
        BY <3>1, <3>2, <4>1, HoldsSame
    <3> QED
      BY <3>3, <3>4
  <2> QED
    BY <2>6, <2>7, <2>8 DEF ServeInv, QueueInv
<1> QED
  BY <1>3, <1>4

\* A listening rule takes the first stream of its channel and joins it to the
\* service: the stream passed the upgrade, so its peer was trusted.
LEMMA TakeServe ==
  ASSUME ServeInv, NEW r \in LRule, Take(r)
  PROVE  ServeInv'
<1>1. PICK pr \in Protocol : pr = r.protocol
  BY RulesAssumption
<1>2. PICK q \in Seq(Stream) : q = queue[pr]
  BY DEF ServeInv
<1>3. q # << >>
  BY <1>1, <1>2 DEF Take
<1>4. PICK s \in Stream : s = Head(q)
  BY <1>3, TailFacts
<1>5. Waiting(stream, s, pr)
  BY <1>2, <1>3, <1>4, TailFacts DEF ServeInv, QueueInv, Holds
<1>6. PICK z : z = stream[s]
  OBVIOUS
<1>7. z \in InboundStream /\ z.pc = "queued" /\ z.protocol = pr /\ z.trusted
  BY <1>5, <1>6, NoStreamFacts DEF Waiting, ServeInv, TrustInv
<1>8. PICK y : y = [z EXCEPT !.pc = "served"]
  OBVIOUS
<1>9. y \in InboundStream /\ y.pc = "served" /\ y.trusted
  BY <1>7, <1>8 DEF InboundStream
<1>10. stream' = [stream EXCEPT ![s] = y] /\ queue' = [queue EXCEPT ![pr] = Tail(q)]
  BY <1>1, <1>2, <1>4, <1>6, <1>8 DEF Take
<1>11. /\ stream' \in [Stream -> InboundStream \cup {NoStream}]
       /\ queue' \in [Protocol -> Seq(Stream)]
  BY <1>3, <1>9, <1>10, TailFacts DEF ServeInv
<1>12. TrustInv'
  BY <1>9, <1>10 DEF ServeInv, TrustInv
<1>13. ASSUME NEW o \in Protocol PROVE Holds(queue'[o], stream', o)
  <2>1. Holds(queue[o], stream, o) /\ ~ Waiting(stream', s, o) /\ queue[o] \in Seq(Stream)
    BY <1>9, <1>10 DEF ServeInv, QueueInv, Waiting
  <2>2. \A x \in Stream \ {s} : Waiting(stream', x, o) <=> Waiting(stream, x, o)
    BY <1>10 DEF Waiting, ServeInv
  <2>3. CASE o = pr
    <3>1. queue'[o] = Tail(q) /\ q = queue[o]
      BY <1>2, <1>10, <2>3 DEF ServeInv
    <3> QED
      BY <1>3, <1>4, <2>1, <2>2, <3>1, HoldsTail
  <2>4. CASE o # pr
    <3>1. ~ Waiting(stream, s, o) /\ queue'[o] = queue[o]
      BY <1>6, <1>7, <1>10, <2>4 DEF Waiting, ServeInv
    <3> QED
      BY <2>1, <2>2, <3>1, HoldsSame
  <2> QED
    BY <2>3, <2>4
<1> QED
  BY <1>11, <1>12, <1>13 DEF ServeInv, QueueInv

\* Removing a listening rule drops the receiver and with it every stream that
\* waits in the channel: no other channel holds one of them.
LEMMA RemoveServe ==
  ASSUME ServeInv, NEW r \in LRule, RemoveListeningRule(r)
  PROVE  ServeInv'
<1>1. PICK pr \in Protocol : pr = r.protocol
  BY RulesAssumption
<1>2. /\ stream' = [s \in Stream |-> IF Waiting(stream, s, pr) THEN NoStream ELSE stream[s]]
      /\ queue' = [queue EXCEPT ![pr] = << >>]
  BY <1>1 DEF RemoveListeningRule, StreamsWithout, Waiting
<1>3. /\ stream' \in [Stream -> InboundStream \cup {NoStream}]
      /\ queue' \in [Protocol -> Seq(Stream)]
  BY <1>2 DEF ServeInv
<1>4. TrustInv'
  BY <1>2, NoStreamFacts DEF ServeInv, TrustInv
<1>5. ASSUME NEW o \in Protocol PROVE Holds(queue'[o], stream', o)
  <2>1. Holds(queue[o], stream, o) /\ queue[o] \in Seq(Stream)
    BY DEF ServeInv, QueueInv
  <2>2. CASE o = pr
    <3>1. queue'[o] = << >> /\ \A x \in Stream : ~ Waiting(stream', x, o)
      BY <1>2, <2>2, NoStreamFacts DEF Waiting, ServeInv
    <3> QED
      BY <3>1, HoldsNothing
  <2>3. CASE o # pr
    <3>1. /\ queue'[o] = queue[o]
          /\ \A x \in Stream : Waiting(stream', x, o) <=> Waiting(stream, x, o)
      BY <1>2, <2>3, NoStreamFacts DEF Waiting, ServeInv
    <3> QED
      BY <2>1, <3>1, HoldsSame
  <2> QED
    BY <2>2, <2>3
<1> QED
  BY <1>3, <1>4, <1>5 DEF ServeInv, QueueInv

-----------------------------------------------------------------------------
\* The forwarding side.
OpenInv ==
  /\ tcp \in [Tcp -> TcpConnection]
  /\ requests \in [Peer -> Seq(Tcp)]
  /\ pending \in [Peer -> Tcp \cup {NoTcp}]
  /\ inflight \in [Peer -> SUBSET Protocol]
  /\ RequestInv
  /\ RightProtocol

\* A TCP connection that does not exist asks for no stream.
LEMMA NoConnectionFacts == NoConnection \in TcpConnection /\ NoConnection.pc = "none"
  BY DEF NoConnection, TcpConnection

\* The line of a peer is untouched by steps after which every connection that
\* asks for a stream of this peer still does, under the same rule.
LEMMA LineSame ==
  ASSUME NEW q \in Seq(Tcp), NEW caller \in Tcp \cup {NoTcp}, NEW protocols, NEW tc, NEW td,
         NEW p, Line(q, caller, protocols, tc, p),
         \A t \in Tcp : Asks(tc, t, p) => Asks(td, t, p) /\ td[t].rule = tc[t].rule
  PROVE  Line(q, caller, protocols, td, p)
<1>1. \A i \in 1 .. Len(q) : q[i] \in Tcp
  OBVIOUS
<1> QED
  BY <1>1 DEF Line

\* A peer that nobody has asked keeps its line trivially: at the start, and
\* after its connection was closed.
LEMMA LineEmpty ==
  ASSUME NEW tc, NEW p
  PROVE  Line(<< >>, NoTcp, {}, tc, p)
  BY DEF Line

\* open_stream puts a caller that has not asked before at the end of the line.
LEMMA LineAppend ==
  ASSUME NEW q \in Seq(Tcp), NEW caller \in Tcp \cup {NoTcp}, NEW protocols, NEW tc, NEW td,
         NEW p, Line(q, caller, protocols, tc, p),
         NEW t \in Tcp, ~ Asks(tc, t, p), Asks(td, t, p),
         \A x \in Tcp \ {t} : td[x] = tc[x]
  PROVE  Line(Append(q, t), caller, protocols, td, p)
<1>1. PICK c \in Seq(Tcp) : c = Append(q, t)
  BY AppendFacts
<1>2. /\ Len(c) = Len(q) + 1 /\ Len(q) \in Nat
      /\ \A i \in 1 .. Len(q) : c[i] = q[i] /\ q[i] \in Tcp
      /\ c[Len(q) + 1] = t
  BY <1>1, AppendFacts
<1>3. t # caller /\ \A i \in 1 .. Len(q) : q[i] # t
  BY RulesAssumption DEF Line
<1>4. \A x \in Tcp \ {t} : Asks(tc, x, p) => Asks(td, x, p)
  BY DEF Asks
<1>5. \A i \in 1 .. Len(c) : Asks(td, c[i], p) /\ c[i] # caller
  BY <1>2, <1>3, <1>4 DEF Line
<1>6. \A i, j \in 1 .. Len(c) : c[i] = c[j] => i = j
  BY <1>2, <1>3 DEF Line
<1>7. /\ caller # NoTcp => Asks(td, caller, p)
      /\ protocols = IF caller = NoTcp THEN {} ELSE {td[caller].rule.protocol}
  BY <1>3, <1>4 DEF Line
<1> QED
  BY <1>1, <1>5, <1>6, <1>7 DEF Line

\* The handler takes the first caller of the line when no other is being
\* negotiated; what it negotiates is that caller's protocol.
LEMMA LinePoll ==
  ASSUME NEW q \in Seq(Tcp), q # << >>, NEW tc, NEW p, Line(q, NoTcp, {}, tc, p)
  PROVE  Line(Tail(q), Head(q), {tc[Head(q)].rule.protocol}, tc, p)
<1>1. PICK c \in Seq(Tcp) : c = Tail(q)
  BY TailFacts
<1>2. PICK t \in Tcp : t = Head(q)
  BY TailFacts
<1>3. /\ Len(q) \in Nat /\ Len(q) > 0 /\ t = q[1] /\ Len(c) = Len(q) - 1
      /\ \A i \in 1 .. Len(c) : i + 1 \in 1 .. Len(q) /\ c[i] = q[i + 1]
  BY <1>1, <1>2, TailFacts
<1>4. t # NoTcp /\ Asks(tc, t, p)
  BY <1>3, RulesAssumption DEF Line
<1>5. \A i \in 1 .. Len(c) : Asks(tc, c[i], p) /\ c[i] # t
  BY <1>3 DEF Line
<1>6. \A i, j \in 1 .. Len(c) : c[i] = c[j] => i = j
  BY <1>3 DEF Line
<1> QED
  BY <1>1, <1>2, <1>4, <1>5, <1>6 DEF Line

\* The caller in pending_upgrade is answered and the handler is free; whatever
\* became of that caller, the others wait as before.
LEMMA LineAnswer ==
  ASSUME NEW q \in Seq(Tcp), NEW caller \in Tcp, NEW protocols, NEW tc, NEW td, NEW p,
         Line(q, caller, protocols, tc, p), \A x \in Tcp \ {caller} : td[x] = tc[x]
  PROVE  Line(q, NoTcp, {}, td, p)
<1>1. \A i \in 1 .. Len(q) : q[i] \in Tcp \ {caller}
  BY DEF Line
<1> QED
  BY <1>1, RulesAssumption DEF Line, Asks

\* A step that touches neither the TCP connections nor the requests for streams
\* keeps the forwarding side.
LEMMA OpenSame ==
  ASSUME OpenInv, UNCHANGED <<tcp, requests, pending, inflight>>
  PROVE  OpenInv'
  BY DEF OpenInv, RequestInv, RightProtocol

\* A TCP connection that waits for no stream may end, and the task of one that
\* waits may be dropped: what it asked for stays in the line, abandoned, so the
\* forwarding side keeps its invariant.
LEMMA OpenEnds ==
  ASSUME OpenInv, UNCHANGED <<requests, pending, inflight>>, tcp' \in [Tcp -> TcpConnection],
         \A t \in Tcp : \/ tcp'[t] = tcp[t]
                        \/ tcp'[t] = NoConnection /\ tcp[t].pc \notin {"opening", "abandoned"}
                        \/ /\ tcp[t].pc = "opening" /\ tcp'[t].pc = "abandoned"
                           /\ tcp'[t].rule = tcp[t].rule
  PROVE  OpenInv'
<1>1. \A t \in Tcp, p \in Peer :
        Asks(tcp, t, p) => Asks(tcp', t, p) /\ tcp'[t].rule = tcp[t].rule
  BY DEF Asks
<1>2. RequestInv'
  BY <1>1, LineSame DEF OpenInv, RequestInv
<1>3. RightProtocol'
  BY NoConnectionFacts DEF OpenInv, RightProtocol
<1> QED
  BY <1>2, <1>3 DEF OpenInv

\* A connection accepted by a forwarding rule has asked for nothing before; it
\* puts its request at the end of the line of the rule's peer.
LEMMA AcceptOpen ==
  ASSUME OpenInv, NEW t \in Tcp, NEW r \in FRule, Accept(t, r)
  PROVE  OpenInv'
<1>1. PICK p \in Peer : p = r.peer
  BY RulesAssumption
<1>2. PICK y : y = [pc |-> "opening", rule |-> r, got |-> {}]
  OBVIOUS
<1>3. y \in TcpConnection /\ y.pc = "opening" /\ y.rule = r
  BY <1>2 DEF TcpConnection
<1>4. /\ tcp' = [tcp EXCEPT ![t] = y] /\ UNCHANGED <<pending, inflight>>
      /\ requests' = [requests EXCEPT ![p] = Append(requests[p], t)]
      /\ tcp[t].pc = "none"
  BY <1>1, <1>2 DEF Accept
<1>5. requests[p] \in Seq(Tcp)
  BY DEF OpenInv
<1>6. tcp' \in [Tcp -> TcpConnection] /\ requests' \in [Peer -> Seq(Tcp)]
  BY <1>3, <1>4, <1>5, AppendFacts DEF OpenInv
<1>7. RightProtocol'
  BY <1>3, <1>4 DEF OpenInv, RightProtocol
<1>8. ASSUME NEW o \in Peer PROVE Line(requests'[o], pending'[o], inflight'[o], tcp', o)
  <2>1. /\ Line(requests[o], pending[o], inflight[o], tcp, o) /\ ~ Asks(tcp, t, o)
        /\ requests[o] \in Seq(Tcp) /\ pending[o] \in Tcp \cup {NoTcp}
        /\ \A x \in Tcp \ {t} : tcp'[x] = tcp[x]
    BY <1>4 DEF OpenInv, RequestInv, Asks
  <2>2. CASE o = p
    <3>1. Asks(tcp', t, o) /\ requests'[o] = Append(requests[o], t)
      BY <1>1, <1>3, <1>4, <2>2 DEF Asks, OpenInv
    <3>2. Line(Append(requests[o], t), pending[o], inflight[o], tcp', o)
      BY <2>1, <3>1, LineAppend
    <3> QED
      BY <1>4, <3>1, <3>2
  <2>3. CASE o # p
    <3>1. requests'[o] = requests[o]
      BY <1>4, <2>3 DEF OpenInv
    <3>2. \A x \in Tcp : Asks(tcp, x, o) => Asks(tcp', x, o) /\ tcp'[x].rule = tcp[x].rule
      BY <2>1 DEF Asks
    <3>3. Line(requests[o], pending[o], inflight[o], tcp', o)
      BY <2>1, <3>2, LineSame
    <3> QED
      BY <1>4, <3>1, <3>3
  <2> QED
    BY <2>2, <2>3
<1> QED
  BY <1>4, <1>6, <1>7, <1>8 DEF OpenInv, RequestInv

\* The handler of a connection takes the next caller and starts to negotiate
\* its protocol.
LEMMA PollOpen ==
  ASSUME OpenInv, NEW p \in Peer, Poll(p)
  PROVE  OpenInv'
<1>1. PICK q \in Seq(Tcp) : q = requests[p]
  BY DEF OpenInv
<1>2. q # << >> /\ pending[p] = NoTcp /\ Line(q, NoTcp, {}, tcp, p) /\ inflight[p] = {}
  BY <1>1 DEF Poll, OpenInv, RequestInv, Line
<1>3. PICK t \in Tcp : t = Head(q)
  BY <1>2, TailFacts
<1>4. Asks(tcp, t, p)
  BY <1>2, <1>3, TailFacts DEF Line
<1>5. PICK pr \in Protocol : pr = tcp[t].rule.protocol
  BY <1>4, RulesAssumption DEF Asks
<1>6. /\ pending' = [pending EXCEPT ![p] = t] /\ tcp' = tcp
      /\ requests' = [requests EXCEPT ![p] = Tail(q)]
      /\ inflight' = [inflight EXCEPT ![p] = {pr}]
  BY <1>1, <1>2, <1>3, <1>5 DEF Poll, OpenInv
<1>7. /\ pending' \in [Peer -> Tcp \cup {NoTcp}] /\ requests' \in [Peer -> Seq(Tcp)]
      /\ inflight' \in [Peer -> SUBSET Protocol]
  BY <1>2, <1>6, TailFacts DEF OpenInv
<1>8. ASSUME NEW o \in Peer PROVE Line(requests'[o], pending'[o], inflight'[o], tcp', o)
  <2>1. CASE o = p
    <3>1. requests'[o] = Tail(q) /\ pending'[o] = Head(q) /\ inflight'[o] = {tcp[Head(q)].rule.protocol}
      BY <1>3, <1>5, <1>6, <2>1 DEF OpenInv
    <3>2. Line(Tail(q), Head(q), {tcp[Head(q)].rule.protocol}, tcp, p)
      BY <1>2, LinePoll
    <3> QED
      BY <1>6, <2>1, <3>1, <3>2
  <2>2. CASE o # p
    BY <1>6, <2>2 DEF OpenInv, RequestInv
  <2> QED
    BY <2>1, <2>2
<1> QED
  BY <1>6, <1>7, <1>8 DEF OpenInv, RequestInv, RightProtocol

\* The caller in pending_upgrade gets y: a stream of the protocol that was
\* negotiated, which is its own, or an error.
LEMMA AnswerOpen ==
  ASSUME OpenInv, NEW p \in Peer, NEW pr \in inflight[p], pending[p] # NoTcp,
         NEW y \in TcpConnection,
         y.pc \in {"none", "piped"},
         y.pc = "piped" => y.rule = tcp[pending[p]].rule /\ y.got = {pr},
         tcp' = [tcp EXCEPT ![pending[p]] = y],
         pending' = [pending EXCEPT ![p] = NoTcp],
         inflight' = [inflight EXCEPT ![p] = @ \ {pr}],
         requests' = requests
  PROVE  OpenInv'
<1>1. PICK t \in Tcp : t = pending[p]
  BY DEF OpenInv
<1>2. /\ Line(requests[p], t, inflight[p], tcp, p) /\ Asks(tcp, t, p)
      /\ inflight[p] = {tcp[t].rule.protocol} /\ inflight'[p] = {}
  BY <1>1 DEF OpenInv, RequestInv, Line
<1>3. /\ tcp' \in [Tcp -> TcpConnection] /\ tcp'[t] = y
      /\ \A x \in Tcp \ {t} : tcp'[x] = tcp[x]
      /\ pending' \in [Peer -> Tcp \cup {NoTcp}] /\ inflight' \in [Peer -> SUBSET Protocol]
  BY <1>1 DEF OpenInv
<1>4. RightProtocol'
  BY <1>1, <1>2, <1>3 DEF OpenInv, RightProtocol
<1>5. ASSUME NEW o \in Peer PROVE Line(requests'[o], pending'[o], inflight'[o], tcp', o)
  <2>1. /\ Line(requests[o], pending[o], inflight[o], tcp, o)
        /\ requests[o] \in Seq(Tcp) /\ pending[o] \in Tcp \cup {NoTcp}
    BY DEF OpenInv, RequestInv
  <2>2. CASE o = p
    <3>1. pending'[o] = NoTcp /\ inflight'[o] = {} /\ requests'[o] = requests[o]
      BY <1>2, <2>2 DEF OpenInv
    <3>2. Line(requests[o], NoTcp, {}, tcp', o)
      BY <1>1, <1>3, <2>1, <2>2, LineAnswer
    <3> QED
      BY <3>1, <3>2
  <2>3. CASE o # p
    <3>1. pending'[o] = pending[o] /\ inflight'[o] = inflight[o] /\ requests'[o] = requests[o]
      BY <2>3 DEF OpenInv
    <3>2. \A x \in Tcp : Asks(tcp, x, o) => Asks(tcp', x, o) /\ tcp'[x].rule = tcp[x].rule
      BY <1>2, <1>3, <2>3 DEF Asks
    <3>3. Line(requests[o], pending[o], inflight[o], tcp', o)
      BY <2>1, <3>2, LineSame
    <3> QED
      BY <3>1, <3>3
  <2> QED
    BY <2>2, <2>3
<1> QED
  BY <1>3, <1>4, <1>5 DEF OpenInv, RequestInv

\* A negotiation that succeeds gives its stream to the caller in
\* pending_upgrade, which asked for this protocol.
LEMMA NegotiatedOpen ==
  ASSUME OpenInv, NEW p \in Peer, NEW pr \in Protocol, Negotiated(p, pr)
  PROVE  OpenInv'
<1>1. PICK t \in Tcp : t = pending[p]
  BY DEF OpenInv, Negotiated
<1>2. PICK z \in TcpConnection : z = tcp[t]
  BY DEF OpenInv
<1>3. CASE z.pc = "abandoned"
  BY <1>1, <1>2, <1>3, AnswerOpen, NoConnectionFacts DEF Negotiated
<1>4. CASE z.pc # "abandoned"
  <2>1. PICK y : y = [z EXCEPT !.pc = "piped", !.got = {pr}]
    OBVIOUS
  <2>2. y \in TcpConnection /\ y.pc = "piped" /\ y.rule = z.rule /\ y.got = {pr}
    BY <2>1 DEF TcpConnection
  <2>3. tcp' = [tcp EXCEPT ![pending[p]] = y]
    BY <1>1, <1>2, <1>4, <2>1 DEF Negotiated
  <2> QED
    BY <1>1, <1>2, <2>2, <2>3, AnswerOpen DEF Negotiated
<1> QED
  BY <1>3, <1>4

\* A negotiation that fails answers the caller in pending_upgrade with an error
\* and nobody else.
LEMMA NegotiationFailsOpen ==
  ASSUME OpenInv, NEW p \in Peer, NEW pr \in Protocol, NegotiationFails(p, pr)
  PROVE  OpenInv'
  BY AnswerOpen, NoConnectionFacts DEF NegotiationFails

\* Closing the connection to a peer ends its streams that no channel holds and
\* empties its line, whose callers all get an error: both sides keep their
\* invariant.
LEMMA CloseInvs ==
  ASSUME ServeInv, OpenInv, NEW p \in Peer, Close(p)
  PROVE  ServeInv' /\ OpenInv'
<1>1. PICK ended \in SUBSET Stream :
        ended = {s \in Stream : stream[s].peer = p /\ stream[s].pc \in {"offered", "upgraded", "served"}}
  OBVIOUS
<1>2. /\ stream' = [s \in Stream |-> IF s \in ended THEN NoStream ELSE stream[s]]
      /\ queue' = queue
  BY <1>1 DEF Close
<1>3. ServeInv'
  <2>1. stream' \in [Stream -> InboundStream \cup {NoStream}]
    BY <1>2 DEF ServeInv
  <2> QED
    BY <1>1, <1>2, <2>1, NoStreamFacts, ServeApart
<1>4. PICK out : out = ToSet(requests[p]) \cup ({pending[p]} \ {NoTcp})
                         \cup {t \in Tcp : tcp[t].pc = "piped" /\ tcp[t].rule.peer = p}
  OBVIOUS
<1>5. /\ tcp' = [t \in Tcp |-> IF t \in out THEN NoConnection ELSE tcp[t]]
      /\ requests' = [requests EXCEPT ![p] = << >>]
      /\ pending' = [pending EXCEPT ![p] = NoTcp]
      /\ inflight' = [inflight EXCEPT ![p] = {}]
  BY <1>4 DEF Close
<1>6. /\ tcp' \in [Tcp -> TcpConnection] /\ requests' \in [Peer -> Seq(Tcp)]
      /\ pending' \in [Peer -> Tcp \cup {NoTcp}] /\ inflight' \in [Peer -> SUBSET Protocol]
  BY <1>5, NoConnectionFacts DEF OpenInv
<1>7. RightProtocol'
  BY <1>5, NoConnectionFacts DEF OpenInv, RightProtocol
<1>8. \A t \in out, o \in Peer \ {p} : ~ Asks(tcp, t, o)
  <2>1. Line(requests[p], pending[p], inflight[p], tcp, p) /\ requests[p] \in Seq(Tcp)
    BY DEF OpenInv, RequestInv
  <2>2. \A t \in ToSet(requests[p]) : Asks(tcp, t, p)
    BY <2>1 DEF Line, ToSet
  <2>3. \A t \in {pending[p]} \ {NoTcp} : Asks(tcp, t, p)
    BY <2>1 DEF Line
  <2> QED
    BY <1>4, <2>2, <2>3 DEF Asks
<1>9. ASSUME NEW o \in Peer PROVE Line(requests'[o], pending'[o], inflight'[o], tcp', o)
  <2>1. CASE o = p
    <3>1. requests'[o] = << >> /\ pending'[o] = NoTcp /\ inflight'[o] = {}
      BY <1>5, <2>1 DEF OpenInv
    <3> QED
      BY <3>1, LineEmpty
  <2>2. CASE o # p
    <3>1. /\ Line(requests[o], pending[o], inflight[o], tcp, o)
          /\ requests[o] \in Seq(Tcp) /\ pending[o] \in Tcp \cup {NoTcp}
      BY DEF OpenInv, RequestInv
    <3>2. pending'[o] = pending[o] /\ inflight'[o] = inflight[o] /\ requests'[o] = requests[o]
      BY <1>5, <2>2 DEF OpenInv
    <3>3. \A x \in Tcp : Asks(tcp, x, o) => Asks(tcp', x, o) /\ tcp'[x].rule = tcp[x].rule
      BY <1>5, <1>8, <2>2 DEF Asks
    <3> QED
      BY <3>1, <3>2, <3>3, LineSame
  <2> QED
    BY <2>1, <2>2
<1>10. OpenInv'
  BY <1>6, <1>7, <1>9 DEF OpenInv, RequestInv
<1> QED
  BY <1>3, <1>10

-----------------------------------------------------------------------------
\* Trusting a peer changes no stream that has passed the upgrade.
LEMMA AuthorizeServe ==
  ASSUME ServeInv, NEW p \in Peer, Authorize(p)
  PROVE  ServeInv'
<1>1. /\ stream' = [s \in Stream |-> IF stream[s].pc # "none" /\ stream[s].peer = p
                                     THEN [stream[s] EXCEPT !.trusted = TRUE] ELSE stream[s]]
      /\ queue' = queue
  BY DEF Authorize
<1>2. ASSUME NEW s \in Stream
      PROVE  /\ stream'[s] \in InboundStream \cup {NoStream}
             /\ stream'[s].pc = stream[s].pc /\ stream'[s].protocol = stream[s].protocol
             /\ stream[s].trusted => stream'[s].trusted
  <2>1. PICK z : z = stream[s]
    OBVIOUS
  <2>2. z \in InboundStream \cup {NoStream}
    BY <2>1 DEF ServeInv
  <2>3. CASE z.pc # "none" /\ z.peer = p
    <3>1. PICK y : y = [z EXCEPT !.trusted = TRUE]
      OBVIOUS
    <3>2. z \in InboundStream
      BY <2>2, <2>3, NoStreamFacts
    <3>3. y \in InboundStream /\ y.pc = z.pc /\ y.protocol = z.protocol /\ y.trusted
      BY <3>1, <3>2 DEF InboundStream
    <3> QED
      BY <1>1, <2>1, <2>3, <3>1, <3>3
  <2>4. CASE ~ (z.pc # "none" /\ z.peer = p)
    BY <1>1, <2>1, <2>2, <2>4
  <2> QED
    BY <2>3, <2>4
<1>3. stream' \in [Stream -> InboundStream \cup {NoStream}]
  BY <1>1, <1>2
<1>4. TrustInv'
  BY <1>2 DEF ServeInv, TrustInv
<1>5. \A x \in Stream, pr \in Protocol : Waiting(stream', x, pr) <=> Waiting(stream, x, pr)
  BY <1>2 DEF Waiting
<1>6. QueueInv'
  BY <1>1, <1>5, HoldsSame DEF ServeInv, QueueInv
<1> QED
  BY <1>1, <1>3, <1>4, <1>6 DEF ServeInv

\* The stream that Arrive creates.
Arrived(p, pr) ==
  [NoStream EXCEPT !.pc = "offered", !.peer = p, !.protocol = pr,
                   !.offered = listeners, !.trusted = p \in allowed]

\* A stream that arrives is recorded with its peer and with whether that peer
\* is trusted at this moment.
LEMMA ArrivedFacts ==
  ASSUME Variables, NEW p \in Peer, NEW pr \in Protocol
  PROVE  /\ Arrived(p, pr) \in InboundStream
         /\ Arrived(p, pr).pc = "offered" /\ Arrived(p, pr).peer = p
         /\ p \in allowed => Arrived(p, pr).trusted
<1>1. PICK b \in BOOLEAN : b = (p \in allowed)
  <2>1. CASE p \in allowed
    <3>1. (p \in allowed) = TRUE
      BY <2>1
    <3> QED
      BY <3>1, Zenon
  <2>2. CASE p \notin allowed
    <3>1. (p \in allowed) = FALSE
      BY <2>2
    <3> QED
      BY <3>1, Zenon
  <2> QED
    BY <2>1, <2>2
<1>2. PICK snapshot \in SUBSET Protocol : snapshot = listeners
  BY DEF Variables
<1>3. PICK y : y = [NoStream EXCEPT !.pc = "offered", !.peer = p, !.protocol = pr,
                                    !.offered = snapshot, !.trusted = b]
  OBVIOUS
<1>4. y \in InboundStream /\ y.pc = "offered" /\ y.peer = p /\ y.trusted = b
  BY <1>3 DEF NoStream, InboundStream
<1>5. y = Arrived(p, pr)
  BY <1>1, <1>2, <1>3, Zenon DEF Arrived
<1>6. p \in allowed => y.trusted
  BY <1>1, <1>4
<1> QED
  BY <1>4, <1>5, <1>6

\* A stream that arrives is in no channel yet and has not passed the upgrade.
LEMMA ArriveServe ==
  ASSUME ServeInv, Variables, NEW s \in Stream, NEW p \in Peer, NEW pr \in Protocol,
         Arrive(s, p, pr)
  PROVE  ServeInv'
<1>1. PICK y : y = Arrived(p, pr)
  OBVIOUS
<1>2. y \in InboundStream /\ y.pc = "offered"
  BY <1>1, ArrivedFacts
<1>3. stream' = [stream EXCEPT ![s] = y] /\ queue' = queue /\ stream[s].pc = "none"
  BY <1>1 DEF Arrive, Arrived
<1>4. stream' \in [Stream -> InboundStream \cup {NoStream}]
  BY <1>2, <1>3 DEF ServeInv
<1> QED
  BY <1>2, <1>3, <1>4, ServeApart DEF ServeInv

\* The upgrade asks the allow list at its own moment and lets the stream pass
\* only if the peer is in it: this is where the trust of a served stream comes
\* from, since a peer that is trusted now was trusted since the stream arrived.
LEMMA UpgradeServe ==
  ASSUME ServeInv, TrustedSince, NEW s \in Stream, Upgrade(s)
  PROVE  ServeInv'
<1>1. PICK z : z = stream[s]
  OBVIOUS
<1>2. z \in InboundStream /\ z.pc = "offered"
  BY <1>1, NoStreamFacts DEF Upgrade, ServeInv
<1>3. CASE ~ (Registered(z.protocol) /\ Authorized(z.peer))
  <2>1. stream' = [stream EXCEPT ![s] = NoStream] /\ queue' = queue
    BY <1>1, <1>3 DEF Upgrade
  <2>2. stream' \in [Stream -> InboundStream \cup {NoStream}]
    BY <2>1 DEF ServeInv
  <2> QED
    BY <1>1, <1>2, <2>1, <2>2, NoStreamFacts, ServeApart DEF ServeInv
<1>4. CASE Registered(z.protocol) /\ Authorized(z.peer)
  <2>1. PICK y : y = [z EXCEPT !.pc = "upgraded"]
    OBVIOUS
  <2>2. y \in InboundStream /\ y.pc = "upgraded" /\ y.trusted = z.trusted
    BY <1>2, <2>1 DEF InboundStream
  <2>3. z.trusted
    BY <1>1, <1>2, <1>4 DEF TrustedSince, Authorized
  <2>4. stream' = [stream EXCEPT ![s] = y] /\ queue' = queue
    BY <1>1, <1>4, <2>1 DEF Upgrade
  <2>5. stream' \in [Stream -> InboundStream \cup {NoStream}]
    BY <2>2, <2>4 DEF ServeInv
  <2> QED
    BY <1>1, <1>2, <2>2, <2>3, <2>4, <2>5, ServeApart DEF ServeInv
<1> QED
  BY <1>3, <1>4

\* The end of a served stream leaves the channels alone.
LEMMA ServeEndServe ==
  ASSUME ServeInv, NEW s \in Stream, ServeEnd(s)
  PROVE  ServeInv'
<1>1. stream' = [stream EXCEPT ![s] = NoStream] /\ queue' = queue /\ stream[s].pc = "served"
  BY DEF ServeEnd
<1>2. stream' \in [Stream -> InboundStream \cup {NoStream}]
  BY <1>1 DEF ServeInv
<1> QED
  BY <1>1, <1>2, NoStreamFacts, ServeApart DEF ServeInv

-----------------------------------------------------------------------------
\* A stream that only moves to its next stage keeps its peer and its trust.
LEMMA PcOnly ==
  ASSUME NEW z \in InboundStream, NEW c \in {"none", "offered", "upgraded", "queued", "served"}
  PROVE  /\ [z EXCEPT !.pc = c] \in InboundStream
         /\ [z EXCEPT !.pc = c].peer = z.peer
         /\ z.trusted => [z EXCEPT !.pc = c].trusted
  BY DEF InboundStream

\* TrustedSince survives a step that creates no stream and trusts no new peer,
\* if no stream forgets its trust.
LEMMA TrustedKept ==
  ASSUME TrustedSince, allowed' \subseteq allowed,
         \A s \in Stream : stream'[s].pc # "none" =>
            /\ stream[s].pc # "none" /\ stream'[s].peer = stream[s].peer
            /\ stream[s].trusted => stream'[s].trusted
  PROVE  TrustedSince'
  BY DEF TrustedSince

\* TrustedSince survives a step that ends one stream or moves it to another
\* stage.
LEMMA TrustedMoved ==
  ASSUME ServeInv, TrustedSince, allowed' = allowed, NEW s \in Stream, stream[s].pc # "none",
         NEW c \in {"none", "offered", "upgraded", "queued", "served"},
         stream' = [stream EXCEPT ![s] = [@ EXCEPT !.pc = c]]
         \/ stream' = [stream EXCEPT ![s] = NoStream]
  PROVE  TrustedSince'
<1>1. CASE stream' = [stream EXCEPT ![s] = NoStream]
  BY <1>1, NoStreamFacts, TrustedKept DEF ServeInv
<1>2. CASE stream' = [stream EXCEPT ![s] = [@ EXCEPT !.pc = c]]
  <2>1. PICK z \in InboundStream : z = stream[s]
    BY NoStreamFacts DEF ServeInv
  <2>2. PICK y : y = [z EXCEPT !.pc = c]
    OBVIOUS
  <2>3. y.peer = z.peer /\ (z.trusted => y.trusted)
    BY <2>2, PcOnly
  <2>4. stream' = [stream EXCEPT ![s] = y]
    BY <1>2, <2>1, <2>2
  <2>5. \A x \in Stream : stream'[x] = IF x = s THEN y ELSE stream[x]
    BY <2>4 DEF ServeInv
  <2> QED
    BY <2>1, <2>3, <2>5, TrustedKept
<1> QED
  BY <1>1, <1>2

\* The stream a listening rule takes is the first of the channel and was
\* waiting in it.
LEMMA TakeHead ==
  ASSUME ServeInv, NEW r \in LRule, Take(r)
  PROVE  \E s \in Stream : s = Head(queue[r.protocol]) /\ stream[s].pc = "queued"
<1>1. PICK pr \in Protocol : pr = r.protocol
  BY RulesAssumption
<1>2. PICK q \in Seq(Stream) : q = queue[pr]
  BY DEF ServeInv
<1>3. q # << >> /\ Holds(q, stream, pr)
  BY <1>1, <1>2 DEF Take, ServeInv, QueueInv
<1>4. Head(q) \in Stream /\ Waiting(stream, Head(q), pr)
  BY <1>3, TailFacts DEF Holds
<1> QED
  BY <1>1, <1>2, <1>4 DEF Waiting

\* Every step keeps the record of trust: streams arrive with the trust of their
\* peer, and a peer that becomes trusted makes its streams trusted.
LEMMA TrustedNext ==
  ASSUME ServeInv, Variables, TrustedSince, Next
  PROVE  TrustedSince'
<1>1. ASSUME NEW p \in Peer, Close(p) PROVE TrustedSince'
  BY <1>1, NoStreamFacts, TrustedKept DEF Close
<1>2. ASSUME NEW p \in Peer, Authorize(p) PROVE TrustedSince'
  <2>1. ASSUME NEW s \in Stream, stream[s].pc # "none", stream[s].peer = p
        PROVE  stream'[s].trusted
    <3>1. PICK z \in InboundStream : z = stream[s]
      BY <2>1, NoStreamFacts DEF ServeInv
    <3>2. stream'[s] = [z EXCEPT !.trusted = TRUE]
      BY <1>2, <2>1, <3>1 DEF Authorize
    <3> QED
      BY <3>2 DEF InboundStream
  <2>2. ASSUME NEW s \in Stream
        PROVE  stream'[s].pc = stream[s].pc /\ stream'[s].peer = stream[s].peer
               /\ (stream[s].pc = "none" \/ stream[s].peer # p => stream'[s] = stream[s])
    <3>1. PICK z : z = stream[s]
      OBVIOUS
    <3>2. CASE z.pc # "none" /\ z.peer = p
      <4>1. z \in InboundStream /\ stream'[s] = [z EXCEPT !.trusted = TRUE]
        BY <1>2, <3>1, <3>2, NoStreamFacts DEF Authorize, ServeInv
      <4> QED
        BY <3>1, <3>2, <4>1 DEF InboundStream
    <3>3. CASE ~ (z.pc # "none" /\ z.peer = p)
      BY <1>2, <3>1, <3>3 DEF Authorize
    <3> QED
      BY <3>2, <3>3
  <2>3. allowed' = allowed \cup {p}
    BY <1>2 DEF Authorize
  <2> QED
    BY <2>1, <2>2, <2>3 DEF TrustedSince
<1>3. ASSUME NEW s \in Stream, NEW p \in Peer, NEW pr \in Protocol, Arrive(s, p, pr)
      PROVE  TrustedSince'
  <2>1. PICK y : y = Arrived(p, pr)
    OBVIOUS
  <2>2. y.peer = p /\ (p \in allowed => y.trusted)
    BY <2>1, ArrivedFacts
  <2>3. stream' = [stream EXCEPT ![s] = y] /\ allowed' = allowed
    BY <1>3, <2>1 DEF Arrive, Arrived
  <2>4. \A x \in Stream : stream'[x] = IF x = s THEN y ELSE stream[x]
    BY <2>3 DEF ServeInv
  <2> QED
    BY <2>2, <2>3, <2>4 DEF TrustedSince
<1>4. ASSUME NEW s \in Stream, Upgrade(s) PROVE TrustedSince'
  BY <1>4, TrustedMoved DEF Upgrade
<1>5. ASSUME NEW s \in Stream, Deliver(s) PROVE TrustedSince'
  BY <1>5, TrustedMoved DEF Deliver
<1>6. ASSUME NEW s \in Stream, ServeEnd(s) PROVE TrustedSince'
  BY <1>6, TrustedMoved DEF ServeEnd
<1>7. ASSUME NEW r \in LRule, Take(r) PROVE TrustedSince'
  <2>1. PICK s \in Stream : s = Head(queue[r.protocol]) /\ stream[s].pc = "queued"
    BY <1>7, TakeHead
  <2>2. stream[s].pc # "none"
    BY <2>1
  <2>3. stream' = [stream EXCEPT ![s] = [@ EXCEPT !.pc = "served"]] /\ allowed' = allowed
    BY <1>7, <2>1 DEF Take
  <2> QED
    BY <2>2, <2>3, TrustedMoved
<1>8. ASSUME NEW r \in LRule, RemoveListeningRule(r) PROVE TrustedSince'
  BY <1>8, NoStreamFacts, TrustedKept DEF RemoveListeningRule, StreamsWithout
<1>9. ASSUME stream' = stream, allowed' \subseteq allowed PROVE TrustedSince'
  BY <1>9, TrustedKept
<1>10. ASSUME NEW p \in Peer, Connected(p) \/ Revoke(p) \/ Poll(p) PROVE TrustedSince'
  BY <1>9, <1>10 DEF Connected, Revoke, Poll, inVars
<1>11. ASSUME NEW r \in LRule, AddListeningRule(r) PROVE TrustedSince'
  BY <1>9, <1>11 DEF AddListeningRule
<1>12. ASSUME NEW r \in FRule, AddForwardingRule(r) \/ Bind(r) \/ RemoveForwardingRule(r)
       PROVE  TrustedSince'
  BY <1>9, <1>12 DEF AddForwardingRule, Bind, RemoveForwardingRule, inVars
<1>13. ASSUME NEW port, Release(port) PROVE TrustedSince'
  BY <1>9, <1>13 DEF Release, inVars
<1>14. ASSUME NEW t \in Tcp, NEW r \in FRule, Accept(t, r) PROVE TrustedSince'
  BY <1>9, <1>14 DEF Accept, inVars
<1>15. ASSUME NEW t \in Tcp, Hangup(t) PROVE TrustedSince'
  BY <1>9, <1>15 DEF Hangup, inVars
<1>16. ASSUME NEW p \in Peer, NEW pr \in Protocol, Negotiated(p, pr) \/ NegotiationFails(p, pr)
       PROVE  TrustedSince'
  BY <1>9, <1>16 DEF Negotiated, NegotiationFails, inVars
<1> QED
  BY <1>1, <1>2, <1>3, <1>4, <1>5, <1>6, <1>7, <1>8, <1>10, <1>11, <1>12, <1>13, <1>14, <1>15,
     <1>16 DEF Next

-----------------------------------------------------------------------------
\* Every step keeps the serving side: the channels hold what was sent to them,
\* and no stream that passed the upgrade lacks trust.
LEMMA ServeNext ==
  ASSUME ServeInv, OpenInv, Variables, TrustedSince, Next
  PROVE  ServeInv'
<1>1. ASSUME NEW p \in Peer, Close(p) PROVE ServeInv'
  BY <1>1, CloseInvs
<1>2. ASSUME NEW p \in Peer, Authorize(p) PROVE ServeInv'
  BY <1>2, AuthorizeServe
<1>3. ASSUME NEW p \in Peer, Connected(p) \/ Revoke(p) \/ Poll(p) PROVE ServeInv'
  BY <1>3, ServeSame DEF Connected, Revoke, Poll, inVars
<1>4. ASSUME NEW s \in Stream, NEW p \in Peer, NEW pr \in Protocol, Arrive(s, p, pr)
      PROVE  ServeInv'
  BY <1>4, ArriveServe
<1>5. ASSUME NEW s \in Stream, Upgrade(s) \/ Deliver(s) \/ ServeEnd(s) PROVE ServeInv'
  BY <1>5, UpgradeServe, DeliverServe, ServeEndServe
<1>6. ASSUME NEW r \in LRule, Take(r) \/ RemoveListeningRule(r) PROVE ServeInv'
  BY <1>6, TakeServe, RemoveServe
<1>7. ASSUME NEW r \in LRule, AddListeningRule(r) PROVE ServeInv'
  BY <1>7, ServeSame DEF AddListeningRule
<1>8. ASSUME NEW r \in FRule, AddForwardingRule(r) \/ Bind(r) \/ RemoveForwardingRule(r)
      PROVE  ServeInv'
  BY <1>8, ServeSame DEF AddForwardingRule, Bind, RemoveForwardingRule, inVars
<1>9. ASSUME NEW port, Release(port) PROVE ServeInv'
  BY <1>9, ServeSame DEF Release, inVars
<1>10. ASSUME NEW t \in Tcp, NEW r \in FRule, Accept(t, r) PROVE ServeInv'
  BY <1>10, ServeSame DEF Accept, inVars
<1>11. ASSUME NEW t \in Tcp, Hangup(t) PROVE ServeInv'
  BY <1>11, ServeSame DEF Hangup, inVars
<1>12. ASSUME NEW p \in Peer, NEW pr \in Protocol, Negotiated(p, pr) \/ NegotiationFails(p, pr)
       PROVE  ServeInv'
  BY <1>12, ServeSame DEF Negotiated, NegotiationFails, inVars
<1> QED
  BY <1>1, <1>2, <1>3, <1>4, <1>5, <1>6, <1>7, <1>8, <1>9, <1>10, <1>11, <1>12 DEF Next

\* Removing a forwarding rule may take the tasks of its connections with it; a
\* request that one of them has made stays in the line, abandoned.
LEMMA RemoveForwardingOpen ==
  ASSUME OpenInv, NEW r \in FRule, RemoveForwardingRule(r)
  PROVE  OpenInv'
<1>1. PICK killed \in SUBSET {t \in Tcp : tcp[t].rule = r /\ tcp[t].pc # "abandoned"} :
        tcp' = [t \in Tcp |-> IF t \in killed THEN Dropped(tcp[t]) ELSE tcp[t]]
  BY DEF RemoveForwardingRule
<1>2. ASSUME NEW t \in Tcp
      PROVE  /\ tcp'[t] \in TcpConnection
             /\ \/ tcp'[t] = tcp[t]
                \/ tcp'[t] = NoConnection /\ tcp[t].pc \notin {"opening", "abandoned"}
                \/ /\ tcp[t].pc = "opening" /\ tcp'[t].pc = "abandoned"
                   /\ tcp'[t].rule = tcp[t].rule
  <2>1. PICK z \in TcpConnection : z = tcp[t]
    BY DEF OpenInv
  <2>2. CASE t \notin killed
    BY <1>1, <2>1, <2>2
  <2>3. CASE t \in killed /\ z.pc # "opening"
    BY <1>1, <2>1, <2>3, NoConnectionFacts DEF Dropped
  <2>4. CASE t \in killed /\ z.pc = "opening"
    <3>1. PICK y : y = [z EXCEPT !.pc = "abandoned"]
      OBVIOUS
    <3>2. y \in TcpConnection /\ y.pc = "abandoned" /\ y.rule = z.rule
      BY <3>1 DEF TcpConnection
    <3>3. tcp'[t] = y
      BY <1>1, <2>1, <2>4, <3>1 DEF Dropped
    <3> QED
      BY <2>1, <2>4, <3>2, <3>3
  <2> QED
    BY <2>2, <2>3, <2>4
<1>3. tcp' \in [Tcp -> TcpConnection]
  BY <1>1, <1>2
<1>4. UNCHANGED <<requests, pending, inflight>>
  BY DEF RemoveForwardingRule
<1> QED
  BY <1>2, <1>3, <1>4, OpenEnds

\* A piped connection that ends waits for no stream.
LEMMA HangupOpen ==
  ASSUME OpenInv, NEW t \in Tcp, Hangup(t)
  PROVE  OpenInv'
<1>1. /\ tcp' = [tcp EXCEPT ![t] = NoConnection] /\ tcp[t].pc = "piped"
      /\ UNCHANGED <<requests, pending, inflight>>
  BY DEF Hangup
<1>2. tcp' \in [Tcp -> TcpConnection]
  BY <1>1, NoConnectionFacts DEF OpenInv
<1> QED
  BY <1>1, <1>2, OpenEnds DEF OpenInv

\* Every step keeps the forwarding side: each caller waits once, and what is
\* being negotiated is what the caller in pending_upgrade asked for.
LEMMA OpenNext ==
  ASSUME ServeInv, OpenInv, Next
  PROVE  OpenInv'
<1>1. ASSUME NEW p \in Peer, Close(p) PROVE OpenInv'
  BY <1>1, CloseInvs
<1>2. ASSUME NEW p \in Peer, Connected(p) \/ Authorize(p) \/ Revoke(p) PROVE OpenInv'
  BY <1>2, OpenSame DEF Connected, Authorize, Revoke, outVars
<1>3. ASSUME NEW p \in Peer, Poll(p) PROVE OpenInv'
  BY <1>3, PollOpen
<1>4. ASSUME NEW s \in Stream, NEW p \in Peer, NEW pr \in Protocol, Arrive(s, p, pr)
      PROVE  OpenInv'
  BY <1>4, OpenSame DEF Arrive, outVars
<1>5. ASSUME NEW s \in Stream, Upgrade(s) \/ Deliver(s) \/ ServeEnd(s) PROVE OpenInv'
  BY <1>5, OpenSame DEF Upgrade, Deliver, ServeEnd, outVars
<1>6. ASSUME NEW r \in LRule, Take(r) \/ AddListeningRule(r) \/ RemoveListeningRule(r)
      PROVE  OpenInv'
  BY <1>6, OpenSame DEF Take, AddListeningRule, RemoveListeningRule, outVars
<1>7. ASSUME NEW r \in FRule, AddForwardingRule(r) \/ Bind(r) PROVE OpenInv'
  BY <1>7, OpenSame DEF AddForwardingRule, Bind
<1>8. ASSUME NEW r \in FRule, RemoveForwardingRule(r) PROVE OpenInv'
  BY <1>8, RemoveForwardingOpen
<1>9. ASSUME NEW port, Release(port) PROVE OpenInv'
  BY <1>9, OpenSame DEF Release
<1>10. ASSUME NEW t \in Tcp, NEW r \in FRule, Accept(t, r) PROVE OpenInv'
  BY <1>10, AcceptOpen
<1>11. ASSUME NEW t \in Tcp, Hangup(t) PROVE OpenInv'
  BY <1>11, HangupOpen
<1>12. ASSUME NEW p \in Peer, NEW pr \in Protocol, Negotiated(p, pr) \/ NegotiationFails(p, pr)
       PROVE  OpenInv'
  BY <1>12, NegotiatedOpen, NegotiationFailsOpen
<1> QED
  BY <1>1, <1>2, <1>3, <1>4, <1>5, <1>6, <1>7, <1>8, <1>9, <1>10, <1>11, <1>12 DEF Next

\* The variables in neither part.
Others ==
  /\ allowed \subseteq Peer
  /\ conn \subseteq Peer
  /\ listening \subseteq LRule
  /\ listeners \subseteq Protocol
  /\ forwarding \in [FRule -> {"none", "binding", "bound", "dead"}]
  /\ releasing \subseteq {r.port : r \in FRule}

\* Every step keeps the types of the variables that neither side's argument
\* rests on: the allow list, the connections and the rules.
LEMMA OthersNext ==
  ASSUME Others, Next
  PROVE  Others'
<1> USE DEF Others
<1>1. ASSUME NEW p \in Peer, Close(p) \/ Connected(p) \/ Authorize(p) \/ Revoke(p) PROVE Others'
  BY <1>1 DEF Close, Connected, Authorize, Revoke, inVars, outVars
<1>2. ASSUME NEW p \in Peer, Poll(p) PROVE Others'
  BY <1>2 DEF Poll, inVars
<1>3. ASSUME NEW s \in Stream, NEW p \in Peer, NEW pr \in Protocol, Arrive(s, p, pr)
      PROVE  Others'
  BY <1>3 DEF Arrive, outVars
<1>4. ASSUME NEW s \in Stream, Upgrade(s) \/ Deliver(s) \/ ServeEnd(s) PROVE Others'
  BY <1>4 DEF Upgrade, Deliver, ServeEnd, outVars
<1>5. ASSUME NEW r \in LRule, Take(r) \/ RemoveListeningRule(r) PROVE Others'
  BY <1>5 DEF Take, RemoveListeningRule, outVars
<1>6. ASSUME NEW r \in LRule, AddListeningRule(r) PROVE Others'
  BY <1>6, RulesAssumption DEF AddListeningRule, outVars
<1>7. ASSUME NEW r \in FRule, AddForwardingRule(r) \/ Bind(r) PROVE Others'
  BY <1>7 DEF AddForwardingRule, Bind, inVars
<1>8. ASSUME NEW r \in FRule, RemoveForwardingRule(r) PROVE Others'
  BY <1>8 DEF RemoveForwardingRule, inVars
<1>9. ASSUME NEW port, Release(port) PROVE Others'
  BY <1>9 DEF Release, inVars
<1>10. ASSUME NEW t \in Tcp, NEW r \in FRule, Accept(t, r) PROVE Others'
  BY <1>10, RulesAssumption DEF Accept, inVars
<1>11. ASSUME NEW t \in Tcp, Hangup(t) PROVE Others'
  BY <1>11 DEF Hangup, inVars
<1>12. ASSUME NEW p \in Peer, NEW pr \in Protocol, Negotiated(p, pr) \/ NegotiationFails(p, pr)
       PROVE  Others'
  BY <1>12 DEF Negotiated, NegotiationFails, inVars
<1> QED
  BY <1>1, <1>2, <1>3, <1>4, <1>5, <1>6, <1>7, <1>8, <1>9, <1>10, <1>11, <1>12 DEF Next

-----------------------------------------------------------------------------
\* The invariant is the conjunction of the parts that the lemmas above treat
\* one by one.
LEMMA Parts == IInv <=> Others /\ ServeInv /\ TrustedSince /\ OpenInv
  BY DEF IInv, Variables, Others, ServeInv, OpenInv

\* A daemon that has just started, without rules, streams and connections,
\* satisfies the invariant.
LEMMA InitIInv == Init => IInv
<1> SUFFICES ASSUME Init PROVE IInv
  OBVIOUS
<1>1. Others
  BY DEF Init, Others
<1>2. ServeInv
  <2>1. \A s \in Stream : stream[s] = NoStream
    BY DEF Init
  <2>2. TrustInv
    BY <2>1, NoStreamFacts DEF TrustInv
  <2>3. QueueInv
    BY <2>1, NoStreamFacts, HoldsNothing DEF Init, QueueInv, Waiting
  <2> QED
    BY <2>2, <2>3 DEF Init, ServeInv
<1>3. TrustedSince
  BY NoStreamFacts DEF Init, TrustedSince
<1>4. OpenInv
  <2>1. RequestInv
    BY LineEmpty DEF Init, RequestInv
  <2> QED
    BY <2>1, NoConnectionFacts DEF Init, OpenInv, RightProtocol
<1> QED
  BY <1>1, <1>2, <1>3, <1>4, Parts

\* Every step of the behaviours, the rules and the peers keeps the invariant.
LEMMA NextIInv == IInv /\ [Next]_vars => IInv'
<1> SUFFICES ASSUME IInv, [Next]_vars PROVE IInv'
  OBVIOUS
<1>1. Variables /\ Others /\ ServeInv /\ TrustedSince /\ OpenInv
  BY Parts DEF IInv
<1>2. CASE Next
  <2>1. Others' /\ ServeInv' /\ TrustedSince' /\ OpenInv'
    BY <1>1, <1>2, OthersNext, ServeNext, TrustedNext, OpenNext
  <2> QED
    BY <2>1 DEF IInv, Variables, Others, ServeInv, OpenInv
<1>3. CASE UNCHANGED vars
  <2>1. UNCHANGED <<allowed, conn, listening, listeners, queue, stream>>
        /\ UNCHANGED <<forwarding, releasing, tcp, requests, pending, inflight>>
    BY <1>3 DEF vars, inVars, outVars
  <2>2. ServeInv' /\ OpenInv' /\ TrustedSince' /\ Others'
    BY <1>1, <2>1, ServeSame, OpenSame DEF TrustedSince, Others
  <2> QED
    BY <2>2 DEF IInv, Variables, Others, ServeInv, OpenInv
<1> QED
  BY <1>2, <1>3

\* The inductive invariant of the tunnels holds in every reachable state.
THEOREM Inductive == Spec => []IInv
  BY InitIInv, NextIInv, PTL DEF Spec

\* Rules, channels, streams, TCP connections and requests have their types in
\* every reachable state.
THEOREM TypeCorrect == Spec => []TypeOK
<1>1. IInv => TypeOK
  <2> SUFFICES ASSUME IInv PROVE TypeOK
    OBVIOUS
  <2>1. ASSUME NEW pr \in Protocol
        PROVE  ToSet(queue[pr]) = {s \in Stream : stream[s].pc = "queued" /\ stream[s].protocol = pr}
    <3>1. queue[pr] \in Seq(Stream) /\ Holds(queue[pr], stream, pr)
      BY DEF IInv, Variables, QueueInv
    <3>2. \A i \in 1 .. Len(queue[pr]) : queue[pr][i] \in Stream
      BY <3>1
    <3> QED
      BY <3>1, <3>2 DEF Holds, Waiting, ToSet
  <2>2. \A pr \in Protocol : queue[pr] \in Seq(Stream) /\ Len(queue[pr]) <= Capacity
    BY DEF IInv, Variables, QueueInv, Holds
  <2> QED
    BY <2>1, <2>2 DEF IInv, Variables, TypeOK
<1> QED
  BY <1>1, Inductive, PTL

\* A service only ever sees streams of peers that were trusted when the stream
\* arrived or later, whatever the order in which arrivals, upgrades,
\* deliveries, changes of trust and removals of rules interleave.
THEOREM ServiceTrusts == Spec => []NoServiceWithoutTrust
<1>1. IInv => NoServiceWithoutTrust
  BY DEF IInv, TrustInv, NoServiceWithoutTrust
<1> QED
  BY <1>1, Inductive, PTL

\* A TCP connection is never joined to a stream of another protocol than its
\* rule's, although the callers of one connection share one pending_upgrade and
\* a caller may give up while its stream is negotiated.
THEOREM ProtocolsMatch == Spec => []RightProtocol
<1>1. IInv => RightProtocol
  BY DEF IInv
<1> QED
  BY <1>1, Inductive, PTL

=============================================================================
