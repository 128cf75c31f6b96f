----------------------------- MODULE Connections -----------------------------
(***************************************************************************)
(* The connections between two nodes and the streams opened over them:     *)
(* SwarmControl::connect and open_stream (libp2p/control.rs), the table of *)
(* connections and observed streams (state/registry.rs), the event channel *)
(* that fills it (libp2p/runtime.rs) and the governance loop that closes   *)
(* connections it finds redundant (libp2p/governance.rs), all in           *)
(* crates/swarm/src.                                                       *)
(*                                                                         *)
(* Both ends run the same code and neither knows the other's table, so     *)
(* both are modelled.  The swarm, its event handler and the governance     *)
(* loop of a node are the branches of one select!, hence one task: a       *)
(* branch runs undisturbed by the others up to its next await.  Callers of *)
(* open_stream are tasks of their own.                                     *)
(***************************************************************************)
EXTENDS Naturals, Sequences, FiniteSets

CONSTANTS
  Node,         \* the two ends
  Conn,         \* connection ids, each used once
  Relayed,      \* those whose address goes through a relay
  Opener,       \* tasks that open streams
  Home,         \* [Opener -> Node]
  DirectKnown,  \* nodes that have a direct address of the other
  RelayKnown,   \* nodes that have relay peers
  Flaky,        \* connections that may fail or time out
  NoConn

\* The number of governance rounds (one every 60 seconds) after which the
\* grace period of 120 seconds is certainly over.
GraceRounds == 3

ASSUME ConnectionAssumption ==
  /\ IsFiniteSet(Node) /\ Cardinality(Node) = 2
  /\ Relayed \subseteq Conn
  /\ Flaky \subseteq Conn
  /\ Home \in [Opener -> Node]
  /\ DirectKnown \subseteq Node
  /\ RelayKnown \subseteq Node
  /\ NoConn \notin Conn
  /\ Conn \cap Opener = {}

VARIABLES
  dialed,    \* connections somebody dials or has dialed
  link,      \* [Node -> [Conn -> ...]]: the connections of a node's swarm
  events,    \* [Node -> Seq(event)]: the swarm_event channel
  table,     \* [Node -> Seq(Conn)]: State.connections, by established_at
  gov,       \* [Node -> [Conn -> governance record]]
  todo,      \* [Node -> Seq(plan)]: what is left of a closure plan
  open,      \* [Opener -> ...]: the progress of a call of open_stream
  observed,  \* openers whose stream is in stream_state
  late       \* [Node -> ...]: short operations the last round met in flight

vars == <<dialed, link, events, table, gov, todo, open, observed, late>>

Remote(n) == CHOOSE m \in Node : m # n
IsRelay(c) == c \in Relayed
IsDirect(c) == ~IsRelay(c)

LinkState == {"new", "up", "down"}
Event == [kind : {"established", "closed"}, conn : Conn]
GovernanceState == {"Unknown", "Recommended", "Deprecated", "Closing"}
\* The reason is that of a recommended connection, or the connection of a
\* lower_priority_reason; age counts the rounds since changed_at.
Governance == [state : GovernanceState,
               reason : {"none", "selected"} \cup Conn,
               age : 0..GraceRounds]
GovernanceAction == {"MarkDeprecated", "MarkClosing", "CloseNow"}
ConnectionClosurePlan == [conn : Conn, rec : Conn, action : GovernanceAction]
Phase == {"idle", "connect", "wait", "opening", "opened", "streaming"}
Call == [pc : Phase,
         conn : Conn \cup {NoConn},
         direct : {"none", "sent", "failed"},
         relay : {"none", "pending", "sent", "failed"}]

DefaultGovernance == [state |-> "Unknown", reason |-> "none", age |-> 0]
Idle == [pc |-> "idle", conn |-> NoConn, direct |-> "none", relay |-> "none"]

Entries(n) == {table[n][i] : i \in 1..Len(table[n])}

\* sort_by_strategy under the default strategy, PreferDirect: established_at
\* is the time of the insertion, so the table is sorted by it.
SortByStrategy(n) == SelectSeq(table[n], IsDirect) \o SelectSeq(table[n], IsRelay)
Best(n) == SortByStrategy(n)[1]

\* A round computes its plan and carries it out without an await up to the
\* first connection it closes.
Awake(n) == todo[n] # <<>> => Head(todo[n]).action = "CloseNow"
Undialed == Conn \ dialed

-----------------------------------------------------------------------------
(* The swarm and its events.                                               *)

Push(n, kind, c) ==
  events' = [events EXCEPT ![n] = Append(@, [kind |-> kind, conn |-> c])]

\* The handshake of c completes at n.
SwarmUp(n, c) ==
  /\ Awake(n)
  /\ c \in dialed
  /\ link[n][c] = "new"
  /\ link[Remote(n)][c] # "down"
  /\ link' = [link EXCEPT ![n][c] = "up"]
  /\ Push(n, "established", c)
  /\ UNCHANGED <<dialed, table, gov, todo, open, observed, late>>

\* The swarm of n finds c closed by the other end, broken or idle too long.
SwarmDown(n, c) ==
  /\ Awake(n)
  /\ link[n][c] = "up"
  /\ c \in Flaky \/ link[Remote(n)][c] = "down"
  /\ link' = [link EXCEPT ![n][c] = "down"]
  /\ Push(n, "closed", c)
  /\ UNCHANGED <<dialed, table, gov, todo, open, observed, late>>

\* DCUtR replaces a relayed connection by a direct one.
HolePunch(c) ==
  /\ IsDirect(c) /\ c \in Undialed
  /\ \E r \in Relayed : \A n \in Node : link[n][r] = "up"
  /\ dialed' = dialed \cup {c}
  /\ UNCHANGED <<link, events, table, gov, todo, open, observed, late>>

\* ConnectionIndexes::remove.
Without(connections, c) == SelectSeq(connections, LAMBDA d : d # c)

\* handle_connection_established, handle_connection_closed.
HandleEvent(n) ==
  /\ Awake(n)
  /\ events[n] # <<>>
  /\ events' = [events EXCEPT ![n] = Tail(@)]
  /\ LET c == Head(events[n]).conn
     IN \/ /\ Head(events[n]).kind = "established"
           /\ table' = [table EXCEPT ![n] = Append(@, c)]
           /\ UNCHANGED <<gov, observed>>
        \/ /\ Head(events[n]).kind = "closed"
           /\ observed' = {o \in observed : Home[o] # n \/ open[o].conn # c}
           /\ table' = [table EXCEPT ![n] = Without(@, c)]
           /\ gov' = [gov EXCEPT ![n][c] = DefaultGovernance]
  /\ UNCHANGED <<dialed, link, todo, open, late>>

-----------------------------------------------------------------------------
(* open_stream.                                                            *)

\* A call begins: one call of connect at a time holds the connect_lock of a
\* peer.  Up to here, where it may also give up, it has changed nothing.
AcquireConnectLock(o) ==
  /\ open[o].pc = "idle"
  /\ \A other \in Opener : Home[other] = Home[o] => open[other].pc \notin {"connect", "wait"}
  /\ open' = [open EXCEPT ![o].pc = "connect"]
  /\ UNCHANGED <<dialed, link, events, table, gov, todo, observed, late>>

\* connect returns; open_stream takes the first connection or gives up.
ConnectReturns(o) ==
  /\ open' = [open EXCEPT ![o] = IF table[Home[o]] = <<>> THEN Idle
                                 ELSE [Idle EXCEPT !.pc = "opening", !.conn = Best(Home[o])]]
  /\ late' = [late EXCEPT ![Home[o]] = @ \ {o}]

\* connect meets a connection, or knows no address to dial.
ConnectAtOnce(o) ==
  /\ open[o].pc = "connect"
  /\ table[Home[o]] # <<>> \/ Home[o] \notin DirectKnown \cup RelayKnown
  /\ ConnectReturns(o)
  /\ UNCHANGED <<dialed, link, events, table, gov, todo, observed>>

\* A submitted dial starts a connection or comes to nothing.
Dial(candidates) == \/ \E c \in Undialed \cap candidates : dialed' = dialed \cup {c}
                    \/ UNCHANGED dialed

WaitFor(o, direct) ==
  /\ open' = [open EXCEPT ![o].pc = "wait", ![o].direct = direct,
                          ![o].relay = IF Home[o] \in RelayKnown THEN "pending" ELSE "none"]
  /\ UNCHANGED late

\* connect has no connection: it submits the direct dial, if there are
\* addresses for it, and leaves the relay to a task of its own.
ConnectDials(o) ==
  /\ open[o].pc = "connect"
  /\ table[Home[o]] = <<>>
  /\ \/ /\ Home[o] \in DirectKnown
        /\ \/ Dial(Conn \ Relayed) /\ WaitFor(o, "sent")
           \/ /\ UNCHANGED dialed
              /\ IF Home[o] \in RelayKnown THEN WaitFor(o, "failed") ELSE ConnectReturns(o)
     \/ /\ Home[o] \in RelayKnown \ DirectKnown
        /\ UNCHANGED dialed
        /\ WaitFor(o, "none")
  /\ UNCHANGED <<link, events, table, gov, todo, observed>>

\* spawn_relay_dial_task: at once, or DIRECT_DIAL_TIMEOUT after the direct dial.
DialRelay(o) ==
  /\ open[o].pc = "wait" /\ open[o].relay = "pending"
  /\ \/ Dial(Relayed) /\ open' = [open EXCEPT ![o].relay = "sent"]
     \/ UNCHANGED dialed /\ open' = [open EXCEPT ![o].relay = "failed"]
  /\ UNCHANGED <<link, events, table, gov, todo, observed, late>>

\* The predicate of wait_for_state: a submitted direct dial is preferred to a
\* relayed connection that is already there.
Satisfied(o) ==
  IF open[o].direct = "sent" THEN \E c \in Entries(Home[o]) : IsDirect(c)
  ELSE table[Home[o]] # <<>> \/ open[o].relay = "failed"

\* Mutant: wait_for_state without its deadline.
WaitEndsOnlyConnected(o) ==
  /\ open[o].pc = "wait"
  /\ Satisfied(o)
  /\ ConnectReturns(o)
  /\ UNCHANGED <<dialed, link, events, table, gov, todo, observed>>

\* wait_for_state ends; CONNECT_TIMEOUT is longer than DIRECT_DIAL_TIMEOUT.
WaitEnds(o) ==
  /\ open[o].pc = "wait"
  /\ Satisfied(o) \/ open[o].relay # "pending"
  /\ ConnectReturns(o)
  /\ UNCHANGED <<dialed, link, events, table, gov, todo, observed>>

\* open_stream_by_id: the connection is gone, or negotiation fails or times out.
OpenFails(o) ==
  /\ open[o].pc = "opening"
  /\ open' = [open EXCEPT ![o] = Idle]
  /\ UNCHANGED <<dialed, link, events, table, gov, todo, observed, late>>

OpenSucceeds(o) ==
  /\ open[o].pc = "opening"
  /\ \A n \in Node : link[n][open[o].conn] = "up"
  /\ open' = [open EXCEPT ![o].pc = "opened"]
  /\ UNCHANGED <<dialed, link, events, table, gov, todo, observed, late>>

\* The table may have lost the connection since connect read it.
TrackOutboundStreamOpened(o) ==
  /\ open[o].pc = "opened"
  /\ open' = [open EXCEPT ![o].pc = "streaming"]
  /\ observed' = observed \cup {o}
  /\ UNCHANGED <<dialed, link, events, table, gov, todo, late>>

\* The stream and its StreamObservationHandle are dropped: mark_stream_closed.
StreamEnds(o) ==
  /\ open[o].pc = "streaming"
  /\ open' = [open EXCEPT ![o] = Idle]
  /\ observed' = observed \ {o}
  /\ UNCHANGED <<dialed, link, events, table, gov, todo, late>>

-----------------------------------------------------------------------------
(* The governance loop.                                                    *)

\* update_connection_governance: an update that changes nothing keeps
\* changed_at.
Updated(g, state, reason) ==
  [state |-> state, reason |-> reason,
   age |-> IF g.state # state \/ g.reason # reason THEN 0 ELSE g.age]

\* Nothing reads the changed_at of a connection that is not deprecated.
Aged(g) == [g EXCEPT !.age = IF g.state = "Deprecated" /\ @ < GraceRounds THEN @ + 1 ELSE @]

\* Mutant: active streams do not count.
ActionWhateverActive(g, rec, active, long) ==
  IF g.reason # rec \/ g.state \in {"Unknown", "Recommended"} THEN "MarkDeprecated"
  ELSE IF g.state = "Closing" THEN "CloseNow"
  ELSE IF long THEN "MarkClosing"
  ELSE "None"

\* next_governance_action; `long' is the answer of deprecated_long_enough.
NextGovernanceAction(g, rec, active, long) ==
  IF active \/ g.reason # rec \/ g.state \in {"Unknown", "Recommended"} THEN "MarkDeprecated"
  ELSE IF g.state = "Closing" THEN "CloseNow"
  ELSE IF long THEN "MarkClosing"
  ELSE "None"

\* active_streams_by_connection.
Active(n, c) == \E o \in observed : Home[o] = n /\ open[o].conn = c

\* Mutant: the last of the connections is left out.
ClosurePlanShort(n, selected, g, long) ==
  LET rec == selected[1]
      Plan(c) == [conn |-> c, rec |-> rec,
                  action |-> NextGovernanceAction(g[c], rec, Active(n, c), c \in long)]
      plans == [i \in 1..Len(selected) - 2 |-> Plan(selected[i + 1])]
  IN SelectSeq(plans, LAMBDA p : p.action # "None")

\* build_connection_closure_plan.
ClosurePlan(n, selected, g, long) ==
  LET rec == selected[1]
      Plan(c) == [conn |-> c, rec |-> rec,
                  action |-> NextGovernanceAction(g[c], rec, Active(n, c), c \in long)]
      plans == [i \in 1..Len(selected) - 1 |-> Plan(selected[i + 1])]
  IN SelectSeq(plans, LAMBDA p : p.action # "None")

InFlight(n) == {o \in Opener : Home[o] = n /\ open[o].pc \in {"opening", "opened"}}
                 \cup {c \in Conn : {link[m][c] : m \in Node} = {"new", "up"}}

\* A round of connection_governance_loop, up to its plan.  Handshakes and
\* negotiations end within 10 seconds, so no round finds one that the round
\* before it has met.  Two rounds after it was set, changed_at is 120 seconds
\* old give or take the delays of either round.
GovernanceRound(n) ==
  /\ todo[n] = <<>>
  /\ InFlight(n) \cap late[n] = {}
  /\ late' = [late EXCEPT ![n] = InFlight(n)]
  /\ LET aged == [c \in Conn |-> IF c \in Entries(n) THEN Aged(gov[n][c]) ELSE gov[n][c]]
         selected == SortByStrategy(n)
         rec == Best(n)
         g == [aged EXCEPT ![rec] = Updated(@, "Recommended", "selected")]
         due == {c \in Conn : g[c].age >= GraceRounds}
         maybe == {c \in Conn : g[c].age = GraceRounds - 1}
     IN IF table[n] = <<>> THEN UNCHANGED <<gov, todo>>
        ELSE /\ gov' = [gov EXCEPT ![n] = g]
             /\ \E early \in SUBSET maybe :
                  todo' = [todo EXCEPT ![n] = ClosurePlan(n, selected, g, due \cup early)]
  /\ UNCHANGED <<dialed, link, events, table, open, observed>>

\* Carry out a plan that only marks a connection, if it is still in the table.
Mark(n) ==
  /\ todo[n] # <<>> /\ Head(todo[n]).action # "CloseNow"
  /\ todo' = [todo EXCEPT ![n] = Tail(@)]
  /\ LET p == Head(todo[n])
         state == IF p.action = "MarkClosing" THEN "Closing" ELSE "Deprecated"
     IN gov' = IF p.conn \in Entries(n)
               THEN [gov EXCEPT ![n][p.conn] = Updated(@, state, p.rec)] ELSE gov
  /\ UNCHANGED <<dialed, link, events, table, open, observed, late>>

\* close_connection, carried out by the swarm when it takes the request.
CloseNow(n) ==
  /\ todo[n] # <<>> /\ Head(todo[n]).action = "CloseNow"
  /\ todo' = [todo EXCEPT ![n] = Tail(@)]
  /\ LET c == Head(todo[n]).conn
     IN IF link[n][c] = "up"
        THEN link' = [link EXCEPT ![n][c] = "down"] /\ Push(n, "closed", c)
        ELSE UNCHANGED <<link, events>>
  /\ UNCHANGED <<dialed, table, gov, open, observed, late>>

-----------------------------------------------------------------------------

Init ==
  /\ dialed = {}
  /\ link = [n \in Node |-> [c \in Conn |-> "new"]]
  /\ events = [n \in Node |-> <<>>]
  /\ table = [n \in Node |-> <<>>]
  /\ gov = [n \in Node |-> [c \in Conn |-> DefaultGovernance]]
  /\ todo = [n \in Node |-> <<>>]
  /\ open = [o \in Opener |-> Idle]
  /\ observed = {}
  /\ late = [n \in Node |-> {}]

OpenStream(o) ==
  \/ ConnectAtOnce(o) \/ ConnectDials(o) \/ DialRelay(o) \/ WaitEnds(o)
  \/ OpenFails(o) \/ OpenSucceeds(o) \/ TrackOutboundStreamOpened(o)

Loop(n) == HandleEvent(n) \/ GovernanceRound(n) \/ Mark(n) \/ CloseNow(n)

Next ==
  \/ \E n \in Node, c \in Conn : SwarmUp(n, c) \/ SwarmDown(n, c)
  \/ \E c \in Conn : HolePunch(c)
  \/ \E o \in Opener : AcquireConnectLock(o) \/ OpenStream(o) \/ StreamEnds(o)
  \/ \E n \in Node : Loop(n)

\* The task of a node runs each of its branches; a call of open_stream goes on
\* until it has a stream or an error; the end of a connection reaches the
\* other end and the streams over it; a handshake one end has completed is
\* completed at the other.  Conditions are joined where that starves none: of
\* the steps of a governance loop, and of a call, at most one is enabled at a
\* time, and a link has at most two changes, hence two events.
Fairness ==
  /\ \A n \in Node : WF_vars(GovernanceRound(n) \/ Mark(n) \/ CloseNow(n))
  /\ WF_vars(\E n \in Node :
                \/ HandleEvent(n)
                \/ \E c \in Conn :
                     \/ link[Remote(n)][c] = "down" /\ SwarmDown(n, c)
                     \/ link[Remote(n)][c] = "up" /\ SwarmUp(n, c))
  /\ \A o \in Opener :
       WF_vars(\/ OpenStream(o)
               \/ /\ open[o].pc = "streaming" /\ link[Home[o]][open[o].conn] = "down"
                  /\ StreamEnds(o))

Spec == Init /\ [][Next]_vars
FairSpec == Spec /\ Fairness

-----------------------------------------------------------------------------

\* The types of the variables.
TypeOK ==
  /\ dialed \subseteq Conn
  /\ link \in [Node -> [Conn -> LinkState]]
  /\ events \in [Node -> Seq(Event)]
  /\ table \in [Node -> Seq(Conn)]
  /\ gov \in [Node -> [Conn -> Governance]]
  /\ todo \in [Node -> Seq(ConnectionClosurePlan)]
  /\ open \in [Opener -> Call]
  /\ observed \subseteq Opener
  /\ late \in [Node -> SUBSET (Opener \cup Conn)]

\* The step in which n closes the connection of the plan at hand.
Closes(n) == /\ todo[n] # <<>> /\ todo'[n] = Tail(todo[n])
             /\ Head(todo[n]).action = "CloseNow" /\ link[n][Head(todo[n]).conn] = "up"

\* The plan of a round is acted upon after awaits, on streams counted before
\* them.  Still the governance loop (governance.rs:100-166) never closes a
\* connection its own node uses, be it for a stream or for one it is opening,
\* as long as the connection it prefers is there.
KeepsOwnStreams ==
  [][\A n \in Node :
       Closes(n) /\ Head(todo[n]).rec \in Entries(n) =>
         \A o \in Opener : Home[o] = n => open[o].conn # Head(todo[n]).conn]_vars

\* Every call of open_stream ends, with a stream or an error (control.rs:140):
\* no task is inside of one for ever.
OpenEnds == \A o \in Opener : []<>(open[o].pc \in {"idle", "streaming"})

\* When nobody opens streams any more, the governance of both nodes together
\* leaves them with one connection at most (governance.rs:64).
SurplusClosed ==
  <>[](\A o \in Opener : open[o].pc = "idle") =>
    <>[](\A n \in Node : Cardinality(Entries(n)) <= 1)
=============================================================================
