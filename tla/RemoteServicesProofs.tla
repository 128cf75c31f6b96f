------------------------- MODULE RemoteServicesProofs -------------------------
(***************************************************************************)
(* The cache of services of other devices, and the commands that use it,   *)
(* for any number of calls, commands, devices and services.                *)
(*                                                                         *)
(* The cache (Snapshots): it is never written by a call that began before  *)
(* the last removal, and the epoch scheme implements SnapshotStore.        *)
(*                                                                         *)
(* The commands (RemoteServices): the cache keeps that, a listener is only *)
(* made for a service the device has published, and the local half of a    *)
(* command follows the remote one.                                         *)
(***************************************************************************)
EXTENDS RemoteServices, TLAPS

-----------------------------------------------------------------------------
(* The cache.                                                              *)

\* The epoch a call noted is never ahead of its peer's, and it is behind once
\* the snapshot has been removed: epochs only grow, and only while no call of
\* another life of the daemon survives.
EpochInv ==
  \A t \in Task : Busy(t) =>
    /\ task[t].peer \in Peer
    /\ task[t].epoch <= epochs[task[t].peer]
    /\ task[t].pc = "save" => task[t].seen \in Snapshot
    /\ t \in outdated => task[t].epoch < epochs[task[t].peer]

OutdatedBusy == \A t \in outdated : Busy(t)

IInv == TypeOK /\ EpochInv /\ OutdatedBusy

\* The initial states satisfy the inductive invariant.
LEMMA InitIInv == Init => IInv
  BY SnapshotAssumption
     DEF Init, IInv, TypeOK, EpochInv, OutdatedBusy, Busy, Idle, Tasks

\* Every operation of the cache preserves it.
LEMMA NextIInv == IInv /\ [Next]_vars => IInv'
<1> SUFFICES ASSUME IInv, [Next]_vars PROVE IInv'
  OBVIOUS
<1> USE SnapshotAssumption DEF IInv, TypeOK, EpochInv, OutdatedBusy, Busy, Idle, Tasks
<1>1. ASSUME NEW t \in Task, NEW p \in Peer, NEW pc \in {"observe", "read"},
             Begin(t, p, pc)
      PROVE  IInv'
  <2>1. TypeOK'
    BY <1>1 DEF Begin
  <2>2. /\ task'[t].pc = pc /\ task'[t].peer = p /\ task'[t].epoch = epochs[p]
        /\ \A u \in Task : u # t => task'[u] = task[u]
    BY <1>1 DEF Begin
  <2>3. t \notin outdated
    BY <1>1 DEF Begin
  <2>4. EpochInv'
    BY <1>1, <2>2, <2>3 DEF Begin
  <2> QED
    BY <1>1, <2>1, <2>2, <2>3, <2>4 DEF Begin
<1>2. ASSUME NEW t \in Task, NEW s \in Snapshot, RefreshAnswer(t, s) PROVE IInv'
  BY <1>2 DEF RefreshAnswer
<1>3. ASSUME NEW t \in Task, NEW name \in Service, ForgetRead(t, name) PROVE IInv'
  BY <1>3 DEF ForgetRead, Finish, Snapshot
<1>4. ASSUME NEW t \in Task, RefreshError(t) PROVE IInv'
  BY <1>4 DEF RefreshError, Finish
<1>5. ASSUME NEW t \in Task, SaveIfCurrent(t) PROVE IInv'
  BY <1>5 DEF SaveIfCurrent, Finish
<1>6. ASSUME NEW p \in Peer, Remove(p) PROVE IInv'
  BY <1>6 DEF Remove
<1>7. ASSUME NEW p \in Peer, RemoveOverflow(p) PROVE IInv'
  BY <1>7 DEF RemoveOverflow, vars
<1>8. CASE Restart
  BY <1>8 DEF Restart
<1>9. CASE UNCHANGED vars
  BY <1>9 DEF vars
<1> QED
  BY <1>1, <1>2, <1>3, <1>4, <1>5, <1>6, <1>7, <1>8, <1>9
     DEF Next, RefreshBegin, ForgetBegin

\* The inductive invariant holds in every reachable state.
THEOREM Invariance == Spec => []IInv
  BY InitIInv, NextIInv, PTL DEF Spec

\* Type correctness of the cache of observations.
THEOREM TypeCorrect == Spec => []TypeOK
<1>1. IInv => TypeOK
  BY DEF IInv
<1> QED
  BY <1>1, Invariance, PTL

\* A call that began before the last removal ends without writing.
LEMMA OutdatedStep ==
  IInv /\ [Next]_vars => [\A t \in outdated : ~ Busy(t)' => cache' = cache]_vars
<1> SUFFICES ASSUME IInv, [Next]_vars, NEW t \in outdated, ~ Busy(t)', ~ UNCHANGED vars
             PROVE  cache' = cache
  OBVIOUS
<1> USE SnapshotAssumption DEF IInv, TypeOK, EpochInv, OutdatedBusy, Busy, Idle, Tasks
<1>1. ASSUME NEW u \in Task, SaveIfCurrent(u) PROVE cache' = cache
  <2>1. u = t
    BY <1>1 DEF SaveIfCurrent, Finish
  <2>2. epochs[task[u].peer] # task[u].epoch
    BY <2>1
  <2> QED
    BY <1>1, <2>2 DEF SaveIfCurrent
<1>2. ASSUME NEW p \in Peer, Remove(p) PROVE FALSE
  BY <1>2 DEF Remove
<1> QED
  BY <1>1, <1>2
     DEF Next, RefreshBegin, ForgetBegin, Begin, RefreshAnswer, ForgetRead,
         RefreshError, Restart, RemoveOverflow, vars

\* No observation that was in flight when a peer's snapshot was removed is
\* ever stored (services.rs, save_if_current and remove).
THEOREM RemovalIsFinal == Spec => NoResurrection
  BY Invariance, OutdatedStep, PTL DEF Spec, NoResurrection

-----------------------------------------------------------------------------
\* What a step does to the right to write.

\* A call that is over, and a call whose peer has been removed, may not write.
LEMMA MayWriteType ==
  \A t \in Task : /\ ~ Busy(t) => mayWrite[t] = NoPeer
                  /\ mayWrite[t] # NoPeer => Busy(t) /\ mayWrite[t] = task[t].peer
  BY DEF mayWrite

\* A step that ends call t, leaves the others and the epochs alone takes the
\* right to write from t only.
LEMMA FinishMayWrite ==
  ASSUME TypeOK, NEW t \in Task, Finish(t), epochs' = epochs
  PROVE  mayWrite' = [mayWrite EXCEPT ![t] = NoPeer]
  BY DEF TypeOK, Finish, mayWrite, Busy, Idle

\* A step that changes neither a call's peer and epoch nor the epochs keeps
\* every right to write.
LEMMA SameMayWrite ==
  ASSUME TypeOK, epochs' = epochs,
         \A t \in Task : /\ Busy(t)' <=> Busy(t)
                         /\ task'[t].peer = task[t].peer
                         /\ task'[t].epoch = task[t].epoch
  PROVE  mayWrite' = mayWrite
  BY DEF TypeOK, mayWrite

\* Every step of the cache maps to a step of SnapshotStore or to a stutter.
LEMMA StoreStep == IInv /\ [Next]_vars => [Store!Next]_(Store!storeVars)
<1> SUFFICES ASSUME IInv, [Next]_vars PROVE [Store!Next]_(Store!storeVars)
  OBVIOUS
<1>0. TypeOK /\ EpochInv
  BY DEF IInv
<1>1. ASSUME NEW t \in Task, NEW p \in Peer, NEW pc \in {"observe", "read"},
             Begin(t, p, pc)
      PROVE  Store!Begin(t, p)
  <2>1. /\ task'[t].pc = pc /\ task'[t].peer = p /\ task'[t].epoch = epochs[p]
        /\ \A u \in Task : u # t => task'[u] = task[u]
    BY <1>0, <1>1 DEF Begin, TypeOK, Idle
  <2>2. mayWrite' = [mayWrite EXCEPT ![t] = p]
    <3>1. epochs' = epochs /\ pc # "idle"
      BY <1>1 DEF Begin
    <3>2. mayWrite'[t] = p
      BY <2>1, <3>1 DEF mayWrite, Busy
    <3>3. \A u \in Task : u # t => mayWrite'[u] = mayWrite[u]
      BY <2>1, <3>1 DEF mayWrite, Busy
    <3> QED
      BY <3>2, <3>3 DEF mayWrite
  <2>3. mayWrite[t] = NoPeer
    BY <1>1, MayWriteType DEF Begin
  <2> QED
    BY <1>1, <2>2, <2>3 DEF Begin, Store!Begin
<1>2. ASSUME NEW t \in Task, NEW s \in Snapshot, RefreshAnswer(t, s)
      PROVE  UNCHANGED Store!storeVars
  <2>1. mayWrite' = mayWrite
    BY <1>0, <1>2, SameMayWrite DEF RefreshAnswer, TypeOK, Tasks, Busy
  <2> QED
    BY <1>2, <2>1 DEF RefreshAnswer, Store!storeVars
<1>3. ASSUME NEW t \in Task, NEW name \in Service, ForgetRead(t, name)
      PROVE  Store!Abandon(t) \/ UNCHANGED Store!storeVars
  <2>1. CASE Finish(t)
    BY <1>0, <1>3, <2>1, FinishMayWrite DEF ForgetRead, Store!Abandon
  <2>2. CASE task' = [task EXCEPT ![t].pc = "save",
                 ![t].seen = [services |-> cache[task[t].peer].services \ {name}]]
    <3>1. mayWrite' = mayWrite
      BY <1>0, <1>3, <2>2, SameMayWrite DEF ForgetRead, TypeOK, Tasks, Busy
    <3> QED
      BY <1>3, <3>1 DEF ForgetRead, Store!storeVars
  <2> QED
    BY <1>3, <2>1, <2>2 DEF ForgetRead
<1>4. ASSUME NEW t \in Task, RefreshError(t) PROVE Store!Abandon(t)
  BY <1>0, <1>4, FinishMayWrite DEF RefreshError, Store!Abandon
<1>5. ASSUME NEW t \in Task, SaveIfCurrent(t)
      PROVE  Store!Abandon(t) \/ \E s \in Snapshot : Store!Write(t, s)
  <2>1. mayWrite' = [mayWrite EXCEPT ![t] = NoPeer]
    BY <1>0, <1>5, FinishMayWrite DEF SaveIfCurrent
  <2>2. CASE cache' = cache
    BY <2>1, <2>2 DEF Store!Abandon
  <2>3. CASE cache' # cache
    <3>1. /\ epochs[task[t].peer] = task[t].epoch
          /\ cache' = [cache EXCEPT ![task[t].peer] = task[t].seen]
      BY <1>5, <2>3 DEF SaveIfCurrent
    <3>2. Busy(t) /\ task[t].peer \in Peer /\ task[t].seen \in Snapshot
      BY <1>0, <1>5 DEF SaveIfCurrent, EpochInv, Busy
    <3>3. mayWrite[t] = task[t].peer /\ mayWrite[t] # NoPeer
      BY <3>1, <3>2, SnapshotAssumption DEF mayWrite
    <3>4. Store!Write(t, task[t].seen)
      BY <2>1, <3>1, <3>3 DEF Store!Write
    <3> QED
      BY <3>2, <3>4
  <2> QED
    BY <2>2, <2>3
<1>6. ASSUME NEW p \in Peer, Remove(p) PROVE Store!Remove(p)
  <2>1. mayWrite' = [t \in Task |-> IF mayWrite[t] = p THEN NoPeer ELSE mayWrite[t]]
    <3> SUFFICES ASSUME NEW t \in Task
                 PROVE  mayWrite'[t] = IF mayWrite[t] = p THEN NoPeer ELSE mayWrite[t]
      BY DEF mayWrite
    <3>1. CASE ~ Busy(t)
      BY <1>6, <3>1, SnapshotAssumption DEF Remove, mayWrite, Busy
    <3>2. CASE Busy(t) /\ task[t].peer = p
      <4>1. epochs'[p] = epochs[p] + 1 /\ epochs[p] \in Nat /\ task[t].epoch \in Nat
        BY <1>0, <1>6 DEF Remove, TypeOK, Tasks
      <4>2. task[t].epoch <= epochs[p]
        BY <1>0, <3>2 DEF EpochInv
      <4>3. epochs'[p] # task[t].epoch
        BY <4>1, <4>2
      <4> QED
        BY <1>6, <3>2, <4>3, SnapshotAssumption DEF Remove, mayWrite, Busy
    <3>3. CASE Busy(t) /\ task[t].peer # p
      <4>1. task[t].peer \in Peer
        BY <1>0, <3>3 DEF EpochInv
      <4>2. epochs'[task[t].peer] = epochs[task[t].peer]
        BY <1>0, <1>6, <3>3, <4>1 DEF Remove, TypeOK
      <4> QED
        BY <1>6, <3>3, <4>2, SnapshotAssumption DEF Remove, mayWrite, Busy
    <3> QED
      BY <3>1, <3>2, <3>3
  <2> QED
    BY <1>6, <2>1 DEF Remove, Store!Remove
<1>7. ASSUME Restart PROVE Store!Restart
  BY <1>7 DEF Restart, Store!Restart, mayWrite, Busy, Idle
<1>8. ASSUME UNCHANGED vars PROVE UNCHANGED Store!storeVars
  BY <1>8 DEF vars, Store!storeVars, mayWrite, Busy
<1> QED
  BY <1>1, <1>2, <1>3, <1>4, <1>5, <1>6, <1>7, <1>8
     DEF Next, Store!Next, RefreshBegin, ForgetBegin, RemoveOverflow

\* The epoch scheme of DeviceServiceSnapshots implements explicit
\* invalidation of the writes in flight.
THEOREM Refinement == Spec => ImplementsStore
<1>1. Init => Store!Init
  BY DEF Init, Store!Init, mayWrite, Busy, Idle
<1> QED
  BY <1>1, StoreStep, Invariance, PTL DEF Spec, ImplementsStore, Store!Spec

-----------------------------------------------------------------------------
(* The commands.                                                           *)

\* NoCommand has a device and a name chosen for good measure.
Fields ==
  [op : {"none", "apply", "start", "stop", "remove", "forget", "connect", "list"},
   peer : Peer \cup {NoCommand.peer}, name : Name \cup {NoCommand.name},
   pc : Looking \cup {"idle", "gone", "resolve", "request", "sent", "local", "bind", "forget", "forgotten"},
   managed : (SUBSET Service) \cup {Unread}, published : (SUBSET Service) \cup {Unread},
   always : SUBSET Name, ever : SUBSET Name, seenUp : BOOLEAN, executed : BOOLEAN]

Shapes ==
  /\ device \in [Peer -> [Name -> Status]]
  /\ cmd \in [Task -> Fields]
  /\ request \in [Task -> {"none", "sent", "ok", "refused"}]
  /\ records \subseteq Peer \X Name
  /\ listeners \subseteq records

Names(l) == {e.name : e \in l}

\* A command, its request and its call on the cache go together.
Linked(k, r, t) ==
  /\ k.pc # "idle" => k.peer \in Peer /\ k.name \in Name
  /\ k.pc \in {"confirm", "resolve", "request", "sent", "gone"} =>
       k.op \in {"apply", "start", "stop", "remove"}
  /\ r # "none" => k.pc \in {"sent", "gone"}
  /\ k.pc = "gone" => r = "sent"
  /\ t.pc # "idle" => t.peer = k.peer /\ k.pc \in Looking \cup {"forget"}
  /\ t.pc = "observe" => k.pc \in Looking
  /\ k.managed # Unread \/ k.published # Unread => t.pc = "observe"

\* What an observation has found so far lies between always and ever.
Watched(k, t, D) ==
  /\ t.pc = "observe" => k.always \subseteq Present(D[k.peer]) /\ Present(D[k.peer]) \subseteq k.ever
  /\ k.managed # Unread => k.always \subseteq Names(k.managed) /\ Names(k.managed) \subseteq k.ever
  /\ k.published # Unread => Names(k.published) \subseteq k.ever

\* What a command that needs a published service has seen of it was there.
Heard(k, t, D) ==
  /\ k.pc \in {"discover", "attach", "restore", "bind"} => k.op \in {"connect", "start"}
  /\ k.pc = "bind" => k.seenUp
  /\ k.op \in {"connect", "start"} /\ k.pc \notin {"idle", "gone"} =>
       /\ D[k.peer][k.name] = "running" => k.seenUp
       /\ k.published # Unread /\ k.name \in Names(k.published) => k.seenUp
       /\ k.pc \in Looking /\ t.pc = "save"
            /\ (\E e \in t.seen.services : e.name = k.name /\ e.published) => k.seenUp

\* The device has answered for what is done here.
Carried(k, r) == r = "ok" \/ k.pc \in {"settle", "local", "restore"} => k.executed

Good(k, r, t, D) == Linked(k, r, t) /\ Watched(k, t, D) /\ Heard(k, t, D) /\ Carried(k, r)

CommandsGood == \A c \in Task : Good(cmd[c], request[c], task[c], device)

RInv == IInv /\ Shapes /\ CommandsGood

-----------------------------------------------------------------------------
Requests == {"none", "sent", "ok", "refused"}

\* A client that runs no command has observed nothing and asks for nothing.
LEMMA NoCommandFacts ==
  /\ NoCommand \in Fields
  /\ NoCommand.op = "none" /\ NoCommand.pc = "idle" /\ NoCommand.managed = Unread
  /\ NoCommand.published = Unread /\ NoCommand.always = {} /\ NoCommand.ever = {}
  /\ NoCommand.seenUp = FALSE /\ NoCommand.executed = FALSE
<1>1. PICK q : q = CHOOSE p \in Peer : TRUE
  OBVIOUS
<1>2. PICK m : m = CHOOSE n \in Name : TRUE
  OBVIOUS
<1>3. NoCommand = [op |-> "none", peer |-> q, name |-> m, pc |-> "idle", managed |-> Unread,
                   published |-> Unread, always |-> {}, ever |-> {}, seenUp |-> FALSE, executed |-> FALSE]
  BY <1>1, <1>2 DEF NoCommand
<1>4. /\ NoCommand.peer = q /\ NoCommand.name = m
      /\ NoCommand.op = "none" /\ NoCommand.pc = "idle" /\ NoCommand.managed = Unread
      /\ NoCommand.published = Unread /\ NoCommand.always = {} /\ NoCommand.ever = {}
      /\ NoCommand.seenUp = FALSE /\ NoCommand.executed = FALSE
  BY <1>3
<1> QED
  BY <1>3, <1>4 DEF Fields

\* What the invariant says of a command holds of a client that runs none.
LEMMA NoCommandGood ==
  ASSUME NEW t, t.pc = "idle", NEW D
  PROVE  Good(NoCommand, "none", t, D)
  BY NoCommandFacts DEF Good, Linked, Watched, Heard, Carried, Looking

\* A command that goes on forgets what its last observation found and keeps its
\* arguments.
LEMMA ToFacts ==
  ASSUME RInv, NEW c \in Task,
         NEW pc \in Looking \cup {"gone", "resolve", "request", "local", "bind"}
  PROVE  \E u \in Fields :
           /\ u = To(c, pc) /\ u.pc = pc /\ u.op = cmd[c].op /\ u.peer = cmd[c].peer
           /\ u.name = cmd[c].name /\ u.seenUp = cmd[c].seenUp /\ u.executed = cmd[c].executed
           /\ u.managed = Unread /\ u.published = Unread /\ u.always = {} /\ u.ever = {}
<1>1. PICK k \in Fields : k = cmd[c]
  BY DEF RInv, Shapes
<1>2. PICK r : r = [k EXCEPT !.managed = Unread, !.published = Unread, !.always = {}, !.ever = {}]
  OBVIOUS
<1>3. r = Rested(c)
  BY <1>1, <1>2 DEF Rested
<1>4. /\ r \in Fields /\ r.op = k.op /\ r.peer = k.peer /\ r.name = k.name
      /\ r.seenUp = k.seenUp /\ r.executed = k.executed
      /\ r.managed = Unread /\ r.published = Unread /\ r.always = {} /\ r.ever = {}
  BY <1>2 DEF Fields
<1>5. PICK u : u = [r EXCEPT !.pc = pc]
  OBVIOUS
<1>6. u = To(c, pc)
  BY <1>3, <1>5 DEF To
<1>7. /\ u \in Fields /\ u.pc = pc /\ u.op = r.op /\ u.peer = r.peer /\ u.name = r.name
      /\ u.seenUp = r.seenUp /\ u.executed = r.executed
      /\ u.managed = r.managed /\ u.published = r.published /\ u.always = r.always /\ u.ever = r.ever
  BY <1>4, <1>5 DEF Fields
<1> QED
  BY <1>1, <1>4, <1>6, <1>7

\* A command whose call on the cache is over may turn to another request or
\* observation, if it is of a kind that makes them, binds only what it has seen
\* published and follows up only what the device has carried out.
LEMMA ToGood ==
  ASSUME RInv, NEW c \in Task, NEW t, t.pc = "idle", cmd[c].pc \notin {"idle", "gone"},
         NEW pc \in Looking \cup {"resolve", "request", "local", "bind"},
         pc \in {"confirm", "resolve", "request"} => cmd[c].op \in {"apply", "start", "stop", "remove"},
         pc \in {"discover", "attach", "restore", "bind"} => cmd[c].op \in {"connect", "start"},
         pc = "bind" => cmd[c].seenUp,
         pc \in {"settle", "local", "restore"} => cmd[c].executed
  PROVE  To(c, pc) \in Fields /\ Good(To(c, pc), "none", t, device)
<1>1. PICK u \in Fields :
           /\ u = To(c, pc) /\ u.pc = pc /\ u.op = cmd[c].op /\ u.peer = cmd[c].peer
           /\ u.name = cmd[c].name /\ u.seenUp = cmd[c].seenUp /\ u.executed = cmd[c].executed
           /\ u.managed = Unread /\ u.published = Unread /\ u.always = {} /\ u.ever = {}
  BY ToFacts
<1>2. Good(cmd[c], request[c], task[c], device)
  BY DEF RInv, CommandsGood
<1>3. Linked(u, "none", t) /\ Watched(u, t, device) /\ Carried(u, "none")
  BY <1>1, <1>2 DEF Good, Linked, Watched, Carried, Looking
<1>4. Heard(u, t, device)
  BY <1>1, <1>2 DEF Good, Heard, Looking
<1> QED
  BY <1>1, <1>3, <1>4 DEF Good

\* Every command may end with one more observation, whose outcome it does not
\* act on.
LEMMA RefreshingGood ==
  ASSUME RInv, NEW c \in Task, NEW t, t.pc = "idle", cmd[c].pc # "idle", NEW D
  PROVE  Refreshing(c) \in Fields /\ Good(Refreshing(c), "none", t, D)
<1>1. PICK p \in Peer, n \in Name : p = cmd[c].peer /\ n = cmd[c].name
  BY DEF RInv, CommandsGood, Good, Linked
<1>2. PICK v \in Fields : v = NoCommand
  BY NoCommandFacts
<1>3. PICK w : w = [v EXCEPT !.op = "list", !.pc = "list"]
  OBVIOUS
<1>4. /\ w.op = "list" /\ w.pc = "list" /\ w.managed = Unread
      /\ w.published = Unread /\ w.always = {} /\ w.ever = {} /\ w.seenUp = FALSE /\ w.executed = FALSE
      /\ w.peer = v.peer /\ w.name = v.name
  BY <1>2, <1>3, NoCommandFacts DEF Fields
<1>5. w \in Fields
  BY <1>2, <1>3 DEF Fields, Looking
<1>6. PICK u : u = [w EXCEPT !.peer = p, !.name = n]
  OBVIOUS
<1>7. /\ u.op = "list" /\ u.pc = "list" /\ u.managed = Unread /\ u.peer = p /\ u.name = n
      /\ u.published = Unread /\ u.always = {} /\ u.ever = {} /\ u.seenUp = FALSE /\ u.executed = FALSE
  BY <1>4, <1>5, <1>6 DEF Fields
<1>8. u \in Fields
  BY <1>5, <1>6 DEF Fields
<1>9. u = [v EXCEPT !.op = "list", !.peer = p, !.name = n, !.pc = "list"]
  BY <1>2, <1>3, <1>6 DEF Fields
<1>10. u = Refreshing(c)
  BY <1>1, <1>2, <1>9 DEF Refreshing
<1>11. Good(u, "none", t, D)
  BY <1>7 DEF Good, Linked, Watched, Heard, Carried, Looking
<1> QED
  BY <1>8, <1>10, <1>11

-----------------------------------------------------------------------------
\* A step of c leaves what the invariant says of the other commands as it is.
LEMMA OneStep ==
  ASSUME RInv, NEW c \in Task, NEW u \in Fields, UNCHANGED device, [Next]_vars,
         cmd' = [cmd EXCEPT ![c] = u],
         request' \in [Task -> Requests], \A b \in Task \ {c} : request'[b] = request[b],
         \A b \in Task \ {c} : task'[b] = task[b],
         records' \subseteq Peer \X Name, listeners' \subseteq records',
         Good(u, request'[c], task'[c], device)
  PROVE  RInv'
<1>1. IInv'
  BY NextIInv DEF RInv
<1>2. cmd' \in [Task -> Fields] /\ \A b \in Task : cmd'[b] = IF b = c THEN u ELSE cmd[b]
  BY DEF RInv, Shapes
<1>3. Shapes'
  BY <1>2 DEF RInv, Shapes, Requests
<1>4. ASSUME NEW b \in Task PROVE Good(cmd'[b], request'[b], task'[b], device')
  <2>1. CASE b = c
    BY <1>2, <2>1
  <2>2. CASE b # c
    BY <1>2, <2>2 DEF RInv, CommandsGood
  <2> QED
    BY <2>1, <2>2
<1> QED
  BY <1>1, <1>3, <1>4 DEF RInv, CommandsGood

\* A step of c that leaves the cache and the device alone.
LEMMA QuietStep ==
  ASSUME RInv, NEW c \in Task, NEW u \in Fields, UNCHANGED <<vars, device>>,
         cmd' = [cmd EXCEPT ![c] = u],
         request' = request \/ \E r \in Requests : request' = [request EXCEPT ![c] = r],
         records' \subseteq Peer \X Name, listeners' \subseteq records',
         Good(u, request'[c], task[c], device)
  PROVE  RInv'
<1>1. request' \in [Task -> Requests] /\ \A b \in Task \ {c} : request'[b] = request[b]
  BY DEF RInv, Shapes, Requests
<1>2. task' = task /\ device' = device /\ [Next]_vars
  BY DEF vars
<1>3. Good(u, request'[c], task'[c], device)
  BY <1>2
<1> QED
  BY <1>1, <1>2, <1>3, OneStep

\* What the invariant says of one command: it has a call on the cache only
\* while it looks or forgets, and a request on its way only while it waits for
\* the answer or is gone.
LEMMA Waiting ==
  ASSUME RInv, NEW c \in Task
  PROVE  /\ Good(cmd[c], request[c], task[c], device)
         /\ cmd[c].pc \notin Looking \cup {"forget"} => task[c].pc = "idle"
         /\ cmd[c].pc \notin {"sent", "gone"} => request[c] = "none"
         /\ records \subseteq Peer \X Name /\ listeners \subseteq records
  BY DEF RInv, CommandsGood, Shapes, Good, Linked

\* A command may end, or end with one more observation, at every point at which
\* it has neither a request on its way nor a call on the cache.
LEMMA EndStep ==
  ASSUME RInv, NEW c \in Task, cmd[c].pc \in {"resolve", "request", "local", "bind", "forgotten"},
         UNCHANGED <<vars, device, request>>,
         NEW u \in {NoCommand, Refreshing(c)}, cmd' = [cmd EXCEPT ![c] = u],
         records' \subseteq Peer \X Name, listeners' \subseteq records'
  PROVE  RInv'
<1>1. task[c].pc = "idle" /\ request'[c] = "none"
  BY Waiting DEF Looking
<1>2. u \in Fields /\ Good(u, "none", task[c], device)
  BY <1>1, NoCommandFacts, NoCommandGood, RefreshingGood
<1> QED
  BY <1>1, <1>2, QuietStep

\* A command may go on at the same points, under the conditions of ToGood.
LEMMA GoOnStep ==
  ASSUME RInv, NEW c \in Task, cmd[c].pc \in {"resolve", "request", "local", "bind", "forgotten"},
         UNCHANGED <<vars, device, request, records, listeners>>,
         NEW pc \in Looking \cup {"resolve", "request", "local", "bind"},
         pc \in {"confirm", "resolve", "request"} => cmd[c].op \in {"apply", "start", "stop", "remove"},
         pc \in {"discover", "attach", "restore", "bind"} => cmd[c].op \in {"connect", "start"},
         pc = "bind" => cmd[c].seenUp,
         pc \in {"settle", "local", "restore"} => cmd[c].executed,
         cmd' = [cmd EXCEPT ![c] = To(c, pc)]
  PROVE  RInv'
<1>1. task[c].pc = "idle" /\ request'[c] = "none" /\ records \subseteq Peer \X Name /\ listeners \subseteq records
  BY Waiting DEF Looking
<1>2. To(c, pc) \in Fields /\ Good(To(c, pc), "none", task[c], device)
  BY <1>1, ToGood
<1>3. records' \subseteq Peer \X Name /\ listeners' \subseteq records'
  BY <1>1
<1>4. Good(To(c, pc), request'[c], task[c], device)
  BY <1>1, <1>2
<1>5. UNCHANGED <<vars, device>> /\ request' = request
  OBVIOUS
<1> QED
  BY <1>2, <1>3, <1>4, <1>5, QuietStep

\* The recipe of an apply is resolved, or cannot be read.
LEMMA ResolvedInv ==
  ASSUME RInv, NEW c \in Task, Resolved(c) \/ NotResolved(c)
  PROVE  RInv'
<1>1. CASE Resolved(c)
  <2>1. cmd[c].op \in {"apply", "start", "stop", "remove"}
    BY <1>1, Waiting DEF Resolved, Good, Linked
  <2> QED
    BY <1>1, <2>1, GoOnStep DEF Resolved, Looking
<1>2. CASE NotResolved(c)
  <2>1. records' \subseteq Peer \X Name /\ listeners' \subseteq records'
    BY <1>2, Waiting DEF NotResolved
  <2> QED
    BY <1>2, <2>1, EndStep DEF NotResolved
<1> QED
  BY <1>1, <1>2

\* The local halves of stop, remove, forget and attach, and their failure: a
\* listener always has its record.
LEMMA LocalsInv ==
  ASSUME RInv, NEW c \in Task,
         StopLocally(c) \/ RemoveLocally(c) \/ ForgetLocally(c) \/ LocalFails(c) \/ Attach(c)
  PROVE  RInv'
<1>1. records \subseteq Peer \X Name /\ listeners \subseteq records
  BY Waiting
<1>2. CASE StopLocally(c)
  <2>1. records' \subseteq Peer \X Name /\ listeners' \subseteq records'
    BY <1>1, <1>2 DEF StopLocally
  <2> QED
    BY <1>2, <2>1, EndStep DEF StopLocally
<1>3. CASE RemoveLocally(c)
  <2>1. records' \subseteq Peer \X Name /\ listeners' \subseteq records'
    BY <1>1, <1>3 DEF RemoveLocally
  <2> QED
    BY <1>3, <2>1, EndStep DEF RemoveLocally
<1>4. CASE ForgetLocally(c)
  <2>1. records' \subseteq Peer \X Name /\ listeners' \subseteq records'
    BY <1>1, <1>4 DEF ForgetLocally
  <2> QED
    BY <1>4, <2>1, EndStep DEF ForgetLocally
<1>5. CASE LocalFails(c)
  <2>1. records' \subseteq Peer \X Name /\ listeners' \subseteq records'
    BY <1>1, <1>5 DEF LocalFails
  <2> QED
    BY <1>5, <2>1, EndStep DEF LocalFails
<1>6. CASE Attach(c)
  <2>1. cmd[c].peer \in Peer /\ cmd[c].name \in Name
    BY <1>6, Waiting DEF Attach, Good, Linked
  <2>2. records' \subseteq Peer \X Name /\ listeners' \subseteq records'
    BY <1>1, <1>6, <2>1 DEF Attach
  <2>3. PICK u \in {NoCommand, Refreshing(c)} : cmd' = [cmd EXCEPT ![c] = u]
    BY <1>6 DEF Attach
  <2> QED
    BY <1>6, <2>2, <2>3, EndStep DEF Attach
<1> QED
  BY <1>2, <1>3, <1>4, <1>5, <1>6

\* A service that was started has its saved accesses restored, which needs
\* another observation.
LEMMA StartLocallyInv ==
  ASSUME RInv, NEW c \in Task, StartLocally(c)
  PROVE  RInv'
<1>1. cmd[c].pc = "local" /\ cmd[c].op = "start" /\ cmd[c].executed
  BY Waiting DEF StartLocally, Good, Carried
<1>2. UNCHANGED <<vars, device, request, records, listeners>>
  BY DEF StartLocally
<1>3. CASE cmd' = [cmd EXCEPT ![c] = To(c, "restore")]
  BY <1>1, <1>2, <1>3, GoOnStep DEF Looking
<1>4. CASE cmd' = [cmd EXCEPT ![c] = Refreshing(c)]
  <2>1. records' \subseteq Peer \X Name /\ listeners' \subseteq records'
    BY <1>2, Waiting
  <2> QED
    BY <1>1, <1>2, <1>4, <2>1, EndStep
<1> QED
  BY <1>3, <1>4 DEF StartLocally

-----------------------------------------------------------------------------
\* A command begins at the first step of its chain, with nothing observed;
\* whether its service is published at that moment is noted.
LEMMA IssueInv ==
  ASSUME RInv, NEW c \in Task, NEW p \in Peer, NEW n \in Name,
         NEW op \in {"apply", "start", "stop", "remove", "forget", "connect", "list"},
         NEW pc \in {"confirm", "resolve", "request", "forget", "discover", "list"},
         pc = "discover" => op = "connect",
         pc \in {"confirm", "resolve", "request"} => op \in {"apply", "start", "stop", "remove"},
         Issue(c, op, p, n, pc)
  PROVE  RInv'
<1>1. PICK b \in BOOLEAN : b = (device[p][n] = "running" /\ op \in {"connect", "start"})
  <2>1. CASE device[p][n] = "running" /\ op \in {"connect", "start"}
    <3>1. (device[p][n] = "running" /\ op \in {"connect", "start"}) = TRUE
      BY <2>1
    <3> QED
      BY <3>1, Zenon
  <2>2. CASE ~ (device[p][n] = "running" /\ op \in {"connect", "start"})
    <3>1. (device[p][n] = "running" /\ op \in {"connect", "start"}) = FALSE
      BY <2>2
    <3> QED
      BY <3>1, Zenon
  <2> QED
    BY <2>1, <2>2
<1>2. device[p][n] = "running" /\ op \in {"connect", "start"} => b
  BY <1>1
<1>3. PICK v \in Fields : v = NoCommand
  BY NoCommandFacts
<1>4. PICK w : w = [v EXCEPT !.op = op, !.pc = pc, !.seenUp = b]
  OBVIOUS
<1>5. /\ w.op = op /\ w.pc = pc /\ w.managed = Unread /\ w.seenUp = b
      /\ w.published = Unread /\ w.always = {} /\ w.ever = {} /\ w.executed = FALSE
  BY <1>3, <1>4, NoCommandFacts DEF Fields
<1>6. w \in Fields
  <2>1. PICK x : x = [v EXCEPT !.op = op]
    OBVIOUS
  <2>2. x \in Fields
    BY <2>1 DEF Fields
  <2>3. PICK y : y = [x EXCEPT !.pc = pc]
    OBVIOUS
  <2>4. y \in Fields
    BY <2>2, <2>3 DEF Fields, Looking
  <2>5. w = [y EXCEPT !.seenUp = b]
    BY <1>4, <2>1, <2>3 DEF Fields
  <2> QED
    BY <2>4, <2>5 DEF Fields
<1>7. PICK u : u = [w EXCEPT !.peer = p, !.name = n]
  OBVIOUS
<1>8. /\ u.op = op /\ u.pc = pc /\ u.managed = Unread /\ u.peer = p /\ u.name = n /\ u.seenUp = b
      /\ u.published = Unread /\ u.always = {} /\ u.ever = {} /\ u.executed = FALSE
  BY <1>5, <1>6, <1>7 DEF Fields
<1>9. u \in Fields
  BY <1>6, <1>7 DEF Fields
<1>10. u = [v EXCEPT !.op = op, !.peer = p, !.name = n, !.pc = pc, !.seenUp = b]
  BY <1>3, <1>4, <1>7 DEF Fields
<1>11. u = [NoCommand EXCEPT !.op = op, !.peer = p, !.name = n, !.pc = pc,
              !.seenUp = device[p][n] = "running" /\ op \in {"connect", "start"}]
  BY <1>1, <1>3, <1>10, Zenon
<1>12. cmd' = [cmd EXCEPT ![c] = u]
  BY <1>11, Zenon DEF Issue
<1>13. task[c].pc = "idle" /\ request'[c] = "none"
  BY Waiting DEF Issue, Looking
<1>14. Good(u, "none", task[c], device)
  BY <1>2, <1>8, <1>13 DEF Good, Linked, Watched, Heard, Carried, Looking
<1>15. records' \subseteq Peer \X Name /\ listeners' \subseteq records'
  BY Waiting DEF Issue
<1>16. UNCHANGED <<vars, device>> /\ request' = request
  BY DEF Issue
<1> QED
  BY <1>9, <1>12, <1>13, <1>14, <1>15, <1>16, QuietStep

\* A command that moves to another place of its chain keeps everything else.
LEMMA MovedFacts ==
  ASSUME NEW k \in Fields,
         NEW pc \in Looking \cup {"gone", "request", "sent", "forget", "forgotten"}
  PROVE  /\ [k EXCEPT !.pc = pc] \in Fields
         /\ [k EXCEPT !.pc = pc].pc = pc /\ [k EXCEPT !.pc = pc].op = k.op
         /\ [k EXCEPT !.pc = pc].peer = k.peer /\ [k EXCEPT !.pc = pc].name = k.name
         /\ [k EXCEPT !.pc = pc].managed = k.managed /\ [k EXCEPT !.pc = pc].published = k.published
         /\ [k EXCEPT !.pc = pc].always = k.always /\ [k EXCEPT !.pc = pc].ever = k.ever
         /\ [k EXCEPT !.pc = pc].seenUp = k.seenUp /\ [k EXCEPT !.pc = pc].executed = k.executed
<1>1. PICK u : u = [k EXCEPT !.pc = pc]
  OBVIOUS
<1>2. u \in Fields
  BY <1>1 DEF Fields
<1>3. u.pc = pc /\ u.op = k.op /\ u.peer = k.peer /\ u.name = k.name
  BY <1>1 DEF Fields
<1>4. u.managed = k.managed /\ u.published = k.published /\ u.always = k.always /\ u.ever = k.ever
  BY <1>1 DEF Fields
<1>5. u.seenUp = k.seenUp /\ u.executed = k.executed
  BY <1>1 DEF Fields
<1> QED
  BY <1>1, <1>2, <1>3, <1>4, <1>5

\* The request is on its way.
LEMMA SendInv ==
  ASSUME RInv, NEW c \in Task, Send(c)
  PROVE  RInv'
<1>1. PICK k \in Fields : k = cmd[c]
  BY DEF RInv, Shapes
<1>2. PICK u \in Fields :
         /\ u = [k EXCEPT !.pc = "sent"] /\ u.pc = "sent" /\ u.op = k.op /\ u.peer = k.peer
         /\ u.name = k.name /\ u.managed = k.managed /\ u.published = k.published
         /\ u.always = k.always /\ u.ever = k.ever /\ u.seenUp = k.seenUp /\ u.executed = k.executed
  BY MovedFacts
<1>3. cmd' = [cmd EXCEPT ![c] = u]
  BY <1>1, <1>2 DEF Send
<1>4. /\ Good(k, request[c], task[c], device) /\ k.pc = "request" /\ task[c].pc = "idle"
      /\ records \subseteq Peer \X Name /\ listeners \subseteq records
  BY <1>1, Waiting DEF Send, Looking
<1>5. request'[c] = "sent"
  BY DEF Send, RInv, Shapes
<1>6. Good(u, "sent", task[c], device)
  BY <1>2, <1>4 DEF Good, Linked, Watched, Heard, Carried, Looking
<1>7. UNCHANGED <<vars, device>> /\ request' = [request EXCEPT ![c] = "sent"] /\ "sent" \in Requests
      /\ records' \subseteq Peer \X Name /\ listeners' \subseteq records'
  BY <1>4 DEF Send, Requests
<1> QED
  BY <1>3, <1>5, <1>6, <1>7, QuietStep

\* A command whose device was not reached ends, or a remove becomes a forget of
\* what is known of the service here.
LEMMA UnreachableGood ==
  ASSUME RInv, NEW c \in Task, cmd[c].pc \in {"request", "sent"}, NEW u \in Unreachable(c)
  PROVE  u \in Fields /\ Good(u, "none", task[c], device)
<1>1. task[c].pc = "idle" /\ Good(cmd[c], request[c], task[c], device)
  BY Waiting DEF Looking
<1>2. CASE u = NoCommand
  BY <1>1, <1>2, NoCommandFacts, NoCommandGood
<1>3. CASE u = [cmd[c] EXCEPT !.op = "forget", !.pc = "forget", !.executed = FALSE]
  <2>1. PICK k \in Fields : k = cmd[c]
    BY DEF RInv, Shapes
  <2>2. u = [k EXCEPT !.op = "forget", !.pc = "forget", !.executed = FALSE]
    BY <1>3, <2>1
  <2>3. u \in Fields
    BY <2>2 DEF Fields
  <2>4. u.op = "forget" /\ u.pc = "forget" /\ u.peer = k.peer /\ u.name = k.name
    BY <2>2 DEF Fields
  <2>5. u.managed = k.managed /\ u.published = k.published /\ u.always = k.always /\ u.ever = k.ever
    BY <2>2 DEF Fields
  <2>6. Good(u, "none", task[c], device)
    BY <1>1, <2>1, <2>4, <2>5 DEF Good, Linked, Watched, Heard, Carried, Looking
  <2> QED
    BY <2>3, <2>6
<1> QED
  BY <1>2, <1>3 DEF Unreachable

\* The stream to the device cannot be opened.
LEMMA SendFailsInv ==
  ASSUME RInv, NEW c \in Task, SendFails(c)
  PROVE  RInv'
<1>1. PICK u \in Unreachable(c) : cmd' = [cmd EXCEPT ![c] = u]
  BY DEF SendFails
<1>2. u \in Fields /\ Good(u, "none", task[c], device)
  BY UnreachableGood DEF SendFails
<1>3. request'[c] = "none" /\ records' \subseteq Peer \X Name /\ listeners' \subseteq records'
  BY Waiting DEF SendFails
<1>4. UNCHANGED <<vars, device>> /\ request' = request
  BY DEF SendFails
<1> QED
  BY <1>1, <1>2, <1>3, <1>4, QuietStep

\* The stream breaks, whether or not the device has acted: the command does not
\* follow up.
LEMMA LostInv ==
  ASSUME RInv, NEW c \in Task, Lost(c)
  PROVE  RInv'
<1>1. PICK u \in Unreachable(c) : cmd' = [cmd EXCEPT ![c] = u]
  BY DEF Lost
<1>2. u \in Fields /\ Good(u, "none", task[c], device)
  BY UnreachableGood DEF Lost
<1>3. request' = [request EXCEPT ![c] = "none"] /\ request'[c] = "none" /\ "none" \in Requests
  BY DEF Lost, RInv, Shapes, Requests
<1>4. records' \subseteq Peer \X Name /\ listeners' \subseteq records' /\ UNCHANGED <<vars, device>>
  BY Waiting DEF Lost
<1> QED
  BY <1>1, <1>2, <1>3, <1>4, QuietStep

\* The answer arrives: only a request that was carried out is followed up.
LEMMA ReceiveInv ==
  ASSUME RInv, NEW c \in Task, Receive(c)
  PROVE  RInv'
<1>1. PICK k \in Fields : k = cmd[c]
  BY DEF RInv, Shapes
<1>2. /\ Good(k, request[c], task[c], device) /\ k.pc = "sent" /\ task[c].pc = "idle"
      /\ records \subseteq Peer \X Name /\ listeners \subseteq records
  BY <1>1, Waiting DEF Receive, Looking
<1>3. request' = [request EXCEPT ![c] = "none"] /\ request'[c] = "none" /\ "none" \in Requests
  BY DEF Receive, RInv, Shapes, Requests
<1>4. records' \subseteq Peer \X Name /\ listeners' \subseteq records' /\ UNCHANGED <<vars, device>>
  BY <1>2 DEF Receive
<1>5. CASE request[c] = "ok"
  <2>1. PICK u \in Fields :
           /\ u = [k EXCEPT !.pc = "settle"] /\ u.pc = "settle" /\ u.op = k.op /\ u.peer = k.peer
           /\ u.name = k.name /\ u.managed = k.managed /\ u.published = k.published
           /\ u.always = k.always /\ u.ever = k.ever /\ u.seenUp = k.seenUp /\ u.executed = k.executed
    BY MovedFacts DEF Looking
  <2>2. cmd' = [cmd EXCEPT ![c] = u]
    BY <1>1, <1>5, <2>1 DEF Receive
  <2>3. Good(u, "none", task[c], device)
    BY <1>2, <1>5, <2>1 DEF Good, Linked, Watched, Heard, Carried, Looking
  <2> QED
    BY <1>3, <1>4, <2>2, <2>3, QuietStep
<1>6. CASE request[c] # "ok"
  <2>1. cmd' = [cmd EXCEPT ![c] = NoCommand]
    BY <1>6 DEF Receive
  <2>2. NoCommand \in Fields /\ Good(NoCommand, request'[c], task[c], device)
    BY <1>2, <1>3, NoCommandFacts, NoCommandGood
  <2> QED
    BY <1>3, <1>4, <2>1, <2>2, QuietStep
<1> QED
  BY <1>5, <1>6

\* apply ends with an observation, or goes on with a start, whose request the
\* device has not carried out yet.
LEMMA ApplyLocallyInv ==
  ASSUME RInv, NEW c \in Task, ApplyLocally(c)
  PROVE  RInv'
<1>1. PICK k \in Fields : k = cmd[c]
  BY DEF RInv, Shapes
<1>2. /\ Good(k, request[c], task[c], device) /\ k.pc = "local" /\ task[c].pc = "idle"
      /\ request[c] = "none" /\ records \subseteq Peer \X Name /\ listeners \subseteq records
  BY <1>1, Waiting DEF ApplyLocally, Looking
<1>3. UNCHANGED <<vars, device, request>> /\ records' \subseteq Peer \X Name /\ listeners' \subseteq records'
  BY <1>2 DEF ApplyLocally
<1>4. CASE cmd' = [cmd EXCEPT ![c] = Refreshing(c)]
  BY <1>1, <1>2, <1>3, <1>4, EndStep
<1>5. CASE cmd' = [cmd EXCEPT ![c] = Starting(c)]
  <2>1. PICK b \in BOOLEAN : b = (device[k.peer][k.name] = "running")
    <3>1. CASE device[k.peer][k.name] = "running"
      <4>1. (device[k.peer][k.name] = "running") = TRUE
        BY <3>1
      <4> QED
        BY <4>1, Zenon
    <3>2. CASE device[k.peer][k.name] # "running"
      <4>1. (device[k.peer][k.name] = "running") = FALSE
        BY <3>2
      <4> QED
        BY <4>1, Zenon
    <3> QED
      BY <3>1, <3>2
  <2>2. device[k.peer][k.name] = "running" => b
    BY <2>1
  <2>3. PICK w : w = [k EXCEPT !.op = "start", !.pc = "request"]
    OBVIOUS
  <2>4. w \in Fields
    BY <2>3 DEF Fields
  <2>5. /\ w.op = "start" /\ w.pc = "request" /\ w.peer = k.peer /\ w.name = k.name
        /\ w.managed = k.managed /\ w.published = k.published
    BY <2>3 DEF Fields
  <2>6. PICK u : u = [w EXCEPT !.executed = FALSE, !.seenUp = b]
    OBVIOUS
  <2>7. u \in Fields
    BY <2>4, <2>6 DEF Fields
  <2>8. /\ u.op = "start" /\ u.pc = "request" /\ u.peer = k.peer /\ u.name = k.name
        /\ u.managed = k.managed /\ u.published = k.published /\ u.seenUp = b
    BY <2>4, <2>5, <2>6 DEF Fields
  <2>9. u = [k EXCEPT !.op = "start", !.pc = "request", !.executed = FALSE, !.seenUp = b]
    BY <2>3, <2>6 DEF Fields
  <2>10. u = Starting(c)
    BY <1>1, <2>1, <2>9, Zenon DEF Starting
  <2>11. Good(u, "none", task[c], device)
    BY <1>2, <2>2, <2>8 DEF Good, Linked, Watched, Heard, Carried, Looking
  <2>12. cmd' = [cmd EXCEPT ![c] = u] /\ request'[c] = "none" /\ UNCHANGED <<vars, device>> /\ request' = request
    BY <1>2, <1>3, <1>5, <2>10
  <2> QED
    BY <1>3, <2>7, <2>11, <2>12, QuietStep
<1> QED
  BY <1>4, <1>5 DEF ApplyLocally

-----------------------------------------------------------------------------
\* The end of a call on the cache leaves the calls of other commands alone.
LEMMA FinishFacts ==
  ASSUME RInv, NEW c \in Task, Finish(c)
  PROVE  task'[c] = Idle /\ Idle.pc = "idle" /\ \A b \in Task \ {c} : task'[b] = task[b]
  BY DEF RInv, IInv, TypeOK, Finish, Idle

\* An observation begins: what the device has at this moment it has at every
\* moment of the observation so far.
LEMMA LookInv ==
  ASSUME RInv, NEW c \in Task, Look(c)
  PROVE  RInv' /\ [Next]_vars
<1>1. PICK k \in Fields : k = cmd[c]
  BY DEF RInv, Shapes
<1>2. /\ Good(k, request[c], task[c], device) /\ k.pc \in Looking /\ task[c].pc = "idle"
      /\ records \subseteq Peer \X Name /\ listeners \subseteq records
  BY <1>1, Waiting DEF Look, RefreshBegin, Begin, Busy
<1>3. k.peer \in Peer /\ request[c] = "none"
  BY <1>1, <1>2, Waiting DEF Good, Linked, Looking
<1>4. [Next]_vars
  BY <1>1, <1>3 DEF Look, Next
<1>5. PICK S \in SUBSET Name : S = Present(device[k.peer])
  BY DEF Present
<1>6. PICK u : u = [k EXCEPT !.managed = Unread, !.published = Unread, !.always = S, !.ever = S]
  OBVIOUS
<1>7. cmd' = [cmd EXCEPT ![c] = u]
  BY <1>1, <1>5, <1>6 DEF Look
<1>8. u \in Fields
  BY <1>6 DEF Fields
<1>9. /\ u.managed = Unread /\ u.published = Unread /\ u.always = S /\ u.ever = S /\ u.pc = k.pc
      /\ u.op = k.op /\ u.peer = k.peer /\ u.name = k.name /\ u.seenUp = k.seenUp /\ u.executed = k.executed
  BY <1>6 DEF Fields
<1>10. /\ task'[c].pc = "observe" /\ task'[c].peer = k.peer
       /\ \A b \in Task \ {c} : task'[b] = task[b]
  <2>1. task' = [task EXCEPT ![c] = [Idle EXCEPT !.pc = "observe", !.peer = k.peer, !.epoch = epochs[k.peer]]]
    BY <1>1 DEF Look, RefreshBegin, Begin
  <2> QED
    BY <2>1 DEF RInv, IInv, TypeOK, Idle
<1>11. Linked(u, "none", task'[c])
  BY <1>2, <1>3, <1>9, <1>10 DEF Good, Linked, Looking
<1>12. Watched(u, task'[c], device)
  BY <1>5, <1>9, <1>10 DEF Watched
<1>13. Heard(u, task'[c], device) /\ Carried(u, "none")
  BY <1>2, <1>3, <1>9, <1>10 DEF Good, Heard, Carried
<1>14. request' = request /\ UNCHANGED device /\ request \in [Task -> Requests]
       /\ records' \subseteq Peer \X Name /\ listeners' \subseteq records'
  BY <1>2 DEF Look, RInv, Shapes, Requests
<1>15. Good(u, request'[c], task'[c], device)
  BY <1>3, <1>11, <1>12, <1>13, <1>14 DEF Good
<1>16. RInv'
  BY <1>4, <1>7, <1>8, <1>10, <1>14, <1>15, OneStep
<1> QED
  BY <1>4, <1>16

\* The entry of a service in one of the two lists.
LEMMA EntryFacts ==
  ASSUME NEW n, NEW b \in BOOLEAN
  PROVE  /\ [name |-> n, published |-> b].name = n /\ [name |-> n, published |-> b].published = b
         /\ n \in Name => [name |-> n, published |-> b] \in Service
  BY EntriesAssumption

\* The list of managed services names exactly what the device has.
LEMMA ManagedFacts ==
  ASSUME NEW d \in [Name -> Status]
  PROVE  Managed(d) \in SUBSET Service /\ Names(Managed(d)) = Present(d)
<1>1. ASSUME NEW e \in Managed(d) PROVE e \in Service /\ e.name \in Present(d)
  <2>1. PICK n \in Present(d) : e = [name |-> n, published |-> FALSE]
    BY <1>1, Zenon DEF Managed
  <2>2. n \in Name
    BY DEF Present
  <2> QED
    BY <2>1, <2>2, EntryFacts
<1>2. ASSUME NEW n \in Present(d) PROVE n \in Names(Managed(d))
  <2>1. PICK e : e = [name |-> n, published |-> FALSE]
    OBVIOUS
  <2>2. e \in Managed(d)
    BY <2>1, Zenon DEF Managed
  <2>3. e.name = n
    BY <2>1, EntryFacts
  <2> QED
    BY <2>2, <2>3 DEF Names
<1>3. ASSUME NEW n \in Names(Managed(d)) PROVE n \in Present(d)
  <2>1. PICK e \in Managed(d) : n = e.name
    BY <1>3 DEF Names
  <2> QED
    BY <1>1, <2>1
<1> QED
  BY <1>1, <1>2, <1>3

\* The list of published services names only what runs.
LEMMA PublishedFacts ==
  ASSUME NEW d \in [Name -> Status]
  PROVE  /\ Published(d) \in SUBSET Service
         /\ \A n \in Names(Published(d)) : n \in Name /\ d[n] = "running" /\ n \in Present(d)
<1>1. ASSUME NEW e \in Published(d)
      PROVE  e \in Service /\ e.name \in Name /\ d[e.name] = "running" /\ e.name \in Present(d)
  <2>1. PICK n \in {m \in Name : d[m] = "running"} : e = [name |-> n, published |-> TRUE]
    BY <1>1, Zenon DEF Published
  <2>2. n \in Name /\ d[n] = "running" /\ n \in Present(d)
    BY <2>1 DEF Present
  <2> QED
    BY <2>1, <2>2, EntryFacts
<1>2. ASSUME NEW n \in Names(Published(d)) PROVE n \in Name /\ d[n] = "running" /\ n \in Present(d)
  <2>1. PICK e \in Published(d) : n = e.name
    BY <1>2 DEF Names
  <2> QED
    BY <1>1, <2>1
<1> QED
  BY <1>1, <1>2

\* The list of managed services arrives: it is what the device has at a moment
\* of the observation.
LEMMA ReadManagedInv ==
  ASSUME RInv, NEW c \in Task, ReadManaged(c)
  PROVE  RInv'
<1>1. PICK k \in Fields : k = cmd[c]
  BY DEF RInv, Shapes
<1>2. /\ Good(k, request[c], task[c], device) /\ task[c].pc = "observe"
      /\ records \subseteq Peer \X Name /\ listeners \subseteq records
  BY <1>1, Waiting DEF ReadManaged
<1>3. k.pc \in Looking /\ k.peer \in Peer /\ device[k.peer] \in [Name -> Status]
  BY <1>2 DEF Good, Linked, Looking, RInv, Shapes
<1>4. PICK l \in SUBSET Service : l = Managed(device[k.peer]) /\ Names(l) = Present(device[k.peer])
  BY <1>3, ManagedFacts
<1>5. PICK u : u = [k EXCEPT !.managed = l]
  OBVIOUS
<1>6. u \in Fields
  BY <1>5 DEF Fields
<1>7. /\ u.managed = l /\ u.published = k.published /\ u.always = k.always /\ u.ever = k.ever /\ u.pc = k.pc
      /\ u.op = k.op /\ u.peer = k.peer /\ u.name = k.name /\ u.seenUp = k.seenUp /\ u.executed = k.executed
  BY <1>5 DEF Fields
<1>8. cmd' = [cmd EXCEPT ![c] = u] /\ UNCHANGED <<vars, device>> /\ request' = request
      /\ records' \subseteq Peer \X Name /\ listeners' \subseteq records'
  BY <1>1, <1>2, <1>4, <1>5 DEF ReadManaged
<1>9. Good(u, request[c], task[c], device)
  BY <1>2, <1>4, <1>7 DEF Good, Linked, Watched, Heard, Carried
<1> QED
  BY <1>6, <1>8, <1>9, QuietStep

\* The list of published services arrives, perhaps empty: what it names was
\* running at a moment since the command began.
LEMMA ReadPublishedInv ==
  ASSUME RInv, NEW c \in Task, ReadPublished(c)
  PROVE  RInv'
<1>1. PICK k \in Fields : k = cmd[c]
  BY DEF RInv, Shapes
<1>2. /\ Good(k, request[c], task[c], device) /\ task[c].pc = "observe"
      /\ records \subseteq Peer \X Name /\ listeners \subseteq records
  BY <1>1, Waiting DEF ReadPublished
<1>3. k.pc \in Looking /\ k.peer \in Peer /\ device[k.peer] \in [Name -> Status]
  BY <1>2 DEF Good, Linked, Looking, RInv, Shapes
<1>4. PICK l \in {Published(device[k.peer]), {}} : cmd' = [cmd EXCEPT ![c].published = l]
  BY <1>1 DEF ReadPublished
<1>5. /\ l \in SUBSET Service
      /\ \A n \in Names(l) : n \in Name /\ device[k.peer][n] = "running" /\ n \in Present(device[k.peer])
  BY <1>3, <1>4, PublishedFacts DEF Names
<1>6. PICK u : u = [k EXCEPT !.published = l]
  OBVIOUS
<1>7. u \in Fields
  BY <1>5, <1>6 DEF Fields
<1>8. /\ u.published = l /\ u.managed = k.managed /\ u.always = k.always /\ u.ever = k.ever /\ u.pc = k.pc
      /\ u.op = k.op /\ u.peer = k.peer /\ u.name = k.name /\ u.seenUp = k.seenUp /\ u.executed = k.executed
  BY <1>6 DEF Fields
<1>9. cmd' = [cmd EXCEPT ![c] = u] /\ UNCHANGED <<vars, device>> /\ request' = request
      /\ records' \subseteq Peer \X Name /\ listeners' \subseteq records'
  BY <1>1, <1>2, <1>4, <1>6 DEF ReadPublished
<1>10. Linked(u, request[c], task[c]) /\ Carried(u, request[c])
  BY <1>2, <1>8 DEF Good, Linked, Carried
<1>11. Watched(u, task[c], device)
  BY <1>2, <1>5, <1>8 DEF Good, Watched
<1>12. Heard(u, task[c], device)
  BY <1>2, <1>3, <1>5, <1>8 DEF Good, Heard, Looking
<1> QED
  BY <1>7, <1>9, <1>10, <1>11, <1>12, QuietStep DEF Good

\* The snapshot made of the two lists names every managed service and nothing
\* that is in neither, and calls published only what the published list names.
LEMMA MergeFacts ==
  ASSUME NEW m \in SUBSET Service, NEW l \in SUBSET Service
  PROVE  /\ Merge(m, l) \in SUBSET Service
         /\ Names(m) \subseteq Names(Merge(m, l))
         /\ Names(Merge(m, l)) \subseteq Names(m) \cup Names(l)
         /\ \A e \in Merge(m, l) : e.published => e.name \in Names(l)
<1>1. Names(l) = {e.name : e \in l}
  BY DEF Names
<1>2. ASSUME NEW e \in m
      PROVE  \E f \in Service :
               /\ f = [e EXCEPT !.published = e.name \in {x.name : x \in l}]
               /\ f.name = e.name /\ (f.published => e.name \in Names(l))
  <2>1. PICK b \in BOOLEAN : b = (e.name \in {x.name : x \in l})
    <3>1. CASE e.name \in {x.name : x \in l}
      <4>1. (e.name \in {x.name : x \in l}) = TRUE
        BY <3>1
      <4> QED
        BY <4>1, Zenon
    <3>2. CASE e.name \notin {x.name : x \in l}
      <4>1. (e.name \in {x.name : x \in l}) = FALSE
        BY <3>2
      <4> QED
        BY <4>1, Zenon
    <3> QED
      BY <3>1, <3>2
  <2>2. b => e.name \in Names(l)
    BY <1>1, <2>1
  <2>3. PICK f : f = [e EXCEPT !.published = b]
    OBVIOUS
  <2>4. e \in [name : Name, published : BOOLEAN]
    BY EntriesAssumption
  <2>5. f \in [name : Name, published : BOOLEAN] /\ f.name = e.name /\ f.published = b
    BY <2>3, <2>4
  <2>6. f = [e EXCEPT !.published = e.name \in {x.name : x \in l}]
    BY <2>1, <2>3, Zenon
  <2> QED
    BY <2>2, <2>5, <2>6, EntriesAssumption
<1>3. PICK P : P = {[e EXCEPT !.published = e.name \in {x.name : x \in l}] : e \in m}
  OBVIOUS
<1>4. PICK Q : Q = {e \in l : \A x \in m : x.name # e.name}
  OBVIOUS
<1>5. Merge(m, l) = P \cup Q
  BY <1>3, <1>4, Zenon DEF Merge
<1>6. ASSUME NEW f \in P
      PROVE  f \in Service /\ f.name \in Names(m) /\ (f.published => f.name \in Names(l))
  <2>1. PICK e \in m : f = [e EXCEPT !.published = e.name \in {x.name : x \in l}]
    BY <1>3, <1>6, Zenon
  <2> QED
    BY <1>2, <2>1 DEF Names
<1>7. ASSUME NEW e \in m PROVE \E f \in P : f.name = e.name
  <2>1. PICK f \in Service :
          /\ f = [e EXCEPT !.published = e.name \in {x.name : x \in l}] /\ f.name = e.name
    BY <1>2
  <2>2. f \in P
    BY <1>3, <2>1, Zenon
  <2> QED
    BY <2>1, <2>2
<1>8. \A e \in Q : e \in Service /\ e.name \in Names(l)
  BY <1>4 DEF Names
<1> QED
  BY <1>5, <1>6, <1>7, <1>8 DEF Names

\* The command once its two lists have become a snapshot.
LEMMA RestedFacts ==
  ASSUME RInv, NEW c \in Task
  PROVE  \E u \in Fields :
           /\ u = Rested(c) /\ u.pc = cmd[c].pc /\ u.op = cmd[c].op /\ u.peer = cmd[c].peer
           /\ u.name = cmd[c].name /\ u.seenUp = cmd[c].seenUp /\ u.executed = cmd[c].executed
           /\ u.managed = Unread /\ u.published = Unread /\ u.always = {} /\ u.ever = {}
<1>1. PICK k \in Fields : k = cmd[c]
  BY DEF RInv, Shapes
<1>2. PICK u : u = [k EXCEPT !.managed = Unread, !.published = Unread, !.always = {}, !.ever = {}]
  OBVIOUS
<1>3. u \in Fields
  BY <1>2 DEF Fields
<1>4. u.pc = k.pc /\ u.op = k.op /\ u.peer = k.peer /\ u.name = k.name
  BY <1>2 DEF Fields
<1>5. u.seenUp = k.seenUp /\ u.executed = k.executed
  BY <1>2 DEF Fields
<1>6. u.managed = Unread /\ u.published = Unread /\ u.always = {} /\ u.ever = {}
  BY <1>2 DEF Fields
<1>7. u = Rested(c)
  BY <1>1, <1>2 DEF Rested
<1> QED
  BY <1>1, <1>3, <1>4, <1>5, <1>6, <1>7

\* Both lists are in: the snapshot that is offered to the cache calls published
\* only what the command has seen running.
LEMMA AnswerInv ==
  ASSUME RInv, NEW c \in Task, Answer(c)
  PROVE  RInv' /\ [Next]_vars
<1>1. PICK k \in Fields : k = cmd[c]
  BY DEF RInv, Shapes
<1>2. /\ Good(k, request[c], task[c], device) /\ task[c].pc = "observe"
      /\ records \subseteq Peer \X Name /\ listeners \subseteq records
      /\ k.managed # Unread /\ k.published # Unread
  BY <1>1, Waiting DEF Answer, RefreshAnswer, Observed
<1>3. PICK m \in SUBSET Service, l \in SUBSET Service : m = k.managed /\ l = k.published
  BY <1>2 DEF Fields
<1>4. PICK M \in SUBSET Service : M = Merge(m, l) /\ \A e \in M : e.published => e.name \in Names(l)
  BY MergeFacts
<1>5. PICK s \in Snapshot : s = [services |-> M] /\ s.services = M
  <2>1. PICK s : s = [services |-> M]
    OBVIOUS
  <2>2. s \in Snapshot /\ s.services = M
    BY <2>1 DEF Snapshot
  <2> QED
    BY <2>1, <2>2
<1>6. RefreshAnswer(c, s)
  BY <1>1, <1>3, <1>4, <1>5 DEF Answer
<1>7. [Next]_vars
  BY <1>6 DEF Next
<1>8. PICK t \in Tasks : t = task[c]
  BY DEF RInv, IInv, TypeOK
<1>9. PICK t2 : t2 = [t EXCEPT !.pc = "save", !.seen = s]
  OBVIOUS
<1>10. t2.pc = "save" /\ t2.seen = s /\ t2.peer = t.peer
  BY <1>9 DEF Tasks
<1>11. task'[c] = t2 /\ \A b \in Task \ {c} : task'[b] = task[b]
  BY <1>6, <1>8, <1>9 DEF RefreshAnswer, RInv, IInv, TypeOK
<1>12. PICK u \in Fields :
         /\ u = Rested(c) /\ u.pc = k.pc /\ u.op = k.op /\ u.peer = k.peer
         /\ u.name = k.name /\ u.seenUp = k.seenUp /\ u.executed = k.executed
         /\ u.managed = Unread /\ u.published = Unread /\ u.always = {} /\ u.ever = {}
  BY <1>1, RestedFacts
<1>13. cmd' = [cmd EXCEPT ![c] = u] /\ UNCHANGED device /\ request' = request /\ request \in [Task -> Requests]
       /\ records' \subseteq Peer \X Name /\ listeners' \subseteq records'
  BY <1>2, <1>12 DEF Answer, RInv, Shapes, Requests
<1>14. Linked(u, request[c], t2) /\ Carried(u, request[c]) /\ Watched(u, t2, device)
  BY <1>2, <1>8, <1>10, <1>12 DEF Good, Linked, Carried, Watched
<1>15. Heard(u, t2, device)
  BY <1>2, <1>3, <1>4, <1>5, <1>10, <1>12 DEF Good, Heard, Looking
<1>16. RInv'
  BY <1>7, <1>11, <1>12, <1>13, <1>14, <1>15, OneStep DEF Good
<1> QED
  BY <1>7, <1>16

\* Whatever a command becomes when its observation has ended, it binds only a
\* service that a live observation has shown published; an answer from the
\* cache takes it nowhere near.
LEMMA AfterGood ==
  ASSUME RInv, NEW c \in Task, cmd[c].pc \in Looking, NEW live \in BOOLEAN, NEW services,
         live /\ cmd[c].op \in {"connect", "start"} /\ Has(c, services, TRUE) => cmd[c].seenUp,
         NEW u \in After(c, live, services), NEW t, t.pc = "idle"
  PROVE  u \in Fields /\ Good(u, "none", t, device)
<1>1. Good(cmd[c], request[c], task[c], device) /\ cmd[c].pc \notin {"idle", "gone"}
  BY Waiting DEF Looking
<1>2. NoCommand \in Fields /\ Good(NoCommand, "none", t, device)
  BY NoCommandFacts, NoCommandGood
<1>3. Refreshing(c) \in Fields /\ Good(Refreshing(c), "none", t, device)
  BY <1>1, RefreshingGood
<1>4. cmd[c].pc \in {"discover", "attach", "restore"} => cmd[c].op \in {"connect", "start"}
  BY <1>1 DEF Good, Heard
<1>5. cmd[c].pc \in {"settle"} => cmd[c].executed
  BY <1>1 DEF Good, Carried
<1>6. CASE cmd[c].pc = "confirm"
  <2>1. cmd[c].op \in {"apply", "start", "stop", "remove"}
    BY <1>1, <1>6 DEF Good, Linked
  <2>2. To(c, "request") \in Fields /\ Good(To(c, "request"), "none", t, device)
    BY <1>1, <2>1, ToGood
  <2> QED
    BY <1>2, <1>6, <2>2 DEF After, AfterConfirm
<1>7. CASE cmd[c].pc = "settle"
  <2>1. To(c, "local") \in Fields /\ Good(To(c, "local"), "none", t, device)
    BY <1>1, <1>5, <1>7, ToGood
  <2> QED
    BY <1>7, <2>1 DEF After, AfterSettle
<1>8. CASE cmd[c].pc = "discover"
  <2>1. To(c, "attach") \in Fields /\ Good(To(c, "attach"), "none", t, device)
    BY <1>1, <1>4, <1>8, ToGood DEF Looking
  <2> QED
    BY <1>2, <1>3, <1>8, <2>1 DEF After, AfterDiscover, AfterMissing
<1>9. CASE cmd[c].pc \in {"attach", "restore"}
  <2>1. u = IF live /\ Has(c, services, TRUE) THEN To(c, "bind") ELSE NoCommand
    BY <1>9 DEF After, AfterAttach, AfterRestore
  <2>2. CASE live /\ Has(c, services, TRUE)
    <3>1. To(c, "bind") \in Fields /\ Good(To(c, "bind"), "none", t, device)
      BY <1>1, <1>4, <1>9, <2>2, ToGood
    <3> QED
      BY <2>1, <2>2, <3>1
  <2>3. CASE ~ (live /\ Has(c, services, TRUE))
    BY <1>2, <2>1, <2>3
  <2> QED
    BY <2>2, <2>3
<1>10. CASE cmd[c].pc = "list"
  BY <1>2, <1>10 DEF After
<1> QED
  BY <1>6, <1>7, <1>8, <1>9, <1>10 DEF Looking

\* An observation is stored, or dropped because it is no longer wanted, or
\* could not be written, and its command goes on.
LEMMA LookDoneInv ==
  ASSUME RInv, NEW c \in Task, LookDone(c)
  PROVE  RInv' /\ [Next]_vars
<1>1. [Next]_vars
  BY DEF LookDone, Next
<1>2. /\ task'[c] = Idle /\ Idle.pc = "idle" /\ \A b \in Task \ {c} : task'[b] = task[b]
  BY FinishFacts DEF LookDone, SaveIfCurrent
<1>3. /\ Good(cmd[c], request[c], task[c], device) /\ cmd[c].pc \in Looking /\ task[c].pc = "save"
      /\ records \subseteq Peer \X Name /\ listeners \subseteq records /\ request[c] = "none"
  BY Waiting DEF LookDone, SaveIfCurrent, Looking
<1>4. cmd[c].op \in {"connect", "start"} /\ Has(c, task[c].seen.services, TRUE) => cmd[c].seenUp
  BY <1>3 DEF Good, Heard, Has, Looking
<1>5. \/ \E u \in After(c, TRUE, task[c].seen.services) : cmd' = [cmd EXCEPT ![c] = u]
      \/ \E u \in After(c, FALSE, Shown(cmd[c].peer)) : cmd' = [cmd EXCEPT ![c] = u]
  BY DEF LookDone
<1>6. PICK u \in Fields : Good(u, "none", Idle, device) /\ cmd' = [cmd EXCEPT ![c] = u]
  <2>1. ASSUME NEW u \in After(c, TRUE, task[c].seen.services)
        PROVE  u \in Fields /\ Good(u, "none", Idle, device)
    BY <1>2, <1>3, <1>4, AfterGood
  <2>2. ASSUME NEW u \in After(c, FALSE, Shown(cmd[c].peer))
        PROVE  u \in Fields /\ Good(u, "none", Idle, device)
    BY <1>2, <1>3, AfterGood
  <2> QED
    BY <1>5, <2>1, <2>2
<1>7. UNCHANGED device /\ request' = request /\ request \in [Task -> Requests]
      /\ records' \subseteq Peer \X Name /\ listeners' \subseteq records'
  BY <1>3 DEF LookDone, RInv, Shapes, Requests
<1>8. RInv'
  BY <1>1, <1>2, <1>3, <1>6, <1>7, OneStep
<1> QED
  BY <1>1, <1>8

\* An observation fails and its command is shown the cache.
LEMMA LookFailsInv ==
  ASSUME RInv, NEW c \in Task, LookFails(c)
  PROVE  RInv' /\ [Next]_vars
<1>1. [Next]_vars
  BY DEF LookFails, Next
<1>2. /\ task'[c] = Idle /\ Idle.pc = "idle" /\ \A b \in Task \ {c} : task'[b] = task[b]
  BY FinishFacts DEF LookFails, RefreshError
<1>3. /\ cmd[c].pc \in Looking /\ request[c] = "none"
      /\ records \subseteq Peer \X Name /\ listeners \subseteq records
  BY Waiting DEF LookFails, Looking
<1>4. PICK u \in After(c, FALSE, Shown(cmd[c].peer)) : cmd' = [cmd EXCEPT ![c] = u]
  BY DEF LookFails
<1>5. u \in Fields /\ Good(u, "none", Idle, device)
  BY <1>2, <1>3, AfterGood
<1>6. UNCHANGED device /\ request' = request /\ request \in [Task -> Requests]
      /\ records' \subseteq Peer \X Name /\ listeners' \subseteq records'
  BY <1>3 DEF LookFails, RInv, Shapes, Requests
<1>7. RInv'
  BY <1>1, <1>2, <1>3, <1>4, <1>5, <1>6, OneStep
<1> QED
  BY <1>1, <1>7

-----------------------------------------------------------------------------
\* `service remove --local-only' begins its call on the cache.
LEMMA ForgetCachedInv ==
  ASSUME RInv, NEW c \in Task, ForgetCached(c)
  PROVE  RInv' /\ [Next]_vars
<1>1. PICK k \in Fields : k = cmd[c]
  BY DEF RInv, Shapes
<1>2. /\ Good(k, request[c], task[c], device) /\ k.pc = "forget" /\ task[c].pc = "idle"
      /\ records \subseteq Peer \X Name /\ listeners \subseteq records /\ request[c] = "none"
  BY <1>1, Waiting DEF ForgetCached, ForgetBegin, Begin, Busy
<1>3. k.peer \in Peer
  BY <1>2 DEF Good, Linked
<1>4. [Next]_vars
  BY <1>1, <1>3 DEF ForgetCached, Next
<1>5. /\ task'[c].pc = "read" /\ task'[c].peer = k.peer
      /\ \A b \in Task \ {c} : task'[b] = task[b]
  <2>1. task' = [task EXCEPT ![c] = [Idle EXCEPT !.pc = "read", !.peer = k.peer, !.epoch = epochs[k.peer]]]
    BY <1>1 DEF ForgetCached, ForgetBegin, Begin
  <2> QED
    BY <2>1 DEF RInv, IInv, TypeOK, Idle
<1>6. Good(k, "none", task'[c], device)
  BY <1>2, <1>5 DEF Good, Linked, Watched, Heard, Carried, Looking
<1>7. cmd' = [cmd EXCEPT ![c] = k]
  BY <1>1 DEF ForgetCached, RInv, Shapes
<1>8. UNCHANGED device /\ request' = request /\ request \in [Task -> Requests]
      /\ records' \subseteq Peer \X Name /\ listeners' \subseteq records'
  BY <1>2 DEF ForgetCached, RInv, Shapes, Requests
<1>9. RInv'
  BY <1>2, <1>4, <1>5, <1>6, <1>7, <1>8, OneStep
<1> QED
  BY <1>4, <1>9

\* It has read the cache; a service that is not in it ends the command with an
\* error.
LEMMA ForgetCachedReadInv ==
  ASSUME RInv, NEW c \in Task, ForgetCachedRead(c)
  PROVE  RInv' /\ [Next]_vars
<1>1. PICK k \in Fields : k = cmd[c]
  BY DEF RInv, Shapes
<1>2. /\ Good(k, request[c], task[c], device) /\ k.pc = "forget"
      /\ records \subseteq Peer \X Name /\ listeners \subseteq records /\ request[c] = "none"
  BY <1>1, Waiting DEF ForgetCachedRead
<1>3. PICK mine, old : /\ mine \in SUBSET Service
                       /\ old = mine \cap Shown(k.peer)
                       /\ \E e \in IF old = {} THEN mine ELSE old : ForgetRead(c, e)
                       /\ cmd' = IF old = {} THEN [cmd EXCEPT ![c] = NoCommand] ELSE cmd
  BY <1>1 DEF ForgetCachedRead
<1>4. PICK e \in Service : (e \in IF old = {} THEN mine ELSE old) /\ ForgetRead(c, e)
  BY <1>3
<1>5. [Next]_vars
  BY <1>4 DEF Next
<1>6. PICK t \in Tasks : t = task[c]
  BY DEF RInv, IInv, TypeOK
<1>7. t.pc = "read" /\ t.peer = k.peer
  BY <1>2, <1>4, <1>6 DEF ForgetRead, Good, Linked
<1>8. UNCHANGED device /\ request' = request /\ request \in [Task -> Requests]
      /\ records' \subseteq Peer \X Name /\ listeners' \subseteq records'
  BY <1>2 DEF ForgetCachedRead, RInv, Shapes, Requests
<1>9. CASE old = {}
  <2>1. ~ (cache[k.peer] # NoSnapshot /\ e \in cache[k.peer].services)
    BY <1>3, <1>4, <1>9 DEF Shown
  <2>2. Finish(c)
    BY <1>4, <1>6, <1>7, <2>1 DEF ForgetRead
  <2>3. task'[c] = Idle /\ Idle.pc = "idle" /\ \A b \in Task \ {c} : task'[b] = task[b]
    BY <2>2, FinishFacts
  <2>4. NoCommand \in Fields /\ Good(NoCommand, "none", Idle, device)
    BY <2>3, NoCommandFacts, NoCommandGood
  <2>5. RInv'
    BY <1>2, <1>3, <1>5, <1>8, <1>9, <2>3, <2>4, OneStep
  <2> QED
    BY <1>5, <2>5
<1>10. CASE old # {}
  <2>1. cmd' = [cmd EXCEPT ![c] = k]
    BY <1>1, <1>3, <1>10 DEF RInv, Shapes
  <2>2. cache[k.peer] # NoSnapshot /\ e \in cache[k.peer].services
    BY <1>3, <1>4, <1>10 DEF Shown
  <2>3. PICK s : s = [services |-> cache[k.peer].services \ {e}]
    OBVIOUS
  <2>4. task' = [task EXCEPT ![c].pc = "save", ![c].seen = s]
    BY <1>4, <1>6, <1>7, <2>2, <2>3 DEF ForgetRead
  <2>5. PICK t2 : t2 = [t EXCEPT !.pc = "save", !.seen = s]
    OBVIOUS
  <2>6. t2.pc = "save" /\ t2.seen = s /\ t2.peer = t.peer
    BY <2>5 DEF Tasks
  <2>7. task'[c] = t2 /\ \A b \in Task \ {c} : task'[b] = task[b]
    BY <1>6, <2>4, <2>5 DEF RInv, IInv, TypeOK
  <2>8. Good(k, "none", t2, device)
    BY <1>2, <1>6, <1>7, <2>6 DEF Good, Linked, Watched, Heard, Carried, Looking
  <2>9. RInv'
    BY <1>2, <1>5, <1>8, <2>1, <2>7, <2>8, OneStep
  <2> QED
    BY <1>5, <2>9
<1> QED
  BY <1>9, <1>10

\* It has written the cache, or could not.
LEMMA ForgetCachedSaveInv ==
  ASSUME RInv, NEW c \in Task, ForgetCachedSave(c)
  PROVE  RInv' /\ [Next]_vars
<1>1. PICK k \in Fields : k = cmd[c]
  BY DEF RInv, Shapes
<1>2. /\ Good(k, request[c], task[c], device) /\ k.pc = "forget" /\ task[c].pc = "save"
      /\ records \subseteq Peer \X Name /\ listeners \subseteq records /\ request[c] = "none"
  BY <1>1, Waiting DEF ForgetCachedSave, SaveIfCurrent
<1>3. [Next]_vars
  BY DEF ForgetCachedSave, Next
<1>4. /\ task'[c] = Idle /\ Idle.pc = "idle" /\ \A b \in Task \ {c} : task'[b] = task[b]
  BY FinishFacts DEF ForgetCachedSave, SaveIfCurrent
<1>5. PICK u \in Fields :
         /\ u = [k EXCEPT !.pc = "forgotten"] /\ u.pc = "forgotten" /\ u.op = k.op /\ u.peer = k.peer
         /\ u.name = k.name /\ u.managed = k.managed /\ u.published = k.published
         /\ u.always = k.always /\ u.ever = k.ever /\ u.seenUp = k.seenUp /\ u.executed = k.executed
  BY MovedFacts
<1>6. Good(u, "none", Idle, device)
  BY <1>2, <1>4, <1>5 DEF Good, Linked, Watched, Heard, Carried, Looking
<1>7. NoCommand \in Fields /\ Good(NoCommand, "none", Idle, device)
  BY <1>4, NoCommandFacts, NoCommandGood
<1>8. cmd' = [cmd EXCEPT ![c] = u] \/ cmd' = [cmd EXCEPT ![c] = NoCommand]
  BY <1>1, <1>5 DEF ForgetCachedSave
<1>9. UNCHANGED device /\ request' = request /\ request \in [Task -> Requests]
      /\ records' \subseteq Peer \X Name /\ listeners' \subseteq records'
  BY <1>2 DEF ForgetCachedSave, RInv, Shapes, Requests
<1>10. RInv'
  BY <1>2, <1>3, <1>4, <1>6, <1>7, <1>8, <1>9, OneStep
<1> QED
  BY <1>3, <1>10

-----------------------------------------------------------------------------
\* Of a command whose handler is dropped nothing is left but a request on its
\* way to the device.
LEMMA GoneGood ==
  ASSUME RInv, NEW c \in Task, NEW t, t.pc = "idle",
         NEW u, u = IF request[c] = "sent" THEN To(c, "gone") ELSE NoCommand,
         NEW r, r = IF request[c] = "sent" THEN "sent" ELSE "none", NEW D
  PROVE  u \in Fields /\ Good(u, r, t, D)
<1>1. CASE request[c] = "sent"
  <2>1. PICK v \in Fields :
           /\ v = To(c, "gone") /\ v.pc = "gone" /\ v.op = cmd[c].op /\ v.peer = cmd[c].peer
           /\ v.name = cmd[c].name /\ v.managed = Unread /\ v.published = Unread
    BY ToFacts
  <2>2. cmd[c].peer \in Peer /\ cmd[c].name \in Name /\ cmd[c].op \in {"apply", "start", "stop", "remove"}
    BY <1>1, Waiting DEF Good, Linked
  <2> QED
    BY <1>1, <2>1, <2>2 DEF Good, Linked, Watched, Heard, Carried, Looking
<1>2. CASE request[c] # "sent"
  BY <1>2, NoCommandFacts, NoCommandGood
<1> QED
  BY <1>1, <1>2

\* A command is given up at an await, with its observation, if one is under
\* way, failing.
LEMMA GiveUpInv ==
  ASSUME RInv, NEW c \in Task, GiveUp(c)
  PROVE  RInv' /\ [Next]_vars
<1>1. [Next]_vars
  BY DEF GiveUp, Next
<1>2. task'[c].pc = "idle" /\ \A b \in Task \ {c} : task'[b] = task[b]
  <2>1. CASE Busy(c)
    BY <2>1, FinishFacts DEF GiveUp, RefreshError
  <2>2. CASE ~ Busy(c)
    BY <2>2 DEF GiveUp, Busy, vars
  <2> QED
    BY <2>1, <2>2
<1>3. PICK u : u = IF request[c] = "sent" THEN To(c, "gone") ELSE NoCommand
  OBVIOUS
<1>4. PICK r \in Requests : r = IF request[c] = "sent" THEN "sent" ELSE "none"
  BY DEF Requests
<1>5. cmd' = [cmd EXCEPT ![c] = u] /\ request' = [request EXCEPT ![c] = r]
  BY <1>3, <1>4 DEF GiveUp, To
<1>6. u \in Fields /\ Good(u, r, task'[c], device)
  BY <1>2, <1>3, <1>4, GoneGood
<1>7. /\ request' \in [Task -> Requests] /\ request'[c] = r
      /\ \A b \in Task \ {c} : request'[b] = request[b]
  BY <1>5 DEF RInv, Shapes, Requests
<1>8. UNCHANGED device /\ records' \subseteq Peer \X Name /\ listeners' \subseteq records'
  BY Waiting DEF GiveUp
<1>9. RInv'
  BY <1>1, <1>2, <1>5, <1>6, <1>7, <1>8, OneStep
<1> QED
  BY <1>1, <1>9

\* The daemon restarts: all handlers are dropped, requests on their way are
\* not.
LEMMA RestartDaemonInv ==
  ASSUME RInv, RestartDaemon
  PROVE  RInv' /\ [Next]_vars
<1>1. [Next]_vars
  BY DEF RestartDaemon, Next
<1>2. \A c \in Task : task'[c].pc = "idle"
  BY DEF RestartDaemon, Restart, Idle
<1>3. ASSUME NEW c \in Task
      PROVE  cmd'[c] \in Fields /\ request'[c] \in Requests /\ Good(cmd'[c], request'[c], task'[c], device)
  <2>1. cmd'[c] = IF request[c] = "sent" THEN To(c, "gone") ELSE NoCommand
    BY DEF RestartDaemon, To
  <2>2. request'[c] = IF request[c] = "sent" THEN "sent" ELSE "none"
    BY DEF RestartDaemon
  <2>3. cmd'[c] \in Fields /\ Good(cmd'[c], request'[c], task'[c], device)
    BY <1>2, <2>1, <2>2, GoneGood
  <2> QED
    BY <2>2, <2>3 DEF Requests
<1>4. /\ cmd' \in [Task -> Fields] /\ request' \in [Task -> Requests]
  <2>1. PICK f : f = cmd'
    OBVIOUS
  <2>2. f = [c \in Task |-> f[c]]
    BY <2>1 DEF RestartDaemon
  <2>3. cmd' \in [Task -> Fields]
    BY <1>3, <2>1, <2>2
  <2>4. request' \in [Task -> Requests]
    BY DEF RestartDaemon, Requests
  <2> QED
    BY <2>3, <2>4
<1>5. device' = device /\ records' = records /\ listeners' \subseteq records
  BY DEF RestartDaemon
<1>6. IInv'
  BY <1>1, NextIInv DEF RInv
<1>7. Shapes'
  BY <1>4, <1>5 DEF RInv, Shapes, Requests
<1>8. CommandsGood'
  BY <1>3, <1>5 DEF CommandsGood
<1> QED
  BY <1>1, <1>6, <1>7, <1>8 DEF RInv

\* Accesses that come and go without a command leave the commands alone.
LEMMA AccessesInv ==
  ASSUME RInv, UNCHANGED <<device, cmd, request, task>>, [Next]_vars,
         records' \subseteq Peer \X Name, listeners' \subseteq records'
  PROVE  RInv'
<1>1. IInv'
  BY NextIInv DEF RInv
<1>2. Shapes'
  BY DEF RInv, Shapes
<1>3. CommandsGood'
  BY DEF RInv, CommandsGood
<1> QED
  BY <1>1, <1>2, <1>3 DEF RInv

\* The device is removed: its snapshot is dropped and its accesses are
\* forgotten.
LEMMA RemoveDeviceInv ==
  ASSUME RInv, NEW p \in Peer, RemoveDevice(p)
  PROVE  RInv' /\ [Next]_vars
<1>1. [Next]_vars
  BY DEF RemoveDevice, Next
<1>2. task' = task
  BY DEF RemoveDevice, Remove, RemoveOverflow, vars
<1>3. records \subseteq Peer \X Name /\ listeners \subseteq records
  BY DEF RInv, Shapes
<1>4. records' \subseteq Peer \X Name /\ listeners' \subseteq records'
  BY <1>3 DEF RemoveDevice
<1>5. UNCHANGED <<device, cmd, request, task>>
  BY <1>2 DEF RemoveDevice
<1>6. RInv'
  BY <1>1, <1>4, <1>5, AccessesInv
<1> QED
  BY <1>1, <1>6

\* `service disconnect' takes down a listener and keeps its record.
LEMMA DisconnectInv ==
  ASSUME RInv, NEW p \in Peer, NEW n \in Name, Disconnect(p, n)
  PROVE  RInv' /\ [Next]_vars
<1>1. records \subseteq Peer \X Name /\ listeners \subseteq records
  BY DEF RInv, Shapes
<1>2. UNCHANGED <<device, cmd, request, task>> /\ [Next]_vars
      /\ records' \subseteq Peer \X Name /\ listeners' \subseteq records'
  BY <1>1 DEF Disconnect, vars
<1> QED
  BY <1>2, AccessesInv

-----------------------------------------------------------------------------
\* What a command notices when the services of p become d: an observation of p
\* under way, that d is one of its moments, and a connect or start, that its
\* service runs.
LEMMA WitnessedFacts ==
  ASSUME RInv, NEW p \in Peer, NEW d \in [Name -> Status], NEW c \in Task
  PROVE  \E u \in Fields :
           /\ u = Witnessed(p, d)[c]
           /\ u.pc = cmd[c].pc /\ u.op = cmd[c].op /\ u.peer = cmd[c].peer /\ u.name = cmd[c].name
           /\ u.managed = cmd[c].managed /\ u.published = cmd[c].published
           /\ u.executed = cmd[c].executed /\ (cmd[c].seenUp => u.seenUp)
           /\ cmd[c].peer # p \/ cmd[c].pc \in {"idle", "gone"} => u = cmd[c]
           /\ cmd[c].peer = p /\ cmd[c].pc \notin {"idle", "gone"} =>
                /\ u.always = cmd[c].always \cap Present(d)
                /\ u.ever = IF task[c].pc = "observe" THEN cmd[c].ever \cup Present(d) ELSE cmd[c].ever
                /\ d[cmd[c].name] = "running" /\ cmd[c].op \in {"connect", "start"} => u.seenUp
<1>1. PICK k \in Fields : k = cmd[c]
  BY DEF RInv, Shapes
<1>2. CASE k.peer # p \/ k.pc \in {"idle", "gone"}
  <2>1. Witnessed(p, d)[c] = k
    BY <1>1, <1>2 DEF Witnessed
  <2> QED
    BY <1>1, <1>2, <2>1
<1>3. CASE k.peer = p /\ k.pc \notin {"idle", "gone"}
  <2>1. PICK b \in BOOLEAN : b = (k.seenUp \/ (d[k.name] = "running" /\ k.op \in {"connect", "start"}))
    <3>1. CASE k.seenUp \/ (d[k.name] = "running" /\ k.op \in {"connect", "start"})
      <4>1. (k.seenUp \/ (d[k.name] = "running" /\ k.op \in {"connect", "start"})) = TRUE
        BY <3>1
      <4> QED
        BY <4>1, Zenon
    <3>2. CASE ~ (k.seenUp \/ (d[k.name] = "running" /\ k.op \in {"connect", "start"}))
      <4>1. (k.seenUp \/ (d[k.name] = "running" /\ k.op \in {"connect", "start"})) = FALSE
        BY <3>2
      <4> QED
        BY <4>1, Zenon
    <3> QED
      BY <3>1, <3>2
  <2>2. (k.seenUp => b) /\ (d[k.name] = "running" /\ k.op \in {"connect", "start"} => b)
    BY <2>1
  <2>3. PICK S \in SUBSET Name : S = k.always \cap Present(d)
    BY DEF Present
  <2>4. PICK E \in SUBSET Name : E = IF task[c].pc = "observe" THEN k.ever \cup Present(d) ELSE k.ever
    BY DEF Present, Fields
  <2>5. PICK u : u = [k EXCEPT !.always = S, !.ever = E, !.seenUp = b]
    OBVIOUS
  <2>6. u \in Fields
    BY <2>5 DEF Fields
  <2>7. u.pc = k.pc /\ u.op = k.op /\ u.peer = k.peer /\ u.name = k.name
    BY <2>5 DEF Fields
  <2>8. u.managed = k.managed /\ u.published = k.published /\ u.executed = k.executed
    BY <2>5 DEF Fields
  <2>9. u.always = S /\ u.ever = E /\ u.seenUp = b
    BY <2>5 DEF Fields
  <2>10. u = [k EXCEPT !.always = @ \cap Present(d),
                       !.ever = IF task[c].pc = "observe" THEN @ \cup Present(d) ELSE @,
                       !.seenUp = @ \/ (d[k.name] = "running" /\ k.op \in {"connect", "start"})]
    BY <2>1, <2>3, <2>4, <2>5, Zenon
  <2>11. ~ (k.peer # p \/ k.pc \in {"idle", "gone"})
    BY <1>3
  <2>12. Witnessed(p, d)[c] = u
    BY <1>1, <2>10, <2>11, Zenon DEF Witnessed
  <2> QED
    BY <1>1, <1>3, <2>2, <2>3, <2>4, <2>6, <2>7, <2>8, <2>9, <2>12
<1> QED
  BY <1>2, <1>3

\* No command is moved by a change at a device.
LEMMA WitnessedPc ==
  ASSUME RInv, NEW p \in Peer, NEW d \in [Name -> Status], NEW c \in Task
  PROVE  Witnessed(p, d)[c].pc = cmd[c].pc
<1>1. PICK u \in Fields :
           /\ u = Witnessed(p, d)[c]
           /\ u.pc = cmd[c].pc /\ u.op = cmd[c].op /\ u.peer = cmd[c].peer /\ u.name = cmd[c].name
           /\ u.managed = cmd[c].managed /\ u.published = cmd[c].published
           /\ u.executed = cmd[c].executed /\ (cmd[c].seenUp => u.seenUp)
           /\ cmd[c].peer # p \/ cmd[c].pc \in {"idle", "gone"} => u = cmd[c]
           /\ cmd[c].peer = p /\ cmd[c].pc \notin {"idle", "gone"} =>
                /\ u.always = cmd[c].always \cap Present(d)
                /\ u.ever = IF task[c].pc = "observe" THEN cmd[c].ever \cup Present(d) ELSE cmd[c].ever
                /\ d[cmd[c].name] = "running" /\ cmd[c].op \in {"connect", "start"} => u.seenUp
  BY WitnessedFacts
<1> QED
  BY <1>1

\* What a command has noted remains true when the services of a device change.
LEMMA WitnessedGood ==
  ASSUME RInv, NEW p \in Peer, NEW d \in [Name -> Status], NEW c \in Task,
         NEW D, D = [device EXCEPT ![p] = d]
  PROVE  /\ Witnessed(p, d)[c] \in Fields
         /\ Good(Witnessed(p, d)[c], request[c], task[c], D)
<1>1. PICK k \in Fields : k = cmd[c]
  BY DEF RInv, Shapes
<1>11. PICK u \in Fields :
           /\ u = Witnessed(p, d)[c]
           /\ u.pc = cmd[c].pc /\ u.op = cmd[c].op /\ u.peer = cmd[c].peer /\ u.name = cmd[c].name
           /\ u.managed = cmd[c].managed /\ u.published = cmd[c].published
           /\ u.executed = cmd[c].executed /\ (cmd[c].seenUp => u.seenUp)
           /\ cmd[c].peer # p \/ cmd[c].pc \in {"idle", "gone"} => u = cmd[c]
           /\ cmd[c].peer = p /\ cmd[c].pc \notin {"idle", "gone"} =>
                /\ u.always = cmd[c].always \cap Present(d)
                /\ u.ever = IF task[c].pc = "observe" THEN cmd[c].ever \cup Present(d) ELSE cmd[c].ever
                /\ d[cmd[c].name] = "running" /\ cmd[c].op \in {"connect", "start"} => u.seenUp
  BY WitnessedFacts
<1>2.      /\ u = Witnessed(p, d)[c]
           /\ u.pc = k.pc /\ u.op = k.op /\ u.peer = k.peer /\ u.name = k.name
           /\ u.managed = k.managed /\ u.published = k.published
           /\ u.executed = k.executed /\ (k.seenUp => u.seenUp)
           /\ k.peer # p \/ k.pc \in {"idle", "gone"} => u = k
           /\ k.peer = p /\ k.pc \notin {"idle", "gone"} =>
                /\ u.always = k.always \cap Present(d)
                /\ u.ever = IF task[c].pc = "observe" THEN k.ever \cup Present(d) ELSE k.ever
                /\ d[k.name] = "running" /\ k.op \in {"connect", "start"} => u.seenUp
  BY <1>1, <1>11
<1>3. Good(k, request[c], task[c], device)
  BY <1>1, Waiting
<1>4. \A q \in Peer : D[q] = IF q = p THEN d ELSE device[q]
  BY DEF RInv, Shapes
<1>5. Linked(u, request[c], task[c]) /\ Carried(u, request[c])
  BY <1>2, <1>3 DEF Good, Linked, Carried
<1>6. CASE k.pc \in {"idle", "gone"}
  <2>1. task[c].pc = "idle"
    BY <1>1, <1>6, Waiting DEF Looking
  <2>2. u = k
    BY <1>2, <1>6
  <2>3. Watched(u, task[c], D) /\ Heard(u, task[c], D)
    BY <1>3, <1>6, <2>1, <2>2 DEF Good, Linked, Watched, Heard
  <2> QED
    BY <1>2, <1>5, <2>3 DEF Good
<1>7. CASE k.pc \notin {"idle", "gone"} /\ k.peer # p
  <2>1. D[k.peer] = device[k.peer] /\ u = k
    BY <1>2, <1>3, <1>4, <1>7 DEF Good, Linked
  <2>2. Watched(u, task[c], D) /\ Heard(u, task[c], D)
    BY <1>3, <2>1 DEF Good, Watched, Heard
  <2> QED
    BY <1>2, <1>5, <2>2 DEF Good
<1>8. CASE k.pc \notin {"idle", "gone"} /\ k.peer = p
  <2>1. D[k.peer] = d
    BY <1>4, <1>8
  <2>2. Watched(u, task[c], D)
    BY <1>2, <1>3, <1>8, <2>1 DEF Good, Linked, Watched
  <2>3. Heard(u, task[c], D)
    BY <1>2, <1>3, <1>8, <2>1 DEF Good, Heard
  <2> QED
    BY <1>2, <1>5, <2>2, <2>3 DEF Good
<1> QED
  BY <1>6, <1>7, <1>8

\* A step of the device and, perhaps, of the command it answers keeps the
\* invariant.
LEMMA DeviceStep ==
  ASSUME RInv, NEW p \in Peer, NEW d \in [Name -> Status], UNCHANGED <<vars, records, listeners>>,
         device' = [device EXCEPT ![p] = d], cmd' \in [Task -> Fields], request' \in [Task -> Requests],
         \A c \in Task : \/ cmd'[c] = Witnessed(p, d)[c] /\ request'[c] = request[c]
                         \/ Good(cmd'[c], request'[c], task[c], device')
  PROVE  RInv'
<1>1. task' = task /\ [Next]_vars
  BY DEF vars
<1>2. IInv'
  BY <1>1, NextIInv DEF RInv
<1>3. device' \in [Peer -> [Name -> Status]]
  BY DEF RInv, Shapes
<1>4. Shapes'
  BY <1>3 DEF RInv, Shapes, Requests
<1>5. ASSUME NEW c \in Task PROVE Good(cmd'[c], request'[c], task'[c], device')
  <2>1. PICK D : D = [device EXCEPT ![p] = d]
    OBVIOUS
  <2>2. Good(Witnessed(p, d)[c], request[c], task[c], D)
    BY <2>1, WitnessedGood
  <2>3. Good(Witnessed(p, d)[c], request[c], task[c], device')
    BY <2>1, <2>2
  <2> QED
    BY <1>1, <2>3
<1> QED
  BY <1>2, <1>4, <1>5 DEF RInv, CommandsGood

\* The commands keep their type when the services of a device change.
LEMMA WitnessedType ==
  ASSUME RInv, NEW p \in Peer, NEW d \in [Name -> Status]
  PROVE  Witnessed(p, d) \in [Task -> Fields]
<1>1. PICK D : D = [device EXCEPT ![p] = d]
  OBVIOUS
<1>2. \A c \in Task : Witnessed(p, d)[c] \in Fields
  BY <1>1, WitnessedGood
<1>3. PICK f : f = Witnessed(p, d)
  OBVIOUS
<1>4. f = [c \in Task |-> f[c]]
  BY <1>3 DEF Witnessed
<1> QED
  BY <1>2, <1>3, <1>4

\* The owner of a device changes one of its services.
LEMMA DeviceChangesInv ==
  ASSUME RInv, NEW p \in Peer, NEW n \in Name, NEW st \in Status, DeviceChanges(p, n, st)
  PROVE  RInv'
<1>1. PICK d : d = [device[p] EXCEPT ![n] = st]
  OBVIOUS
<1>2. d \in [Name -> Status]
  BY <1>1 DEF RInv, Shapes
<1>3. device' = [device EXCEPT ![p] = d] /\ cmd' = Witnessed(p, d)
      /\ UNCHANGED <<vars, request, records, listeners>>
  BY <1>1 DEF DeviceChanges
<1>4. cmd' \in [Task -> Fields] /\ request' \in [Task -> Requests]
  BY <1>2, <1>3, WitnessedType DEF RInv, Shapes, Requests
<1> QED
  BY <1>2, <1>3, <1>4, DeviceStep

\* The device carries out a request, of a command that waits for the answer or
\* of one that is gone.
LEMMA ExecuteInv ==
  ASSUME RInv, NEW c \in Task, Execute(c)
  PROVE  RInv'
<1>1. PICK k \in Fields : k = cmd[c]
  BY DEF RInv, Shapes
<1>2. /\ Good(k, "sent", task[c], device) /\ request[c] = "sent" /\ task[c].pc = "idle"
      /\ k.pc \in {"sent", "gone"} /\ k.op \in {"apply", "start", "stop", "remove"}
  BY <1>1, Waiting DEF Execute, Good, Linked, Looking
<1>3. PICK p \in Peer, n \in Name : p = k.peer /\ n = k.name
  BY <1>2 DEF Good, Linked
<1>4. PICK d : d = [device[p] EXCEPT ![n] = Result(k.op, @)]
  OBVIOUS
<1>5. d \in [Name -> Status]
  <2>1. device[p] \in [Name -> Status]
    BY DEF RInv, Shapes
  <2>2. Result(k.op, device[p][n]) \in Status
    BY <1>2, <2>1 DEF Result, Status
  <2> QED
    BY <1>4, <2>1, <2>2
<1>6. PICK W \in [Task -> Fields] : W = Witnessed(p, d)
  BY <1>5, WitnessedType
<1>7. /\ device' = [device EXCEPT ![p] = d] /\ UNCHANGED <<vars, records, listeners>>
      /\ request' = [request EXCEPT ![c] = IF k.pc = "gone" THEN "none" ELSE "ok"]
      /\ cmd' = [W EXCEPT ![c] = IF k.pc = "gone" THEN NoCommand ELSE [@ EXCEPT !.executed = TRUE]]
  BY <1>1, <1>3, <1>4, <1>6 DEF Execute
<1>8. request' \in [Task -> Requests] /\ \A b \in Task \ {c} : request'[b] = request[b]
  BY <1>7 DEF RInv, Shapes, Requests
<1>9. CASE k.pc = "gone"
  <2>1. cmd' = [W EXCEPT ![c] = NoCommand] /\ request'[c] = "none"
    BY <1>7, <1>9 DEF RInv, Shapes
  <2>2. cmd' \in [Task -> Fields] /\ cmd'[c] = NoCommand /\ \A b \in Task \ {c} : cmd'[b] = W[b]
    BY <1>6, <2>1, NoCommandFacts
  <2>3. Good(cmd'[c], request'[c], task[c], device')
    BY <1>2, <2>1, <2>2, NoCommandGood
  <2> QED
    BY <1>5, <1>6, <1>7, <1>8, <2>2, <2>3, DeviceStep
<1>10. CASE k.pc = "sent"
  <2>1. PICK w \in Fields : w = W[c]
    OBVIOUS
  <2>2. PICK D : D = [device EXCEPT ![p] = d]
    OBVIOUS
  <2>3. Good(w, "sent", task[c], D)
    BY <1>2, <1>5, <1>6, <2>1, <2>2, WitnessedGood
  <2>4. w.pc = k.pc
    <3>1. Witnessed(p, d)[c].pc = cmd[c].pc
      BY <1>5, WitnessedPc
    <3> QED
      BY <1>1, <1>6, <2>1, <3>1
  <2>5. PICK u : u = [w EXCEPT !.executed = TRUE]
    OBVIOUS
  <2>6. u \in Fields
    BY <2>5 DEF Fields
  <2>7. u.pc = w.pc /\ u.op = w.op /\ u.peer = w.peer /\ u.name = w.name /\ u.seenUp = w.seenUp /\ u.executed
    BY <2>5 DEF Fields
  <2>8. u.managed = w.managed /\ u.published = w.published /\ u.always = w.always /\ u.ever = w.ever
    BY <2>5 DEF Fields
  <2>9. Good(u, "ok", task[c], D)
    BY <1>10, <2>3, <2>4, <2>7, <2>8 DEF Good, Linked, Watched, Heard, Carried
  <2>10. cmd' = [W EXCEPT ![c] = u] /\ request'[c] = "ok"
    BY <1>7, <1>10, <2>1, <2>5 DEF RInv, Shapes
  <2>11. cmd' \in [Task -> Fields] /\ cmd'[c] = u /\ \A b \in Task \ {c} : cmd'[b] = W[b]
    BY <2>6, <2>10
  <2>12. Good(cmd'[c], request'[c], task[c], device')
    BY <1>7, <2>2, <2>9, <2>10, <2>11
  <2> QED
    BY <1>5, <1>6, <1>7, <1>8, <2>11, <2>12, DeviceStep
<1> QED
  BY <1>2, <1>9, <1>10

\* The device refuses a request.
LEMMA RefuseInv ==
  ASSUME RInv, NEW c \in Task, Refuse(c)
  PROVE  RInv'
<1>1. PICK k \in Fields : k = cmd[c]
  BY DEF RInv, Shapes
<1>2. /\ Good(k, "sent", task[c], device) /\ request[c] = "sent" /\ task[c].pc = "idle"
      /\ k.pc \in {"sent", "gone"} /\ records \subseteq Peer \X Name /\ listeners \subseteq records
  BY <1>1, Waiting DEF Refuse, Good, Linked, Looking
<1>3. PICK r \in Requests : r = IF k.pc = "gone" THEN "none" ELSE "refused"
  BY DEF Requests
<1>4. request' = [request EXCEPT ![c] = r] /\ request'[c] = r
  BY <1>1, <1>3 DEF Refuse, RInv, Shapes
<1>5. PICK u : u = IF k.pc = "gone" THEN NoCommand ELSE k
  OBVIOUS
<1>6. cmd' = [cmd EXCEPT ![c] = u]
  BY <1>1, <1>5 DEF Refuse, Cleared
<1>7. u \in Fields /\ Good(u, r, task[c], device)
  <2>1. CASE k.pc = "gone"
    BY <1>2, <1>3, <1>5, <2>1, NoCommandFacts, NoCommandGood
  <2>2. CASE k.pc = "sent"
    BY <1>2, <1>3, <1>5, <2>2 DEF Good, Linked, Watched, Heard, Carried
  <2> QED
    BY <1>2, <2>1, <2>2
<1>8. UNCHANGED <<vars, device>> /\ records' \subseteq Peer \X Name /\ listeners' \subseteq records'
  BY <1>2 DEF Refuse
<1> QED
  BY <1>4, <1>6, <1>7, <1>8, QuietStep

-----------------------------------------------------------------------------
\* The commands that the user issues.
LEMMA IssuedInv ==
  ASSUME RInv, NEW c \in Task, NEW p \in Peer, NEW n \in Name,
         \/ ApplyCommand(c, p, n) \/ RecipeCommand(c, p, n) \/ StartCommand(c, p, n)
         \/ StopCommand(c, p, n) \/ RemoveCommand(c, p, n) \/ ForgetCommand(c, p, n)
         \/ ConnectCommand(c, p, n) \/ ListCommand(c, p, n)
  PROVE  RInv' /\ [Next]_vars
<1>1. CASE ApplyCommand(c, p, n)
  <2>1. Issue(c, "apply", p, n, "confirm")
    BY <1>1 DEF ApplyCommand
  <2> QED
    BY <2>1, IssueInv DEF Issue
<1>2. CASE RecipeCommand(c, p, n)
  <2>1. Issue(c, "apply", p, n, "resolve")
    BY <1>2 DEF RecipeCommand
  <2> QED
    BY <2>1, IssueInv DEF Issue
<1>3. CASE StartCommand(c, p, n)
  <2>1. Issue(c, "start", p, n, "request")
    BY <1>3 DEF StartCommand
  <2> QED
    BY <2>1, IssueInv DEF Issue
<1>4. CASE StopCommand(c, p, n)
  <2>1. Issue(c, "stop", p, n, "request")
    BY <1>4 DEF StopCommand
  <2> QED
    BY <2>1, IssueInv DEF Issue
<1>5. CASE RemoveCommand(c, p, n)
  <2>1. Issue(c, "remove", p, n, "request")
    BY <1>5 DEF RemoveCommand
  <2> QED
    BY <2>1, IssueInv DEF Issue
<1>6. CASE ForgetCommand(c, p, n)
  <2>1. Issue(c, "forget", p, n, "forget")
    BY <1>6 DEF ForgetCommand
  <2> QED
    BY <2>1, IssueInv DEF Issue
<1>7. CASE ConnectCommand(c, p, n)
  <2>1. Issue(c, "connect", p, n, "discover")
    BY <1>7 DEF ConnectCommand
  <2> QED
    BY <2>1, IssueInv DEF Issue
<1>8. CASE ListCommand(c, p, n)
  <2>1. Issue(c, "list", p, n, "list")
    BY <1>8 DEF ListCommand
  <2> QED
    BY <2>1, IssueInv DEF Issue
<1> QED
  BY <1>1, <1>2, <1>3, <1>4, <1>5, <1>6, <1>7, <1>8

\* The steps of a command that leave the cache alone.
LEMMA QuietInv ==
  ASSUME RInv, NEW c \in Task,
         \/ Execute(c) \/ Refuse(c) \/ Resolved(c) \/ NotResolved(c)
         \/ ReadManaged(c) \/ ReadPublished(c)
         \/ Send(c) \/ SendFails(c) \/ Lost(c) \/ Receive(c)
         \/ ApplyLocally(c) \/ StartLocally(c) \/ StopLocally(c) \/ RemoveLocally(c)
         \/ ForgetLocally(c) \/ LocalFails(c) \/ Attach(c)
  PROVE  RInv' /\ [Next]_vars
<1>1. CASE Execute(c)
  BY <1>1, ExecuteInv DEF Execute
<1>2. CASE Refuse(c)
  BY <1>2, RefuseInv DEF Refuse
<1>3. CASE Resolved(c) \/ NotResolved(c)
  BY <1>3, ResolvedInv DEF Resolved, NotResolved
<1>4. CASE ReadManaged(c)
  BY <1>4, ReadManagedInv DEF ReadManaged
<1>5. CASE ReadPublished(c)
  BY <1>5, ReadPublishedInv DEF ReadPublished
<1>6. CASE Send(c)
  BY <1>6, SendInv DEF Send
<1>7. CASE SendFails(c)
  BY <1>7, SendFailsInv DEF SendFails
<1>8. CASE Lost(c)
  BY <1>8, LostInv DEF Lost
<1>9. CASE Receive(c)
  BY <1>9, ReceiveInv DEF Receive
<1>10. CASE ApplyLocally(c)
  BY <1>10, ApplyLocallyInv DEF ApplyLocally
<1>11. CASE StartLocally(c)
  BY <1>11, StartLocallyInv DEF StartLocally
<1>12. CASE StopLocally(c) \/ RemoveLocally(c) \/ ForgetLocally(c) \/ LocalFails(c) \/ Attach(c)
  <2>1. UNCHANGED vars
    BY <1>12 DEF StopLocally, RemoveLocally, ForgetLocally, LocalFails, Attach
  <2> QED
    BY <1>12, <2>1, LocalsInv
<1> QED
  BY <1>1, <1>2, <1>3, <1>4, <1>5, <1>6, <1>7, <1>8, <1>9, <1>10, <1>11, <1>12

\* Every step of a command, the device or the daemon keeps the invariant, and
\* is a step of the cache or leaves it alone.
LEMMA NextRInv == RInv /\ [RemoteNext]_remoteVars => RInv' /\ [Next]_vars
<1> SUFFICES ASSUME RInv, [RemoteNext]_remoteVars PROVE RInv' /\ [Next]_vars
  OBVIOUS
<1>1. ASSUME NEW p \in Peer, NEW n \in Name, NEW st \in Status, DeviceChanges(p, n, st)
      PROVE  RInv' /\ [Next]_vars
  BY <1>1, DeviceChangesInv DEF DeviceChanges
<1>2. ASSUME NEW c \in Task,
             \/ Look(c) \/ Answer(c) \/ LookDone(c) \/ LookFails(c)
             \/ ForgetCached(c) \/ ForgetCachedRead(c) \/ ForgetCachedSave(c) \/ GiveUp(c)
      PROVE  RInv' /\ [Next]_vars
  BY <1>2, LookInv, AnswerInv, LookDoneInv, LookFailsInv, ForgetCachedInv,
     ForgetCachedReadInv, ForgetCachedSaveInv, GiveUpInv
<1>3. CASE UNCHANGED remoteVars
  <2>1. UNCHANGED <<device, cmd, request, task, records, listeners>> /\ [Next]_vars
    BY <1>3 DEF remoteVars, vars
  <2>2. records' \subseteq Peer \X Name /\ listeners' \subseteq records'
    BY <2>1 DEF RInv, Shapes
  <2> QED
    BY <2>1, <2>2, AccessesInv
<1> QED
  BY <1>1, <1>2, <1>3, IssuedInv, QuietInv, DisconnectInv, RemoveDeviceInv, RestartDaemonInv
     DEF RemoteNext

\* The daemon starts with no command and with an empty cache.
LEMMA InitRInv == RemoteInit => Init /\ RInv
<1> SUFFICES ASSUME RemoteInit PROVE Init /\ RInv
  OBVIOUS
<1>1. Init /\ IInv
  BY InitIInv DEF RemoteInit
<1>2. Shapes
  BY NoCommandFacts DEF RemoteInit, Shapes, Status
<1>3. ASSUME NEW c \in Task PROVE Good(cmd[c], request[c], task[c], device)
  <2>1. cmd[c] = NoCommand /\ request[c] = "none" /\ task[c].pc = "idle"
    BY DEF RemoteInit, Init, Idle
  <2> QED
    BY <2>1, NoCommandGood
<1> QED
  BY <1>1, <1>2, <1>3 DEF RInv, CommandsGood

\* The inductive invariant of the composition, with that of the cache, holds in
\* every reachable state.
THEOREM RemoteInductive == RemoteSpec => []RInv
  BY InitRInv, NextRInv, PTL DEF RemoteSpec

\* The commands use the cache as its own specification says: each of their
\* behaviours is one of Snapshots, so that what is proved of the cache alone is
\* true of the daemon with its commands.
THEOREM Composition == RemoteSpec => Spec
  BY InitRInv, NextRInv, RemoteInductive, PTL DEF RemoteSpec, Spec

\* The cache has its type, whatever the commands do.
THEOREM CacheTyped == RemoteSpec => []TypeOK
  BY Composition, TypeCorrect, PTL

\* No command and no observation under way brings back the snapshot of a device
\* after it was removed.
THEOREM RemovalFinalForCommands == RemoteSpec => NoResurrection
  BY Composition, RemovalIsFinal, PTL

\* Driven by the commands, the cache implements the abstract store of
\* snapshots: its readers cannot tell the daemon from one whose cache changes
\* in single steps.
THEOREM CommandsImplementStore == RemoteSpec => ImplementsStore
  BY Composition, Refinement, PTL

\* The inductive invariant says of every call on the cache what
\* SnapshotFaithful asks.
LEMMA RInvFaithful == RInv => SnapshotFaithful
<1> SUFFICES ASSUME RInv, NEW c \in Task, Observed(c)
             PROVE  LET names == {e.name : e \in Merge(cmd[c].managed, cmd[c].published)}
                    IN cmd[c].always \subseteq names /\ names \subseteq cmd[c].ever
  BY DEF SnapshotFaithful
<1>1. PICK k \in Fields : k = cmd[c]
  BY DEF RInv, Shapes
<1>2. Good(k, request[c], task[c], device) /\ k.managed # Unread /\ k.published # Unread
  BY <1>1, Waiting DEF Observed
<1>3. PICK m \in SUBSET Service, l \in SUBSET Service : m = k.managed /\ l = k.published
  BY <1>2 DEF Fields
<1>4. /\ k.always \subseteq Names(m) /\ Names(m) \subseteq k.ever /\ Names(l) \subseteq k.ever
  BY <1>2, <1>3 DEF Good, Watched
<1>5. Names(m) \subseteq Names(Merge(m, l)) /\ Names(Merge(m, l)) \subseteq Names(m) \cup Names(l)
  BY <1>3, MergeFacts
<1>6. k.always \subseteq Names(Merge(m, l)) /\ Names(Merge(m, l)) \subseteq k.ever
  BY <1>4, <1>5
<1> QED
  BY <1>1, <1>3, <1>6 DEF Names

\* A snapshot made of two lists that are read one after the other names every
\* service the device had throughout the observation, and none that it had at
\* no moment of it, although the device changes in between.
THEOREM ObservationsFaithful == RemoteSpec => []SnapshotFaithful
  BY RemoteInductive, RInvFaithful, PTL

\* The inductive invariant covers what is asked of a command that binds and of
\* one that follows up.
LEMMA RInvPublished == RInv => AttachedWasPublished /\ LocalAfterRemote
  BY Waiting DEF AttachedWasPublished, LocalAfterRemote, Good, Heard, Carried

\* A command makes a listener only for a service that the device has published
\* at a moment since the command began, never because of the cache.
THEOREM ListenersPublished == RemoteSpec => []AttachedWasPublished
  BY RemoteInductive, RInvPublished, PTL

\* A command changes local accesses only after the device has carried out its
\* request, though the answer may be lost, late or refused.
THEOREM LocalFollowsRemote == RemoteSpec => []LocalAfterRemote
  BY RemoteInductive, RInvPublished, PTL

\* The inductive invariant covers the type invariant of the composition; a
\* command of nobody needs some device and some name to be of its type.
LEMMA RInvType ==
  ASSUME Peer # {}, Name # {}
  PROVE  RInv => RemoteTypeOK
<1> SUFFICES ASSUME RInv PROVE RemoteTypeOK
  OBVIOUS
<1>1. NoCommand.peer \in Peer /\ NoCommand.name \in Name
  <2>1. PICK q : q = CHOOSE p \in Peer : TRUE
    OBVIOUS
  <2>2. PICK m : m = CHOOSE n \in Name : TRUE
    OBVIOUS
  <2>3. q \in Peer /\ m \in Name
    BY <2>1, <2>2
  <2>4. NoCommand = [op |-> "none", peer |-> q, name |-> m, pc |-> "idle", managed |-> Unread,
                     published |-> Unread, always |-> {}, ever |-> {}, seenUp |-> FALSE, executed |-> FALSE]
    BY <2>1, <2>2 DEF NoCommand
  <2>5. NoCommand.peer = q /\ NoCommand.name = m
    BY <2>4
  <2> QED
    BY <2>3, <2>5
<1>2. Peer \cup {NoCommand.peer} = Peer /\ Name \cup {NoCommand.name} = Name
  BY <1>1
<1>3. Fields = Commands
  BY <1>2 DEF Fields, Commands
<1>4. /\ device \in [Peer -> [Name -> Status]] /\ cmd \in [Task -> Commands]
      /\ request \in [Task -> {"none", "sent", "ok", "refused"}]
      /\ records \subseteq Peer \X Name /\ listeners \subseteq records
  BY <1>3 DEF RInv, Shapes
<1>5. ASSUME NEW c \in Task
      PROVE  /\ Busy(c) => task[c].peer = cmd[c].peer /\ cmd[c].pc \in Looking \cup {"forget"}
             /\ request[c] # "none" => cmd[c].pc \in {"sent", "gone"}
  BY Waiting DEF Good, Linked, Busy
<1> QED
  BY <1>4, <1>5 DEF RemoteTypeOK

\* Commands, requests, records and listeners have their types in every
\* reachable state, and an observation is of its command's device.
THEOREM RemoteTypeCorrect ==
  ASSUME Peer # {}, Name # {}
  PROVE  RemoteSpec => []RemoteTypeOK
  BY RemoteInductive, RInvType, PTL

=============================================================================
