---------------------------- MODULE RemoteServices ----------------------------
(***************************************************************************)
(* Services of another device, as `fungi service ...@device` drives them:  *)
(* the commands of the command line, the handlers of the daemon they call, *)
(* the service-control and service-discovery protocols, and the device at  *)
(* the other end.                                                          *)
(*                                                                         *)
(* A command is a chain of remote calls and local follow-up work: look at  *)
(* the device, ask the user, send one request, look again, then bring the  *)
(* local access listeners and records in line.  Every call may fail with   *)
(* or without the device having acted, the command may be given up at any  *)
(* await (the command line has a timeout and the daemon drops the handler),*)
(* and the device changes under the hands of its owner.                    *)
(*                                                                         *)
(* The observations are those of Snapshots, which this module composes     *)
(* with the commands; a service in a snapshot has a status and may or may  *)
(* not list endpoints.  What the device does for one request is atomic     *)
(* here (RuntimeServices has the detail), and so is the work of an attach, *)
(* detach or forget on the listeners and records (ServiceAccess).          *)
(***************************************************************************)
EXTENDS Snapshots, FiniteSets

CONSTANTS
  Name,     \* service names
  Ops,      \* Ops[c]: the commands that are issued as c
  Unread    \* a list that has not been received

\* An entry of a snapshot is a DeviceService.
ASSUME EntriesAssumption ==
  Service = [name : Name, published : BOOLEAN]

VARIABLES
  device,     \* device[p][n]: the service at the device
  cmd,        \* the commands in progress, with the handler that serves each
  request,    \* request[c]: the service-control request of the command
  records,    \* saved local accesses, <<peer, name>>
  listeners   \* local access listeners, <<peer, name>>

remoteVars == <<vars, device, cmd, request, records, listeners>>

-----------------------------------------------------------------------------
Status == {"absent", "stopped", "running"}

NoCommand ==
  [op |-> "none", peer |-> CHOOSE p \in Peer : TRUE, name |-> CHOOSE n \in Name : TRUE,
   pc |-> "idle", managed |-> Unread, published |-> Unread,
   always |-> {}, ever |-> {}, seenUp |-> FALSE, executed |-> FALSE]

\* A command waits in one of these for an observation of the device.
Looking == {"confirm", "list", "discover", "attach", "settle", "restore"}

\* History: always and ever are the names the device had at every, and at some, moment of
\* the observation under way; seenUp, whether the service was published at some moment
\* since the command began; executed, whether the device carried out its request.
Commands ==
  [op : {"none", "apply", "start", "stop", "remove", "forget", "connect", "list"},
   peer : Peer, name : Name,
   pc : Looking \cup {"idle", "gone", "resolve", "request", "sent", "local", "bind", "forget", "forgotten"},
   managed : (SUBSET Service) \cup {Unread}, published : (SUBSET Service) \cup {Unread},
   always : SUBSET Name, ever : SUBSET Name, seenUp : BOOLEAN, executed : BOOLEAN]

Present(d) == {n \in Name : d[n] # "absent"}

\* The type invariant of the composition (TypeOK is that of Snapshots): the observation
\* of a command is for its device, and a request outlives only a command that is gone.
RemoteTypeOK ==
  /\ device \in [Peer -> [Name -> Status]]
  /\ cmd \in [Task -> Commands]
  /\ request \in [Task -> {"none", "sent", "ok", "refused"}]
  /\ records \subseteq Peer \X Name
  /\ listeners \subseteq records
  /\ \A c \in Task :
       /\ Busy(c) => task[c].peer = cmd[c].peer /\ cmd[c].pc \in Looking \cup {"forget"}
       /\ request[c] # "none" => cmd[c].pc \in {"sent", "gone"}

-----------------------------------------------------------------------------
(***************************************************************************)
(* The device.                                                             *)
(***************************************************************************)
\* The history of the commands when the services of p become d.
Witnessed(p, d) ==
  [c \in Task |->
     IF cmd[c].peer # p \/ cmd[c].pc \in {"idle", "gone"} THEN cmd[c]
     ELSE [cmd[c] EXCEPT !.always = @ \cap Present(d),
                         !.ever = IF task[c].pc = "observe" THEN @ \cup Present(d) ELSE @,
                         !.seenUp = @ \/ (d[cmd[c].name] = "running" /\ cmd[c].op \in {"connect", "start"})]]

\* The owner of the device, or another device, changes one of its services.
DeviceChanges(p, n, st) ==
  LET d == [device[p] EXCEPT ![n] = st] IN
  /\ st # device[p][n]
  /\ device' = [device EXCEPT ![p] = d]
  /\ cmd' = Witnessed(p, d)
  /\ UNCHANGED <<vars, request, records, listeners>>

\* What each request makes of a service: apply keeps a running one running.
Result(op, st) ==
  CASE op = "apply" -> IF st = "absent" THEN "stopped" ELSE st
    [] op = "start" -> "running"
    [] op = "stop" -> "stopped"
    [] op = "remove" -> "absent"

Cleared(c) == IF cmd[c].pc = "gone" THEN NoCommand ELSE cmd[c]

\* handle_request: the request is carried out, or refused with an error.
Execute(c) ==
  LET p == cmd[c].peer
      n == cmd[c].name
      d == [device[p] EXCEPT ![n] = Result(cmd[c].op, @)]
      gone == cmd[c].pc = "gone"
  IN /\ request[c] = "sent"
     /\ cmd[c].op = "apply" \/ device[p][n] # "absent"
     /\ device' = [device EXCEPT ![p] = d]
     /\ cmd' = [Witnessed(p, d) EXCEPT
                  ![c] = IF gone THEN NoCommand ELSE [@ EXCEPT !.executed = TRUE]]
     /\ request' = [request EXCEPT ![c] = IF gone THEN "none" ELSE "ok"]
     /\ UNCHANGED <<vars, records, listeners>>

Refuse(c) ==
  /\ request[c] = "sent"
  /\ cmd' = [cmd EXCEPT ![c] = Cleared(c)]
  /\ request' = [request EXCEPT ![c] = IF cmd[c].pc = "gone" THEN "none" ELSE "refused"]
  /\ UNCHANGED <<vars, device, records, listeners>>

-----------------------------------------------------------------------------
(***************************************************************************)
(* Observations.                                                           *)
(***************************************************************************)
\* list_services and list_published_device_services at the device.
Managed(d) == {[name |-> n, published |-> FALSE] : n \in Present(d)}

Published(d) == {[name |-> n, published |-> TRUE] : n \in {m \in Name : d[m] = "running"}}

MergeOnlyPublished(managed, published) == published

\* merge_device_service_snapshot: the endpoints of the published list, the status of the
\* managed one; a service in one list only is kept.
Merge(managed, published) ==
  LET names == {e.name : e \in published} IN
  {[e EXCEPT !.published = e.name \in names] : e \in managed}
    \cup {e \in published : \A m \in managed : m.name # e.name}

\* DeviceServices::refresh begins.
Look(c) ==
  LET p == cmd[c].peer IN
  /\ cmd[c].pc \in Looking
  /\ RefreshBegin(c, p)
  /\ cmd' = [cmd EXCEPT ![c].managed = Unread, ![c].published = Unread,
               ![c].always = Present(device[p]), ![c].ever = Present(device[p])]
  /\ UNCHANGED <<device, request, records, listeners>>

\* The two lists are asked for at once, over two streams, and arrive in either order.
ReadManaged(c) ==
  /\ task[c].pc = "observe" /\ cmd[c].managed = Unread
  /\ cmd' = [cmd EXCEPT ![c].managed = Managed(device[cmd[c].peer])]
  /\ UNCHANGED <<vars, device, request, records, listeners>>

\* A device that cannot list its published services answers with an empty list.
ReadPublished(c) ==
  /\ task[c].pc = "observe" /\ cmd[c].published = Unread
  /\ \E l \in {Published(device[cmd[c].peer]), {}} : cmd' = [cmd EXCEPT ![c].published = l]
  /\ UNCHANGED <<vars, device, request, records, listeners>>

\* A command without the lists of its observation.
Rested(c) == [cmd[c] EXCEPT !.managed = Unread, !.published = Unread, !.always = {}, !.ever = {}]

Observed(c) == cmd[c].managed # Unread /\ cmd[c].published # Unread

Answer(c) ==
  /\ Observed(c)
  /\ RefreshAnswer(c, [services |-> Merge(cmd[c].managed, cmd[c].published)])
  /\ cmd' = [cmd EXCEPT ![c] = Rested(c)]
  /\ UNCHANGED <<device, request, records, listeners>>

Has(c, services, published) ==
  \E e \in services : e.name = cmd[c].name /\ (published => e.published)

\* refresh_remote_device_services, the last step of a command that has changed something.
Refreshing(c) == [NoCommand EXCEPT !.op = "list", !.peer = cmd[c].peer, !.name = cmd[c].name, !.pc = "list"]

To(c, pc) == [Rested(c) EXCEPT !.pc = pc]

\* What a command may become when its observation has ended: live says whether it
\* succeeded, services is what the caller is shown (the cache when it failed).

\* confirm_apply_if_existing: the user is asked, and may stop, only if the service is listed.
AfterConfirm(c, services) ==
  {To(c, "request")} \cup (IF Has(c, services, FALSE) THEN {NoCommand} ELSE {})

\* refresh_or_keep_after_mutation goes on in either case.
AfterSettle(c) == {To(c, "local")}

\* remote_service_unavailable_message looks again before the command gives up.
AfterMissing(c) == {Refreshing(c)}

\* discover_remote_service: a cached answer is an error.
AfterDiscover(c, live, services) ==
  IF ~ live THEN {NoCommand}
  ELSE IF Has(c, services, TRUE) THEN {To(c, "attach")} ELSE AfterMissing(c)

\* attach_service_access looks once more and fails when that fails.
AfterAttach(c, live, services) ==
  {IF live /\ Has(c, services, TRUE) THEN To(c, "bind") ELSE NoCommand}

\* restore_saved_service_access, likewise.
AfterRestore(c, live, services) ==
  {IF live /\ Has(c, services, TRUE) THEN To(c, "bind") ELSE NoCommand}

\* Mutant: a cached answer is as good as a live one.
AfterTrustingCache(c, live, services) ==
  CASE cmd[c].pc = "confirm" -> AfterConfirm(c, services)
    [] cmd[c].pc = "settle" -> AfterSettle(c)
    [] cmd[c].pc = "discover" -> AfterDiscover(c, TRUE, services)
    [] cmd[c].pc = "attach" -> AfterAttach(c, TRUE, services)
    [] cmd[c].pc = "restore" -> AfterRestore(c, TRUE, services)
    [] cmd[c].pc = "list" -> {NoCommand}

\* get_device_service_snapshot: a failed refresh is answered from the cache.
After(c, live, services) ==
  CASE cmd[c].pc = "confirm" -> AfterConfirm(c, services)
    [] cmd[c].pc = "settle" -> AfterSettle(c)
    [] cmd[c].pc = "discover" -> AfterDiscover(c, live, services)
    [] cmd[c].pc = "attach" -> AfterAttach(c, live, services)
    [] cmd[c].pc = "restore" -> AfterRestore(c, live, services)
    [] cmd[c].pc = "list" -> {NoCommand}

Shown(p) == IF cache[p] = NoSnapshot THEN {} ELSE cache[p].services

\* save_if_current has written, or dropped a result that is no longer wanted; or the file
\* could not be written.
Stored(c) == cache'[task[c].peer] = task[c].seen \/ epochs[task[c].peer] # task[c].epoch

StoreFailed(c) == cache' = cache /\ epochs[task[c].peer] = task[c].epoch

\* The answer is stored if it is still wanted; a failure to store it fails the refresh.
LookDone(c) ==
  /\ cmd[c].pc \in Looking
  /\ SaveIfCurrent(c)
  /\ \/ /\ Stored(c)
        /\ \E r \in After(c, TRUE, task[c].seen.services) : cmd' = [cmd EXCEPT ![c] = r]
     \/ /\ StoreFailed(c)
        /\ \E r \in After(c, FALSE, Shown(cmd[c].peer)) : cmd' = [cmd EXCEPT ![c] = r]
  /\ UNCHANGED <<device, request, records, listeners>>

LookFails(c) ==
  /\ cmd[c].pc \in Looking
  /\ RefreshError(c)
  /\ \E r \in After(c, FALSE, Shown(cmd[c].peer)) : cmd' = [cmd EXCEPT ![c] = r]
  /\ UNCHANGED <<device, request, records, listeners>>

-----------------------------------------------------------------------------
(***************************************************************************)
(* Commands.                                                               *)
(***************************************************************************)
Issue(c, op, p, n, pc) ==
  /\ op \in Ops[c]
  /\ cmd[c].pc = "idle"
  /\ cmd' = [cmd EXCEPT ![c] = [NoCommand EXCEPT !.op = op, !.peer = p, !.name = n, !.pc = pc,
               !.seenUp = device[p][n] = "running" /\ op \in {"connect", "start"}]]
  /\ UNCHANGED <<vars, device, request, records, listeners>>

ApplyCommand(c, p, n) == Issue(c, "apply", p, n, "confirm")

\* `apply --recipe` first has the daemon resolve the recipe.
RecipeCommand(c, p, n) == Issue(c, "apply", p, n, "resolve")

StartCommand(c, p, n) == Issue(c, "start", p, n, "request")

StopCommand(c, p, n) == Issue(c, "stop", p, n, "request")

RemoveCommand(c, p, n) == Issue(c, "remove", p, n, "request")

\* `remove --local-only`.
ForgetCommand(c, p, n) == Issue(c, "forget", p, n, "forget")

\* `connect`, and `open`, which adds only a browser.
ConnectCommand(c, p, n) == Issue(c, "connect", p, n, "discover")

\* `list` and `inspect` show one observation.
ListCommand(c, p, n) == Issue(c, "list", p, n, "list")

\* The capabilities of the device are asked for warnings only, which the user may heed;
\* a recipe that cannot be read ends the command.
Resolved(c) ==
  /\ cmd[c].pc = "resolve"
  /\ cmd' = [cmd EXCEPT ![c] = To(c, "confirm")]
  /\ UNCHANGED <<vars, device, request, records, listeners>>

NotResolved(c) ==
  /\ cmd[c].pc = "resolve"
  /\ cmd' = [cmd EXCEPT ![c] = NoCommand]
  /\ UNCHANGED <<vars, device, request, records, listeners>>

\* send_request: the stream is open and the request is on its way.
Send(c) ==
  /\ cmd[c].pc = "request"
  /\ cmd' = [cmd EXCEPT ![c].pc = "sent"]
  /\ request' = [request EXCEPT ![c] = "sent"]
  /\ UNCHANGED <<vars, device, records, listeners>>

\* An error that says the device was not reached.  `service remove` then offers to drop
\* the local record of a service it has in its cache.
Unreachable(c) ==
  {NoCommand} \cup
    (IF cmd[c].op = "remove" /\ Has(c, Shown(cmd[c].peer), FALSE)
     THEN {[cmd[c] EXCEPT !.op = "forget", !.pc = "forget", !.executed = FALSE]} ELSE {})

SendFails(c) ==
  /\ cmd[c].pc = "request"
  /\ \E r \in Unreachable(c) : cmd' = [cmd EXCEPT ![c] = r]
  /\ UNCHANGED <<vars, device, request, records, listeners>>

LostAsDone(c) ==
  /\ cmd[c].pc = "sent" /\ request[c] # "none"
  /\ cmd' = [cmd EXCEPT ![c].pc = "settle"]
  /\ request' = [request EXCEPT ![c] = "none"]
  /\ UNCHANGED <<vars, device, records, listeners>>

\* The stream breaks: before the device has read the request, or after it has acted.
Lost(c) ==
  /\ cmd[c].pc = "sent" /\ request[c] # "none"
  /\ \E r \in Unreachable(c) : cmd' = [cmd EXCEPT ![c] = r]
  /\ request' = [request EXCEPT ![c] = "none"]
  /\ UNCHANGED <<vars, device, records, listeners>>

Receive(c) ==
  /\ cmd[c].pc = "sent" /\ request[c] \in {"ok", "refused"}
  /\ cmd' = [cmd EXCEPT ![c] = IF request[c] = "ok" THEN [@ EXCEPT !.pc = "settle"] ELSE NoCommand]
  /\ request' = [request EXCEPT ![c] = "none"]
  /\ UNCHANGED <<vars, device, records, listeners>>

\* `apply --start` goes on with a start.
Starting(c) ==
  [cmd[c] EXCEPT !.op = "start", !.pc = "request", !.executed = FALSE,
                 !.seenUp = device[cmd[c].peer][cmd[c].name] = "running"]

\* The local half of a command.  remote_pull_service has none.
ApplyLocally(c) ==
  /\ cmd[c].pc = "local" /\ cmd[c].op = "apply"
  /\ \E r \in {Starting(c), Refreshing(c)} : cmd' = [cmd EXCEPT ![c] = r]
  /\ UNCHANGED <<vars, device, request, records, listeners>>

\* remote_start_service restores the saved accesses.
StartLocally(c) ==
  /\ cmd[c].pc = "local" /\ cmd[c].op = "start"
  /\ cmd' = [cmd EXCEPT ![c] = IF <<cmd[c].peer, cmd[c].name>> \in records
                               THEN To(c, "restore") ELSE Refreshing(c)]
  /\ UNCHANGED <<vars, device, request, records, listeners>>

\* remote_stop_service detaches the listeners.
StopLocally(c) ==
  /\ cmd[c].pc = "local" /\ cmd[c].op = "stop"
  /\ listeners' = listeners \ {<<cmd[c].peer, cmd[c].name>>}
  /\ cmd' = [cmd EXCEPT ![c] = Refreshing(c)]
  /\ UNCHANGED <<vars, device, request, records>>

\* remote_remove_service forgets listeners and records.
RemoveLocally(c) ==
  /\ cmd[c].pc = "local" /\ cmd[c].op = "remove"
  /\ records' = records \ {<<cmd[c].peer, cmd[c].name>>}
  /\ listeners' = listeners \ {<<cmd[c].peer, cmd[c].name>>}
  /\ cmd' = [cmd EXCEPT ![c] = Refreshing(c)]
  /\ UNCHANGED <<vars, device, request>>

\* forget_device_service, likewise; the command ends here.
ForgetLocally(c) ==
  /\ cmd[c].pc = "forgotten"
  /\ records' = records \ {<<cmd[c].peer, cmd[c].name>>}
  /\ listeners' = listeners \ {<<cmd[c].peer, cmd[c].name>>}
  /\ cmd' = [cmd EXCEPT ![c] = NoCommand]
  /\ UNCHANGED <<vars, device, request>>

\* The local half fails and the command reports that.
LocalFails(c) ==
  /\ cmd[c].pc \in {"local", "bind", "forgotten"}
  /\ cmd' = [cmd EXCEPT ![c] = NoCommand]
  /\ UNCHANGED <<vars, device, request, records, listeners>>

\* ServiceAccess::attach, with the service as it was observed.
Attach(c) ==
  LET a == <<cmd[c].peer, cmd[c].name>> IN
  /\ cmd[c].pc = "bind"
  /\ listeners' = listeners \cup {a}
  /\ records' = records \cup {a}
  /\ cmd' = [cmd EXCEPT ![c] = IF cmd[c].op = "start" THEN Refreshing(c) ELSE NoCommand]
  /\ UNCHANGED <<vars, device, request>>

\* `service disconnect` takes the listeners and keeps the records.
Disconnect(p, n) ==
  /\ <<p, n>> \in listeners
  /\ listeners' = listeners \ {<<p, n>>}
  /\ UNCHANGED <<vars, device, cmd, request, records>>

\* remove_cached_service, with its three accesses to shared state.
ForgetCached(c) ==
  /\ cmd[c].pc = "forget" /\ ForgetBegin(c, cmd[c].peer)
  /\ UNCHANGED <<device, cmd, request, records, listeners>>

ForgetCachedRead(c) ==
  LET mine == {e \in Service : e.name = cmd[c].name}
      old == mine \cap Shown(cmd[c].peer)
  IN /\ cmd[c].pc = "forget"
     /\ \E e \in IF old = {} THEN mine ELSE old : ForgetRead(c, e)
     /\ cmd' = IF old = {} THEN [cmd EXCEPT ![c] = NoCommand] ELSE cmd
     /\ UNCHANGED <<device, request, records, listeners>>

ForgetCachedSave(c) ==
  /\ cmd[c].pc = "forget" /\ SaveIfCurrent(c)
  /\ \/ Stored(c) /\ cmd' = [cmd EXCEPT ![c].pc = "forgotten"]
     \/ StoreFailed(c) /\ cmd' = [cmd EXCEPT ![c] = NoCommand]
  /\ UNCHANGED <<device, request, records, listeners>>

\* A command is given up while its handler waits: the handler is dropped, what is on its
\* way to the device is not.
GiveUp(c) ==
  /\ cmd[c].pc \in Looking \cup {"resolve", "request", "sent", "local", "bind", "forgotten"}
  /\ task[c].pc \in {"idle", "observe"}
  /\ IF Busy(c) THEN RefreshError(c) ELSE UNCHANGED vars
  /\ cmd' = [cmd EXCEPT ![c] = IF request[c] = "sent" THEN [Rested(c) EXCEPT !.pc = "gone"] ELSE NoCommand]
  /\ request' = [request EXCEPT ![c] = IF @ = "sent" THEN @ ELSE "none"]
  /\ UNCHANGED <<device, records, listeners>>

-----------------------------------------------------------------------------
(***************************************************************************)
(* The daemon.                                                             *)
(***************************************************************************)
\* `device remove`: the snapshot goes, then the accesses.
RemoveDevice(p) ==
  /\ Remove(p) \/ RemoveOverflow(p)
  /\ \/ UNCHANGED <<records, listeners>>
     \/ /\ epochs' # epochs
        /\ records' = {a \in records : a[1] # p}
        /\ listeners' = {a \in listeners : a[1] # p}
  /\ UNCHANGED <<device, cmd, request>>

\* The listeners come back from the records as far as the cache allows.
RestartDaemon ==
  /\ Restart
  /\ cmd' = [c \in Task |-> IF request[c] = "sent" THEN [Rested(c) EXCEPT !.pc = "gone"] ELSE NoCommand]
  /\ request' = [c \in Task |-> IF request[c] = "sent" THEN "sent" ELSE "none"]
  /\ listeners' = {a \in records : \E e \in Shown(a[1]) : e.name = a[2] /\ e.published}
  /\ UNCHANGED <<device, records>>

RemoteInit ==
  /\ Init
  /\ cache = [p \in Peer |-> NoSnapshot]
  /\ device \in [Peer -> [Name -> {"absent", "running"}]]
  /\ cmd = [c \in Task |-> NoCommand]
  /\ request = [c \in Task |-> "none"]
  /\ records = {} /\ listeners = {}

RemoteNext ==
  \/ \E p \in Peer, n \in Name, st \in Status : DeviceChanges(p, n, st)
  \/ \E c \in Task, p \in Peer, n \in Name :
       \/ ApplyCommand(c, p, n) \/ RecipeCommand(c, p, n) \/ StartCommand(c, p, n)
       \/ StopCommand(c, p, n) \/ RemoveCommand(c, p, n) \/ ForgetCommand(c, p, n)
       \/ ConnectCommand(c, p, n) \/ ListCommand(c, p, n)
  \/ \E c \in Task :
       \/ Execute(c) \/ Refuse(c) \/ Resolved(c) \/ NotResolved(c)
       \/ Look(c) \/ ReadManaged(c) \/ ReadPublished(c) \/ Answer(c) \/ LookDone(c) \/ LookFails(c)
       \/ Send(c) \/ SendFails(c) \/ Lost(c) \/ Receive(c)
       \/ ApplyLocally(c) \/ StartLocally(c) \/ StopLocally(c) \/ RemoveLocally(c)
       \/ ForgetLocally(c) \/ LocalFails(c) \/ Attach(c)
       \/ ForgetCached(c) \/ ForgetCachedRead(c) \/ ForgetCachedSave(c)
       \/ GiveUp(c)
  \/ \E p \in Peer, n \in Name : Disconnect(p, n)
  \/ \E p \in Peer : RemoveDevice(p)
  \/ RestartDaemon

RemoteSpec == RemoteInit /\ [][RemoteNext]_remoteVars

-----------------------------------------------------------------------------
\* A snapshot that is about to be stored has every service the device had throughout the
\* observation and none it did not have at all, though the two lists it is merged from are
\* read at different moments while services come and go.
SnapshotFaithful ==
  \A c \in Task : Observed(c) =>
    LET names == {e.name : e \in Merge(cmd[c].managed, cmd[c].published)}
    IN cmd[c].always \subseteq names /\ names \subseteq cmd[c].ever

\* A local listener is only made for a service the device has published at some moment
\* since the command began, never on the word of a cached snapshot.
AttachedWasPublished ==
  \A c \in Task : cmd[c].pc = "bind" => cmd[c].seenUp

\* The local half of start, stop and remove, which restores, cuts or forgets accesses, is
\* done only when the device has carried out the request: a broken stream is no answer.
LocalAfterRemote ==
  \A c \in Task : cmd[c].pc \in {"settle", "local", "restore"} => cmd[c].executed
=============================================================================
