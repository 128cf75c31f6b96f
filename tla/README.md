# A verification project for fungi

fungi connects a person's devices over libp2p and lets them run services
(Docker containers, Wasmtime components, or processes managed elsewhere) on one
device and use them from another as if they were local. Each device runs a
daemon. This directory holds TLA+ models of the parts of fungi whose correctness
depends on the order in which concurrent calls, background tasks, messages, file
writes and crashes happen, the TLC configurations that check them, and TLAPS
proofs.

## 1. The system and its parts

All paths are under `src/`.

| Component | State | Operations | Interacts with |
|---|---|---|---|
| Service accesses (`crates/daemon/src/service_accesses.rs`, `config/src/local_preferences.rs`) | `local_preferences.json`, set of detached services, async mutex `operations` | `attach`, `detach`, `forget_service`, `forget_device`, restore from cached snapshots, restore at start | adds and removes forwarding rules; reads device snapshots |
| Device service snapshots (`daemon/src/services.rs`, `config/src/service_cache.rs`) | one JSON file per device, an epoch per device | `refresh`, `remove_cached_service`, `remove` | written by remote calls of up to 15 s; removed with a device |
| Service control, discovery, capabilities (`daemon/src/controls/`, `daemon/src/api/runtime.rs`, `fungi/src/commands/fungi_control/service.rs`) | none of its own | one request per stream; the commands that chain them with local work | service runtime of the device; snapshots and accesses here |
| Service runtime (`daemon/src/runtime/`) | table of manifests, provider entries with their processes | `apply`, `start`, `stop`, `remove`, `inspect`, restore at start | state store, Docker agent, endpoint listeners |
| Docker agent (`crates/docker-agent`) | the containers of the Docker daemon | create, start, stop, remove, inspect | service runtime |
| Service state store (`daemon/src/service_state.rs`) | `services/<id>/{service.yaml,state.json}` and their image in memory | `load`, upsert, `set_desired_state`, `remove_service` | service runtime |
| Service endpoint listeners (`daemon/src/service_endpoints.rs`, `daemon.rs`) | listening rules of exposed endpoints | enable, disable, restore at start | tcp tunneling |
| TCP tunneling (`daemon/src/controls/tcp_tunneling/`) | tables of forwarding and listening rules, a task per rule | add and remove rules, forward bytes | the stream layer |
| Inbound access, stream policy (`daemon/src/inbound_access.rs`, `crates/stream`) | registry of protocols, allow list, open requests | `authorize`, `revoke`, offer, negotiate, authorize and deliver a stream | swarm, tunneling |
| Devices, trusted devices (`daemon/src/devices`, `config/src/devices.rs`, `trusted_devices.rs`) | TOML files and their image in memory | add, rename, edit, remove, trust, untrust | accesses, snapshots, addresses |
| Connections and governance (`crates/swarm/src/libp2p/governance.rs`, `state/registry.rs`) | connection records, observed streams | track, mark deprecated, mark closing, close | event loop of the swarm |
| Dialing (`libp2p/dial_plan.rs`, `libp2p/control.rs`) | a lock per peer | `connect`, `open_stream` | peer addresses, relays |
| Relay manager (`libp2p/relay.rs`) | a task flag per relay, endpoint records | reconcile, retry, audit | swarm events |
| Connectivity state, direct address cache (`state/connectivity.rs`, `config/src/direct_addresses.rs`, `daemon/src/connectivity.rs`) | address records, a file, what was saved last | record, expire, save, hydrate | dialing, devices |
| Config migration (`crates/config-migrate`) | staging directory, `bk/` | detect, stage, back up, replace, roll back | every command runs it first |
| Daemon lock, endpoint discovery (`config/src/rpc_endpoint.rs`, `fungi_control/client.rs`) | `daemon.lock`, `daemon.endpoint` | lock, publish, discover, connect | migration, command line |
| Recipes (`daemon/src/recipes.rs`, `config/src/recipe_cache.rs`) | `latest.json`, an index and assets per release | list, get, resolve, with and without refresh | an HTTP server |
| Settings and host paths, mDNS, manifest parsing, gRPC, argument parsing, lab | | | see section 7 |

What is hard here:

* **Interleaving.** The daemon is a multi-threaded tokio program. Tables have
  small synchronous locks that are released at every `await`. Service accesses
  have one asynchronous mutex for the operations that wait, and `detach`, which
  is synchronous, does not take it. The service runtime has no lock per service
  at all, the recipe cache none whatsoever, and commands of the command line are
  chains of requests that nothing ties together.
* **Partial failure.** Most operations change a table, then a process or a
  listener, then a file, and return at the first error.
* **Crashes.** Snapshots, endpoints and service files are replaced atomically (a
  service has two of them); preferences, devices, trust, addresses and recipes
  are written in place; a migration replaces up to twelve paths one by one.
* **Late and lost answers.** A remote request may have been carried out although
  its answer is lost; an observation finishes long after it began; the command
  line gives up and the daemon drops the handler at the `await` it is in.
* **Lagging records.** The tables of connections and of relay endpoints are filled
  from a channel of swarm events; whoever reads them acts on a swarm that has
  moved on. The two ends of a connection decide about it on their own. What a
  stream may do is decided at its upgrade, after the protocols were offered.

The hazards this leads to are listed one by one in `PROJECT.json`, with the
properties that cover them or the reason that none does.

## 2. Modules

| Module | Models |
|---|---|
| `ServiceAccess` | service accesses and the table of forwarding rules |
| `SnapshotStore` | the abstract promise of the snapshot cache |
| `Snapshots` | the epoch scheme that implements it |
| `RemoteServices` | extends `Snapshots`: the commands for services of another device, the protocols, the device, the local listeners and records |
| `RuntimeServices` | service runtime with its three kinds of services, state store, containers and endpoint listeners |
| `Tunnels` | listening and forwarding rules, their tasks, the stream layer beneath |
| `Devices` | the directory of devices, trust, the files and caches that belong to a device |
| `Addresses` | what is known of the addresses of peers, and the task that saves it |
| `Connections` | both ends of the connections between two nodes: `connect`, `open_stream`, the table of connections, governance |
| `RelayManager` | the reservation of a node at one relay peer |
| `Home` | the fungi directory: migration, daemon lock, published endpoint |
| `Recipes` | the cache of official recipes |
| `ServiceAccessProofs`, `TunnelsProofs`, `RecipesProofs`, `DevicesProofs`, `AddressesProofs`, `RemoteServicesProofs`, `RuntimeServicesProofs`, `HomeProofs` | theorems about the module of the name and their proofs, for all values of its constants (section 5); `RemoteServicesProofs` has those of `Snapshots` too |
| `RuntimeInvariants` | extends `RuntimeServices`: the inductive invariants of the runtime (`IInv`, `DInv`, `PInv`, `LInv`) and their parts, which `RuntimeServicesProofs` proves |
| `MC*` | instances and symmetry sets for TLC |

**ServiceAccess.** `prefs` is the file of saved ports, and `readable` says whether
it still parses; `rules` is `TcpTunnelingControl.forwarding_rules`; `detached` is
the set of services detached in this session; `cached` is what the snapshots of
the devices say; `lock` is the holder of `operations`. Every caller has a task
record with a program counter; the task `Boot` begins with the restore the daemon
spawns when it starts. Steps are split exactly where another thread can see or
change shared state: `AttachLock`, `AttachEndpoint`, `StartRule`, `AttachSave`,
`Rollback`, the three `Undo` steps and `AttachDone` are the body of `attach`;
`DetachBegin`, `DetachScan`, `DetachRemove` are `detach`; `Restore*` are the two
passes of the restore with the refresh in between. A rule is identified as in the
code by local address, peer and protocol. `errored` is a history variable.

**Snapshots and RemoteServices.** `epochs` and `cache` are the fields of
`DeviceServiceSnapshots`. A call notes the epoch, takes its time, and saves if the
epoch is unchanged. `outdated` is a history variable: the calls that began before
the last removal. `SnapshotStore` says the same with an explicit right to write
that a removal takes away; `Store == INSTANCE SnapshotStore WITH open <- mayWrite`
is the refinement. `RemoteServices` composes this with what causes the
observations. `cmd[c]` is a command (`apply`, `start`, `stop`, `remove`, `forget`,
`connect`, `list`) with the step it is in: an observation (two requests,
`ReadManaged` and `ReadPublished`, merged by `Merge` as in `refresh`), the one
request it sends, whose fate at the device is `Execute` or `Refuse` and whose answer
is `Receive` or `Lost`, and the local work. `GiveUp` drops a command at any `await`
while a request that was sent stays on its way. `listeners` and `records` are the
local accesses; what the device does for one request, and an attach or forget here,
are one step each, since `RuntimeServices` and `ServiceAccess` have their detail.
The fields `always`, `ever`, `seenUp` and `executed` are history.

**RuntimeServices.** `store` is the image in memory, `dirs` the disk, `manifests`
the table of manifests, `prov` the Wasmtime provider with its processes,
`containers` the Docker daemon, `listening` the exposed endpoints. An operation is
a sequence of the steps that are atomic in the code: apply, for instance, is
`resolve`, then twice taking down what is there, `build` or `docker_create`,
`publish`, `persist` and, if the service is to run, the steps of `start` and the
synchronisation of the listeners. `Take` and `Reap` are the two halves of stopping a
process, between which no lock is held. `Tolerate` is the reading of a Docker error
that means that the container is gone. `CrashDirs` is what a crash can leave on
disk; containers survive it. The start of the daemon restores service after service
(`BootNext`, `BootRestored`), then finds the endpoints of what runs
(`BootListRunning`) and of what should (`BootListDesired`) and listens on them one by
one (`BootListen`), with requests already served. `stopped` and `errored` are history.

**Tunnels.** `listening` and `listeners` are the rule table and the registry, `queue`
the bounded channel of a listener, `stream` the inbound streams with the hand they
are in: offered at `Arrive`, authorized at `Upgrade`, put into the channel by
`Deliver`, taken out by the task of the rule in `Take`. The other direction: the task of
a forwarding rule binds (`Bind`), accepts TCP connections (`Accept`), and each asks the
connection to its peer for a stream (the dial that may be needed, and its failure, are folded into
this step; `Connections` has them): `requests` is the channel of open requests,
`pending` the one caller the handler remembers, `inflight` the substreams being
negotiated. Rules are added and removed, peers trusted and distrusted, connections
closed at any point; a port stays taken until an aborted task has been dropped
(`Release`).

**Devices.** Memory and file of `devices.toml` and `trusted_devices.toml`, the allow
list of the swarm (`allowed`), the addresses the dialer has from the directory
(`dialable`) and what snapshots and accesses keep of a device (`kept`). A command of
the command line is up to three requests: `GetDevice`, then `UpdateDevice` with a copy
that was edited meanwhile, then `Record`; `RemoveDevice`, `RemoveSnapshot`,
`ForgetDevice`, `RevokeStep`, `Disallow` are `devices_remove`; `AuthorizeStep` and `Allow`
are `authorize`, which drops its lock in between. `raced`, `gone`, `shaky` are history.

**Addresses.** `records` are the peer address records by peer and normalised address,
with source, time seen and time of the last success; `Normalize` and `Freshness`
translate the two pure functions the decisions rest on, and `DialSet` is the choice of
direct addresses a dial plan is made of. `Sync` is the saving task, which keeps in
`synced` what it has seen and writes the file once per peer, in place: a save that fails may
leave it `Torn`, until a later one that succeeds writes all of `cache`. `lost` remembers the
addresses whose own save has failed, which the task does not try again. Time is coarse and bounded.

**Connections.** `link[n][c]` is the connection `c` as the swarm of `n` sees it,
`events[n]` the channel from that swarm, `table[n]` the connections of `State` in
the order of `established_at`, `gov[n]` their governance records and `todo[n]` the
rest of a closure plan. The swarm, the event handler and the governance loop of a
node are branches of one `select!`, so a round runs up to the first connection it
closes without a step of the others: `Awake` says where they may step in. `open`
follows a call of `open_stream` through the lock of `connect` (which
`AcquireConnectLock` gives to a call of a node when no other one is inside), the
direct dial, the delayed relay dial, the wait and the negotiation; `observed` are the
streams that governance counts. The grace period is counted in rounds: after two the
answer of `deprecated_long_enough` may be either, after three it is yes. `late`
expresses that a handshake or a negotiation is over within 10 seconds, so that two
rounds, 60 seconds apart, do not meet the same one.

**RelayManager.** `up`, `dialing` and `listener` are the swarm, `table`, `current` and
`registered` the records, `flag` and `task` the reconcile task, `audit` the loop that
looks at the records every ten minutes. A read of the swarm and the record made of
it are two steps of the task; in the audit they are one step, which may record what
is out of date by then. A dial is refused while another one is in flight; one to an
endpoint outside `Reliable` may fail at any time. What the swarm or the network does to
the node, and every delay longer than the code allows for, is a mishap and takes one of
`MaxFaults`: a connection that breaks, a reservation that ends or is refused, a dial that
fails, a dial by somebody else, an event that is not handled when a wait of five seconds
is over, a change in the instant between the read and the record of the audit.

**Home.** A home maps each of the twelve paths the migration knows to a set of facts
(`<<"device", "a">>`, `<<"desired", "s", "running">>`, ...), so that the transformations of
`config-migrate` are operators on sets. A process is a command or a daemon; both begin
with the migration: `Detect` makes the plan, `CopyBackup`, `CopySelected` and
`TransformStaged` work beside the home, `MoveAside` and `MoveIntoPlace` are the two renames
per path, `Undo` is `rollback_applied_paths`. A daemon then locks, binds, publishes its port and
takes it back when it ends. A command reads the configuration, discovers the port and connects;
`link` is who is at the other end of its channel. `Check` is the request that asks for the
path of the configuration, `Request` those of the command itself. The channel reconnects by itself when its
connection has broken, so that either may be answered by whoever listens on the port by then, and only
`Check` looks who that is. `steady` is history: the daemons that have served ever since the command looked for one.
`Kill` ends a process anywhere, and `ForeignDaemon` is another home's daemon on a free port.

**Recipes.** `file` says of each file of the cache whether it is absent, empty, partial or
whole; `named` is the release in `latest.json`. A call goes through `ReadLatest` or
`Ask`, `Fetch`, `Open`, `WriteEnds`, `ReadIndex`, `EnsureAsset`, `ReadManifest`,
`SaveResolved`; two calls may write one file. One asset stands for all of a release. `quality` says of
the index of each release whether this version of fungi can parse it and knows the runtimes of its
recipes: a list fails on an index it cannot parse, and as a whole on one unknown runtime (`AfterIndex`).

## 3. Runs

Every run finishes; the times are of two workers on two cores.

| Run | Instance | Properties |
|---|---|---|
| `access_failures` | two callers, one of them first doing the restore at start; every operation, failures, restarts; 1 service with 2 endpoints, 3 ports (50 s) | `OneListenerPerEndpoint`, `ListenerHasRecord`, `DetachNeverFailsSilently`, `ListenerPortsUnique`, `SavedRecordsSurvive` |
| `access_restore` | the restore at start beside detach calls, endpoints that may have changed their protocol, fair (7 s) | `SavedAccessesRestored` |
| `runtime_overlap` | 2 callers on 1 service, a Wasmtime component and an external service, crashes, 3 identifiers (2 min) | `AlwaysLoadable` |
| `runtime_failures` | 1 caller, manifests of all three runtimes with and without a definition, failures, exits, crashes (1 min) | `NoStrayProcess`, `StoppedStaysStopped`, `ListenersMatchDesired`, `DefinitionKept` |
| `connections` | both ends, a relayed connection that may break and a direct one, a caller at one end, fair (3 min) | `KeepsOwnStreams`, `OpenEnds`, `SurplusClosed` |
| `relay_recovers` | an endpoint that may fail, then one that fails by a mishap only; 2 mishaps; fair (30 s) | `CarrierKnown`, `Recovers` |
| `home` | a home of the current layout or none: 3 processes, 2 ports, 3 faults; 6 homes to migrate: 2 processes at a time, 1 fault, up to the end of the migration (2.5 min) | `Recoverable`, `Discoverable`, `ServedThroughout`, `AllOrNothing` |
| `devices` | 2 devices, 2 clients, names that differ in case and a reserved one, 4 commands, 1 failed write, 1 restart (95 s) | `NamesUnique`, `TrustAgrees`, `RemovedIsGone`, `AddressesDialable` |
| `addresses` | 1 peer, an address with and without the peer's identity and a loopback one, 3 instants, 1 fault, 1 restart, fair (3 min) | `HonestFreshness`, `KnownAfterStart`, `LastingConnectionSaved` |
| `tunnels` | 1 peer, 2 protocols, 2 listening rules for one of them, 2 forwarding rules for one port, 2 streams, 2 TCP connections, fair (2.5 min) | `NoServiceWithoutTrust`, `RightProtocol`, `OpenAnswered` |
| `remote_services` | 1 device with 1 service, one caller with every command, one with `forget` and `list`; largest epoch 1 (3 min) | `TypeOK`, `SnapshotFaithful`, `AttachedWasPublished`, `LocalAfterRemote`, `NoResurrection`, `ImplementsStore` |
| `recipes` | 2 callers, 2 releases, the second with an index that this version cannot parse or not show, 1 fault (2.5 min) | `LatestHasIndex`, `RefreshDelivers`, `OneRelease` |

What they show:

* Accesses. An endpoint has at most one listener, two listeners never share a port, an
  active listener has a saved record whenever no operation is in progress, no save
  undoes the record of another one, and a detached service has a listener only after
  some call has reported an error. Saved accesses come back by themselves.
* Runtime. What is on disk can always be loaded again, wherever the daemon crashes. A
  process or container runs only for a service whose record wants it, unless a call has
  reported an error; what was stopped with success stays stopped, over restarts too; the
  exposed endpoints are those of the manifests of the services that run; no directory
  passes from one definition to another.
* Connections and relay. Governance of a node never closes a connection that the node itself uses, as long as
  the preferred one is there; every `open_stream` ends, and at most one connection is
  left when nobody opens streams any more. The record of the carrier of a reservation
  names a connection there is, and a reservation that is lost comes back.
* Home. However a migration ends, what the home was at first is still in it or under
  `bk/`; a migration nothing else disturbs changes all or nothing and loses no device,
  access, service or data; a daemon that serves is the one the endpoint file names, and while a daemon
  serves that a command has found, the command is not turned away and talks to no other.
* Devices and addresses. A name leads to one device in memory and on disk; file, memory and
  allow list agree about a trusted peer when no request about it is under way; a removal that
  answers with success has removed all there is; an address does not become fresher by
  being saved and loaded; the daemon starts with something to dial for every peer it has
  a direct address of; a connection that lasts gets its address into the cache, unless its save fails, and
  the file has what the cache has unless a failed save has torn it.
* Tunnels. No stream reaches a service of a peer that was not trusted at some moment since it
  arrived; a TCP connection is joined to a stream of the protocol of its rule; each gets its
  stream or an error.
* Remote services. A stored snapshot has what the device had throughout the observation and
  nothing it never had; a listener is made only for a service that was published since the
  command began; local listeners and records are taken down or restored only when the device
  has carried out the request; a removed snapshot does not come back, and the epochs implement the store.
* Recipes. `latest.json` never names a release without an index; a refresh is never answered
  with an older release than there was; a list with refresh that nothing disturbs gets over a broken cache and fails only
  on an index that this version cannot parse or not show; the manifest
  handed out is of the release shown, and whole unless something cut the file off.

Each module states its types in `TypeOK` (`RemoteTypeOK` for the composition). Only that of
`Snapshots` is part of a run; those of seven modules are proved (section 5), and the
others hold on the instances of the table as well.

**Bounds.** Two endpoints are what it takes for a removal to fail half-way, two ports for a
choice to collide and a third to escape to; a second caller for an operation to overlap
another. Three identifiers allow two concurrent first applies on top of an existing
directory. Two connections are one that is preferred and one that is redundant; each
identifier is used once. Two mishaps are what it takes to lose a reservation and to have the
trigger for it dropped, or to lose it again while it is being renewed; with three connection
identifiers for each transport a dial never lacks one. The eight homes are one of each layout the
migration tells apart. In the six that need a migration two processes and one fault suffice for a second migration that finds
the first one half done. Three processes are a daemon that ends, its successor and a command between them, with a port for
each of the daemons, and three faults kill them all. Four commands are an addition, a second one with the same name and
two commands that overlap over them. One peer suffices for addresses, whose records do not touch
those of other peers; three instants are as many as there are grades of freshness. A listener channel
holds one stream instead of 9 (its buffer of 8 and the slot of its one sender), so that it overflows with two; a handler with two callers is one that
must not answer the wrong one. Epoch limit 1 lets a removal reach the limit while observations are in
flight. Two releases and two callers are an answer of each release, in either order; that the first has a good index
and the second one of either bad kind lets a refresh leave a usable release for one that is not. Every bound
is a CONSTANT of its module, except that `home` has a state constraint (`Scope`): in a home that has to be migrated it follows at most
two processes, each up to where it is through with the migration, which takes no notice of lock, endpoint and ports.

Deadlock is checked except in `runtime_failures` (a daemon that finds two directories with one name
does not start again), `devices` and `addresses` (commands, time and restarts are used up, and a file
torn by a crash keeps the daemon from starting).

**Fairness.** In `ServiceAccess` strong fairness of the steps of each caller: tokio
polls a ready task again, and its mutex is first come, first served. Calls need not be
made, and devices need not answer. In `Connections` weak fairness of the branches of a node's
task, of each call of `open_stream`, and of what a swarm learns from the other end; nobody need open or
end a stream, except that a stream ends with its connection. In `RelayManager` weak fairness of the
event handler, the reconcile task, the audit, the dials and the answer of the relay, and strong
fairness of the two time-outs, since the task looks again every 100 ms and each look defers them; the
trigger of the first reconcile is not assumed, only the audit is. In `Addresses` weak fairness of the
saving task, whose interval keeps ticking. In `Tunnels` weak fairness of the poll of each connection's
handler and of the end of a negotiation, which libp2p bounds with a time-out.

**Scope of some properties.** `NoStrayProcess`, `StoppedStaysStopped`, `ListenersMatchDesired` and
`DefinitionKept` are checked with one caller at a time beside the start of the daemon: the code does not
serialise operations on one service. With two callers a stop can be undone by an overlapping apply, a process can be
started while a stop waits for the previous one and is then killed, and two applies over a service without a
definition id both pass the comparison of definition ids. `ListenersMatchDesired`
leaves out the services in `errored`: those on which a call has reported an error half-way, has met the start of the daemon, or
whose container a crash has left running against its record. `AlwaysLoadable` is checked with crashes but without failing removals
of directories: a directory that could not be removed, followed by another apply of the same name, keeps the daemon from
starting. In `connections`, with one caller, the lock of `connect` is
never contended; `SurplusClosed` says that at most one connection is left, not that one is (section 4). `ServedThroughout` speaks of a command while a daemon it has found serves: when that has ended, the channel may
reconnect to another home's daemon after the check. `LastingConnectionSaved` leaves out the addresses whose own save has failed, and
says nothing of the file once it is torn. `TrustAgrees` leaves out peers on which two requests have overlapped. `RefreshDelivers` speaks of what one call
returns, since two refreshes may move `latest.json` back to the older release, and excuses a list whose index this version cannot parse or not show.

## 4. Where code and words disagree, or the code surprises

Met while modelling; each is behaviour the modules have, and the scope of a property above.

* `service_accesses.rs:483` says that every ordering of a detach and a background restore converges to a
  detached listener being absent. When a restore starts a listener and its re-check removes it again after `detach`
  has listed it, `detach` fails on that rule and returns (line 561) without removing the listeners of the other endpoints.
* Governance closes what it takes for idle connections (`governance.rs:145`), and a test
  says that one with an active stream is kept (`libp2p/tests.rs:324`). Only streams that the node
  itself has opened are observed, so it closes a connection over which the other end has one.
* Two direct connections whose events the two ends handle in opposite orders are each closed by one end
  (`types.rs:21` sorts by the time an end has recorded them), the last connection included. So no property says that
  governance keeps the last connection; for a relayed and a direct one, which the run has, the ends agree.
* The channel a command gets is checked once (`client.rs:65`). It reconnects by itself, so that after the daemon
  was killed the requests of the same command may go to another home's daemon that has taken the port.
* The cache of direct addresses is written in place (`direct_addresses.rs:83`): a save that fails leaves a file
  that may be torn, with every address saved before, and the addresses it was for are not tried again.
* An index of recipes is written and named by `latest.json` before it is parsed (`recipes.rs:262`), and one recipe
  of an unknown runtime fails the whole list (`recipes.rs:90`): a release made for a newer fungi takes
  the list away, from the cache too, until there is another.
* `authorize` and `revoke` release the lock of the trust file before they change the allow list
  (`inbound_access.rs:38`): when they overlap, file and list can end up different.
* `services.rs:384`: removing one service from a cached snapshot does not change the epoch, so a refresh in flight
  brings the forgotten service back until the next one.
* A comment of the stream handler says that nothing relies on hot-swapping protocols on a live connection; the
  tunneling control does add and remove listening rules while connections are open.
* `daemon.rs:262`: the start looks for the endpoints to expose before it listens on them, with requests
  already served: a service stopped in between is exposed again. A container left running by a crash
  in the middle of a start is listened to although its record says stopped.
* The handler of a stop is dropped when the command line gives up (`api/runtime.rs:491`): the device has
  stopped the service, and the local listener stays attached.

## 5. Proofs

Eight modules hold theorems. Each proves them of the specification its runs check, for every value of the
constants that satisfies the `ASSUME` of the module, and along the same lines: an inductive invariant
`IInv`, which TLC has checked as an invariant of the module's runs (of the runtime's two, `IInv` on `runtime_overlap`, and its part about types
and `DInv`, `PInv` and `LInv` on `runtime_failures`); `Init => IInv`; `IInv /\ [Next]_vars => IInv'`, with
one lemma per action; and `IInv` implies the property. None of the assumptions says more than that a constant has its type,
that the names for "none" are none of the values, that the names of services are told apart from their identifiers where one history variable
remembers both, and that a limit is a natural number (the capacity of a channel and the
number of releases: a positive one).

| Module | Theorem | States |
|---|---|---|
| `ServiceAccessProofs` | `OneListener`, `PortsUnique`, `RecordBehindListener`, `NoSilentDetach`, `RecordsSurvive` | `OneListenerPerEndpoint`, `ListenerPortsUnique`, `ListenerHasRecord`, `DetachNeverFailsSilently`, `SavedRecordsSurvive` |
| `TunnelsProofs` | `ServiceTrusts`, `ProtocolsMatch` | `NoServiceWithoutTrust`, `RightProtocol` |
| `RecipesProofs` | `NamedIndexCached`, `RefreshIsFresh`, `ManifestOfItsRelease` | `LatestHasIndex`, `RefreshDelivers`, `OneRelease` |
| `DevicesProofs` | `OneDevicePerName`, `SwarmKnowsTrust`, `NothingLeftOfRemoved`, `GivenAddressesDialable` | `NamesUnique`, `TrustAgrees`, `RemovedIsGone`, `AddressesDialable` |
| `AddressesProofs` | `FreshnessHonest`, `StartKnows` | `HonestFreshness`, `KnownAfterStart` |
| `RemoteServicesProofs`, the cache | `TypeCorrect`, `RemovalIsFinal`, `Refinement` | `TypeOK`, `NoResurrection`, `ImplementsStore` |
| `RemoteServicesProofs`, the commands | `ObservationsFaithful`, `ListenersPublished`, `LocalFollowsRemote`, `RemovalFinalForCommands`, `CommandsImplementStore`, `CacheTyped` | `SnapshotFaithful`, `AttachedWasPublished`, `LocalAfterRemote`, `NoResurrection`, `ImplementsStore`, `TypeOK` |
| `RuntimeServicesProofs` | `StartsAgain`, `StartsAgainWithoutFailures` | `AlwaysLoadable` with conditions |
| `RuntimeServicesProofs`, one caller at a time | `DefinitionsKept`, `NothingStray`, `StaysStopped`, `ExposedAsDesired` | `DefinitionKept`, `NoStrayProcess`, `StoppedStaysStopped`, `ListenersMatchDesired` |
| `HomeProofs` | `HomeRecoverable`, `DaemonDiscoverable`, `CommandServed` | `Recoverable`, `Discoverable`, `ServedThroughout` |

Besides, each module has `Inductive` (`Invariance` and `RemoteInductive`) for its invariant and, but for `Home`, `TypeCorrect`
(`RemoteTypeCorrect`). Why the invariants are what they are:

* **Snapshots.** `EpochInv`: the epoch that a call noted is at most the current one of its peer, and strictly less once the
  snapshot was removed. `NoResurrection` alone does not say why the comparison in `save_if_current` fails. For the refinement,
  two lemmas say how the right to write, `mayWrite`, changes when a call ends and when nothing relevant changes; the step that
  matters is `Remove`, where the increment takes the right from every call of that peer and from no other.
* **ServiceAccess.** `LockInv` makes the holder of `operations` the one caller between taking and dropping it. `CallInv` says what
  a call knows at each step: the copy of the file and the list of rules an attach works with are current but for what it has started itself
  and what a detach, which takes no lock, has removed. `BackedInv`: every rule has its record, or is the one the holder is saving.
  `DetachInv`: a rule of a detached service is in the hands of a call that will take it down, clear the detachment or report an error; this is the
  step-by-step argument behind the comment at `service_accesses.rs:483`, with the exception of section 4.
* **Tunnels.** `TrustInv` and `TrustedSince` follow a stream from its arrival to the service. `QueueInv`: a channel holds each of the streams that
  wait for it once. `RequestInv`: so does the line of callers of a connection, and what is negotiated is what the caller in `pending_upgrade` asked
  for, which is why the handler can give a stream to whoever is there.
* **Recipes.** `CallInv` ties what a call relies on to the files; `CutInv`: a file that is not whole was cut off or is being written; `NamedInv`: what `latest.json`
  names was written before it. `AloneInv` says what an undisturbed call may conclude, and `ExcusedInv` that a list which has failed undisturbed
  has found an index this version cannot parse or not show.
* **Devices.** `PeerInv` has a part per pair of places that belong together: file and allow list differ about a device only between the two steps of a request, an address is
  with the dialer or about to be, a removed device has no command. `RemovalInv` counts the parts of a removal that are done. `FilesInv` ties a file to memory unless its last save has failed.
* **Addresses.** `Sound`: of a record that is not from the user's configuration, the time on which its freshness is decided is the time it was last seen; it is the records of the
  configuration, stamped anew at every start, that make the invariant distinguish sources. `Times`: what cache and file hold is of the past, so that hydration cannot bring in a record from the
  future. The file may be torn at any moment, also while the daemon is up. The latest of the times of an address with several spellings exists because time is well-founded (`WFMin`).
* **RemoteServices.** `RInv` adds to the invariant of `Snapshots` four statements of each command: its request and its call on the cache go with its place in the chain (`Linked`),
  what an observation has found lies between what was there always and what was there ever (`Watched`), what it has seen published was published (`Heard`), what it follows up
  was carried out (`Carried`). `Composition` (`RemoteSpec => Spec`) shows that each of the commands' steps is one of the cache or leaves it alone, so that the theorems about
  `Snapshots` hold of the daemon with its commands. `RemoteTypeCorrect` assumes a device and a name, since the fields of an idle command have to hold something.
* **RuntimeServices.** `Recorded`: a directory belongs to the record of its name. Persisting keeps it because the identifier on record is compared under
  the lock of the store; `CrashLoadable` then says that nothing a crash leaves half done has two directories of one name. The one step that breaks it
  is a removal that has dropped the record and could not remove the directory (`service_state.rs:217`), followed by another apply of the same name. So `StartsAgain` is stated for
  behaviours in which a record goes with its directory (`RecordGoesWithDirectory`), whatever else fails, and `StartsAgainWithoutFailures` shows that condition met where nothing fails
  (`~ MayFail`), which is how the run checks it. `DefinitionsKept` needs an invariant of its own, `DInv`, and `OneCaller`: two applies that overlap compare with records the other replaces.
  It says that a record has an identifier of its own and a directory of a fitting definition (`RecordsFit`, true also after a save or a removal that has failed half-way), and that until an apply
  has saved its record it takes only steps after which what it compared with is still there (`Ordered`, `CallFits`).
  `NothingStray` and `StaysStopped` share a third invariant, `PInv`, which `RunsAreWanted` proves of every behaviour of one caller. Its part `Wanted` is what
  a reader would ask for: a process is that of a Wasmtime record and a container that of a Docker record which is desired to run or about to be (`ChildWanted`,
  `ContainerWanted`), what is published is on record or about to be (`Agreed`), and a service that was stopped is stopped in memory, on disk and in Docker (`StoppedDown`).
  None of it is inductive: whether a step may drop a record or save a desired state depends on what the call has done some steps ago. A call is a
  plan of up to a dozen steps, any of which may fail and any of which may be the last before a crash, and most end the plan. So `PInv` says of every plan what its order guarantees
  (`CallShape`: a start is followed at once by the save of the desired state; no record is dropped after a start) and, of every fact a later step relies on, that the call
  knows it by now or has the step that brings it about still to do (`CallKnows`: before a record is replaced or dropped its process is killed or its container removed; before a stop is
  saved the process has been reaped or the container stopped; before a record is saved the manifest is published and the desired state is the one found on record). The shape is
  proved once of each plan that `control.rs` makes (`PlanOf` and the `...PlanFacts`), the knowledge once of each step, and once of a crash and of what is read back.
  `ExposedAsDesired` adds the listeners (`LInv`, proved invariant by `ListenersKnown`), which no step saves and each call has to leave as the record says. What a call knows of them depends on where it
  is (`CallExposes`): until a start or a stop has changed the record, the service is exposed as the record says, and from then on the last step has what is missing left to do; an apply of a
  running service has its old listeners up until it takes them down by the manifest it replaced, and its new ones are put up by the manifest that is by then on record. That a call ends with these
  steps in this order is a statement about its plan (`Ends`), proved of each plan. The start puts up what it finds in two looks, so of a service no call is about `BootExposes` says how much of it is up after each.
  A call that fails after it has touched record or listeners puts the service on record as errored, as does one that meets the start (`MetStart`), and of those services nothing is claimed.
* **Home.** `DaemonInv`: who holds the lock is between taking and releasing it, and what it has published while it serves is its own port. A port has one listener and a daemon one port (`Bindings`), and a
  connection of a command leads to a daemon of the port it was made to (`LinkInv`); so the port of a command that has found a serving daemon
  is that daemon's, and whoever answers on it is that daemon until it ends (`SteadyInv`). `RecoveryInv`: before some backup is complete
  the home is as it was found, or a daemon has initialised one that had nothing to migrate, and a backup in progress is a copy up to the position it has reached.

What stays with TLC, and why:

* Liveness under fairness: `SavedAccessesRestored`, `OpenEnds`, `SurplusClosed`, `Recovers`, `LastingConnectionSaved`, `OpenAnswered`. No installed prover handles `WF`, `SF` and `ENABLED`.
* `AllOrNothing` of the home, which is about what the transformations together make of it, path by path.
* `CarrierKnown` of the relay manager, which relates the order of events in a channel to a table of connections: steps filter
  both with `SelectSeq`, and what that keeps of a sequence of any length takes an induction over data.
* `KeepsOwnStreams`, whose invariant is not worked out (section 6).

## 6. What is left

All components in reach are modelled, and every safety property that is neither proved nor listed above as out of reach is one of these:

1. `Connections`: `KeepsOwnStreams`. The invariant has to say, at every step of a round of either governance loop, that
   the streams the loop has counted on a connection are those opened here since.
2. `Home`: `AllOrNothing`, from a lemma per transformation that says which paths it leaves alone.

## 7. Not modelled

* Settings and host paths (one value, one write), mDNS (an external library that fills the address table), the lab and the tests.
* Manifest parsing, defaults and automatic host ports (`runtime/control.rs:235`): pure conversions of text and a
  query of the operating system; `RuntimeServices` takes the parsed manifest.
* The gRPC layer but for handlers that do more than call one operation, generated code, and the parsing, prompts and output of the command line.
* External address candidates, counts of observations and the order in which a plan dials, which no decision modelled here reads.
* The container policy of the Docker agent (a pure check) and logs. A container left behind by a crash
  between its creation and the save, conflicts after switching runtimes (`control.rs:181`), and the removal of a running container, which Docker refuses, are in the model as errors only.
* A second failure during the rollback of a migration; two overlapping `start` and `stop` are modelled, but no property is stated of them.
* The HTTP client of recipes and the sending of a service-control request have no time-out of their own: a peer that
  never answers is the step that is never taken.
* The bytes that are forwarded, log files, and what the operating system does to child processes when the daemon is killed.
