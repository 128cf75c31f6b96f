--------------------------- MODULE RuntimeServices ---------------------------
(***************************************************************************)
(* The services a daemon manages: RuntimeControl with the Wasmtime and the *)
(* Docker provider (crates/daemon/src/runtime, crates/docker-agent), the   *)
(* files that persist them (service_state.rs) and the listeners that       *)
(* expose them (service_endpoints.rs).                                     *)
(*                                                                         *)
(* Nothing serialises the operations on a service: each of its four tables *)
(* has a lock of its own, and an operation releases all of them while it   *)
(* waits for a process to die or a component to be staged.  An operation   *)
(* is the sequence `todo' of the steps that are atomic in this sense.      *)
(***************************************************************************)
EXTENDS Naturals, Sequences

CONSTANTS
  Proc,          \* callers of the API, local and remote
  Boot,          \* the start of the daemon
  Name,          \* service names
  Manifest,
  RuntimeOf,     \* [Manifest -> {"wasmtime", "docker", "external"}]
  DefinitionOf,  \* [Manifest -> definition ids and NoDefinition]
  EndpointsOf,   \* the (port, protocol) pairs a manifest exposes
  Endpoint,
  Id,            \* local_service_id, a ULID
  NoDefinition, NoManifest, NoService, NoEntry, NoDir, NoId, NoName,
  Operations,    \* the operations the callers of a run use
  MayFail        \* can staging, spawning, listening or writing fail?

Caller == Proc \cup {Boot}

VARIABLES
  store,      \* ServiceStateStore in memory: state and name_index
  dirs,       \* services/<id>/{service.yaml, state.json}
  manifests,  \* service_manifests and service_index
  prov,       \* WasmtimeRuntimeProvider.services
  containers, \* the containers of the Docker daemon; a service's has its identifier as name
  listening,  \* the listening rules of exposed endpoints
  task,
  stopped,    \* history: services stopped with success and not started since
  errored     \* history: services a call on which failed half-way or met the start of the daemon, or
              \* which the start found running against their record,
              \* and containers a call on which failed or was cut short, with no stop of them since

vars == <<store, dirs, manifests, prov, containers, listening, task, stopped, errored>>

DesiredState == {"running", "stopped"}
Service == [id : Id, man : Manifest, desired : DesiredState]
\* A directory without a state.json reads as stopped.
Dir == [name : Name, man : Manifest, desired : DesiredState]
Entry == [man : Manifest, child : BOOLEAN]

ASSUME RuntimeAssumption ==
  /\ RuntimeOf \in [Manifest -> {"wasmtime", "docker", "external"}]
  /\ EndpointsOf \in [Manifest -> SUBSET Endpoint]
  /\ NoManifest \notin Manifest /\ NoId \notin Id /\ NoName \notin Name
  /\ NoService \notin Service /\ NoDir \notin Dir /\ NoEntry \notin Entry
  /\ Boot \notin Proc
  /\ MayFail \in BOOLEAN

\* What `errored' remembers of services and of containers is not mixed up.
ASSUME NamesAreNotIds == Name \cap Id = {}

StepName == {"resolve", "ensure", "try_ensure", "restore", "try_restore", "spawn",
             "desire", "take", "reap", "drop", "build", "publish", "persist",
             "unpublish", "forget", "unlisten", "listen", "next",
             "list_running", "list_desired",
             "docker_create", "docker_start", "docker_stop", "docker_remove", "docker_inspect"}

Task == [op : {"idle", "apply", "start", "stop", "remove", "inspect", "boot"},
         todo : Seq(StepName),
         name : Name \cup {NoName},
         man : Manifest \cup {NoManifest},    \* the manifest it installs
         prev : Manifest \cup {NoManifest},   \* the one it replaces or removes
         id : Id \cup {NoId},
         desired : DesiredState,
         rest : SUBSET Name,                  \* services still to be restored
         found : SUBSET (Name \X Endpoint)]   \* endpoints the start has yet to listen on

Idle == [op |-> "idle", todo |-> <<>>, name |-> NoName, man |-> NoManifest,
         prev |-> NoManifest, id |-> NoId, desired |-> "stopped", rest |-> {}, found |-> {}]

TypeOK ==
  /\ store \in [Name -> Service \cup {NoService}]
  /\ dirs \in [Id -> Dir \cup {NoDir}]
  /\ manifests \in [Name -> Manifest \cup {NoManifest}]
  /\ prov \in [Name -> Entry \cup {NoEntry}]
  /\ containers \in [Id -> {"none", "created", "running"}]
  /\ listening \subseteq Name \X Endpoint
  /\ task \in [Caller -> Task]
  /\ stopped \subseteq Name
  /\ errored \subseteq Name \cup Id

-----------------------------------------------------------------------------
\* Operators

Wasm(m) == RuntimeOf[m] = "wasmtime"
Docker(m) == RuntimeOf[m] = "docker"

At(p, step) == task[p].todo # <<>> /\ Head(task[p].todo) = step

\* The end of a call; the boot task goes on with the next service.
Ended(t) ==
  IF t.op = "boot" THEN [Idle EXCEPT !.op = "boot", !.todo = <<"next">>,
                                     !.rest = t.rest]
                   ELSE Idle

\* The next step of t.
Advanced(t) ==
  IF Len(t.todo) > 1 THEN [t EXCEPT !.todo = Tail(@)] ELSE Ended(t)

\* apply and remove return at the first error, start where the record or the
\* listeners follow.
HalfWay(t) == t.op \in {"apply", "remove"} \/ Head(t.todo) \in {"desire", "listen"}

\* docker_runtime_handle_or_name: a call knows a container by the identifier of its service;
\* without a record it falls back on the name of the service, which no container has.
Handle(t) ==
  IF Head(t.todo) \in {"docker_create", "docker_remove"} /\ t.op = "apply" THEN t.id
  ELSE IF store[t.name] # NoService THEN store[t.name].id ELSE NoId

Missing(i) == i = NoId \/ containers[i] = "none"

\* The containers a call may have left in any state.
ContainersOf(t) ==
  {i \in Id : containers[i] # "none"}
    \cap ({t.id} \cup {store[n].id : n \in {k \in {t.name} \cap Name : store[k] # NoService}})

Continue(p) == task' = [task EXCEPT ![p] = Advanced(@)] /\ UNCHANGED errored
Abort(p) == /\ task' = [task EXCEPT ![p] = Ended(@)]
            /\ errored' = errored \cup ContainersOf(task[p])
                                  \cup {n \in {task[p].name} : HalfWay(task[p])}
Instead(p, step) ==
  task' = [task EXCEPT ![p].todo = <<step>> \o Tail(@)] /\ UNCHANGED errored

\* Mutant: a manifest without a definition id fits any.
CompatibleIfNone(prev, next) ==
  NoDefinition \in {DefinitionOf[prev], DefinitionOf[next]} \/ DefinitionOf[prev] = DefinitionOf[next]

\* ensure_definition_id_compatible
Compatible(prev, next) ==
  DefinitionOf[prev] = NoDefinition \/ DefinitionOf[prev] = DefinitionOf[next]

\* ULIDs do not repeat.
Fresh(i) ==
  /\ dirs[i] = NoDir /\ containers[i] = "none"
  /\ \A n \in Name : store[n] # NoService => store[n].id # i
  /\ \A p \in Caller : task[p].id # i

StartPlan(m) ==
  CASE Wasm(m) -> <<"ensure", "spawn", "desire">>
    [] Docker(m) -> <<"docker_start", "desire">>
    [] OTHER -> <<"desire">>

\* stop_runtime_only and remove_runtime_only: what is there is stopped and removed.
ReplacePlan(prev, desired) ==
  CASE Wasm(prev) -> (IF desired = "running" THEN <<"take">> ELSE <<>>) \o <<"take", "drop">>
    [] Docker(prev) -> (IF desired = "running" THEN <<"docker_stop">> ELSE <<>>) \o <<"docker_remove">>
    [] OTHER -> <<>>

\* apply_with_local_service_id; for Wasmtime replace_with_local_service_id removes what is
\* there once more.
ApplyPlan(prev, m, desired) ==
  (IF prev # NoManifest THEN ReplacePlan(prev, desired) ELSE <<>>)
  \o (CASE Wasm(m) -> (IF prev # NoManifest THEN <<"take", "drop">> ELSE <<>>) \o <<"build">>
        [] Docker(m) -> <<"docker_create">>
        [] OTHER -> <<>>)
  \o <<"publish", "persist">>
  \o (IF desired = "running"
      THEN StartPlan(m)
           \o (CASE Wasm(m) -> <<"try_ensure">> [] Docker(m) -> <<"docker_inspect">> [] OTHER -> <<>>)
           \o <<"unlisten", "listen">>
      ELSE <<>>)

\* ServiceStateStore::load; it refuses two directories with one name.
Loadable(d) ==
  \A i, j \in Id : d[i] # NoDir /\ d[j] # NoDir /\ d[i].name = d[j].name => i = j

Loaded(d) ==
  [n \in Name |->
     IF \E i \in Id : d[i] # NoDir /\ d[i].name = n
     THEN LET i == CHOOSE i \in Id : d[i] # NoDir /\ d[i].name = n
          IN [id |-> i, man |-> d[i].man, desired |-> d[i].desired]
     ELSE NoService]

\* save_service replaces service.yaml, then state.json, each atomically.
YamlWritten(n, s) ==
  [dirs EXCEPT ![s.id] = [name |-> n, man |-> s.man,
     desired |-> IF dirs[s.id] = NoDir THEN "stopped" ELSE dirs[s.id].desired]]
Written(n, s) ==
  [dirs EXCEPT ![s.id] = [name |-> n, man |-> s.man, desired |-> s.desired]]

\* The directory without its state.json.
Stateless(i) ==
  IF dirs[i] = NoDir THEN {} ELSE {[dirs EXCEPT ![i].desired = "stopped"]}

\* The record of n becomes s in memory and, if the writes succeed, on disk.
Save(p, n, s) ==
  /\ store' = [store EXCEPT ![n] = s]
  /\ \/ dirs' = Written(n, s) /\ Continue(p)
     \/ MayFail /\ dirs' \in {dirs, YamlWritten(n, s)} /\ Abort(p)

\* The record that the next step of p saves, if it is one that does.
Persisted(t) == [id |-> t.id, man |-> t.man, desired |-> t.desired]
Desired(t) == [store[t.name] EXCEPT !.desired = t.desired]

EndpointsAs(n, m) == IF m = NoManifest THEN {} ELSE {n} \X EndpointsOf[m]

BootTask == [Idle EXCEPT !.op = "boot", !.todo = <<"next">>]

-----------------------------------------------------------------------------
Init ==
  /\ dirs = [i \in Id |-> NoDir]
  /\ store = [n \in Name |-> NoService]
  /\ manifests = [n \in Name |-> NoManifest]
  /\ prov = [n \in Name |-> NoEntry]
  /\ containers = [i \in Id |-> "none"]
  /\ listening = {}
  /\ task = [p \in Caller |-> IF p = Boot THEN BootTask ELSE Idle]
  /\ stopped = {}
  /\ errored = {}

\* Calls are served once the persisted services have been restored; other devices' may come
\* while the start still looks for the endpoints to listen on.
Serving == task[Boot].op = "idle"
Started == task[Boot] = Idle

Begin(p, t) ==
  /\ Serving
  /\ t.op \in Operations
  /\ task[p].op = "idle"
  /\ task' = [task EXCEPT ![p] = t]
  /\ errored' = IF Started THEN errored ELSE errored \cup {t.name}
  /\ UNCHANGED <<store, dirs, manifests, prov, containers, listening>>

\* apply_manifest_yaml looks the identifier up first, or makes one.
ApplyBegin(p, n, m, i) ==
  /\ IF store[n] # NoService THEN i = store[n].id ELSE Fresh(i)
  /\ Begin(p, [Idle EXCEPT !.op = "apply", !.todo = <<"resolve">>, !.name = n,
                           !.man = m, !.id = i])
  /\ UNCHANGED stopped

\* start_by_name, stop_by_name and remove_by_name resolve the runtime first.
StartBegin(p, n) ==
  /\ manifests[n] # NoManifest
  /\ Begin(p, [Idle EXCEPT !.op = "start", !.name = n, !.desired = "running",
                           !.todo = StartPlan(manifests[n]) \o <<"listen">>])
  /\ stopped' = stopped \ {n}

StopBegin(p, n) ==
  /\ manifests[n] # NoManifest
  /\ Begin(p, [Idle EXCEPT !.op = "stop", !.name = n,
       !.todo = (CASE Wasm(manifests[n]) -> <<"try_ensure", "take">>
                   [] Docker(manifests[n]) -> <<"docker_stop">>
                   [] OTHER -> <<>>) \o <<"desire", "unlisten">>])
  /\ UNCHANGED stopped

\* Mutant: the record goes, the process stays.
RemoveRecordOnly(p, n) ==
  /\ manifests[n] # NoManifest
  /\ Begin(p, [Idle EXCEPT !.op = "remove", !.name = n, !.prev = manifests[n],
                           !.todo = <<"unpublish", "forget", "unlisten">>])
  /\ UNCHANGED stopped

\* A Wasmtime service without a record is not removed.
RemoveBegin(p, n) ==
  LET m == manifests[n] IN
  /\ m # NoManifest
  /\ Wasm(m) => store[n] # NoService
  /\ Begin(p, [Idle EXCEPT !.op = "remove", !.name = n, !.prev = m,
       !.todo = (CASE Wasm(m) -> <<"take", "drop">>
                   [] Docker(m) -> <<"docker_remove">>
                   [] OTHER -> <<>>) \o <<"unpublish", "forget", "unlisten">>])
  /\ UNCHANGED stopped

\* inspect, logs and the lists of services, which also restore an entry.
InspectBegin(p, n) ==
  /\ manifests[n] # NoManifest /\ Wasm(manifests[n])
  /\ Begin(p, [Idle EXCEPT !.op = "inspect", !.name = n, !.todo = <<"try_ensure">>])
  /\ UNCHANGED stopped

-----------------------------------------------------------------------------
\* The steps of RuntimeControl

\* The first part of apply: the desired state is read here and used at the end.
Resolve(p) ==
  LET t == task[p]
      s == store[t.name]
      prev == IF s # NoService THEN s.man ELSE manifests[t.name]
      desired == IF s # NoService THEN s.desired ELSE "stopped"
  IN
  /\ At(p, "resolve")
  /\ IF \/ prev # NoManifest /\ ~ Compatible(prev, t.man)
        \/ s # NoService /\ s.id # t.id
     THEN Abort(p)
     ELSE /\ task' = [task EXCEPT ![p] = [t EXCEPT !.prev = prev, !.desired = desired,
                                  !.todo = ApplyPlan(prev, t.man, desired)]]
          /\ UNCHANGED errored
  /\ UNCHANGED <<store, dirs, manifests, prov, containers, listening, stopped>>

\* ensure_runtime_service; stop ignores its errors, and so does the inspect at
\* the end of apply as long as there is a manifest.
Ensure(p) ==
  LET t == task[p]
      n == t.name
  IN
  /\ At(p, "ensure") \/ At(p, "try_ensure")
  /\ \/ prov[n] # NoEntry /\ Continue(p)
     \/ /\ prov[n] = NoEntry
        /\ IF manifests[n] # NoManifest /\ store[n] # NoService
           THEN /\ task' = [task EXCEPT ![p] = [t EXCEPT !.man = manifests[n],
                     !.todo = <<IF At(p, "ensure") THEN "restore" ELSE "try_restore">>
                              \o Tail(t.todo)]]
                /\ UNCHANGED errored
           ELSE IF At(p, "ensure") \/ (t.op = "apply" /\ manifests[n] = NoManifest)
                THEN Abort(p) ELSE Continue(p)
  /\ UNCHANGED <<store, dirs, manifests, prov, containers, listening, stopped>>

\* WasmtimeRuntimeProvider::restore: the entry is built without a lock and
\* inserted if there is none by then.
Restore(p) ==
  LET t == task[p]
      n == t.name
  IN
  /\ At(p, "restore") \/ At(p, "try_restore")
  /\ \/ /\ prov' = IF prov[n] = NoEntry
                   THEN [prov EXCEPT ![n] = [man |-> t.man, child |-> FALSE]] ELSE prov
        /\ Continue(p)
     \/ /\ MayFail \/ ~ Wasm(t.man)
        /\ IF At(p, "restore") THEN Abort(p) ELSE Continue(p)
        /\ UNCHANGED prov
  /\ UNCHANGED <<store, dirs, manifests, containers, listening, stopped>>

\* WasmtimeRuntimeProvider::start
Spawn(p) ==
  LET n == task[p].name IN
  /\ At(p, "spawn")
  /\ \/ /\ prov[n] # NoEntry /\ ~ prov[n].child
        /\ prov' = [prov EXCEPT ![n].child = TRUE]
        /\ Continue(p)
     \/ /\ MayFail \/ (prov[n] # NoEntry => prov[n].child)
        /\ Abort(p)
        /\ UNCHANGED prov
  /\ UNCHANGED <<store, dirs, manifests, containers, listening, stopped>>

\* set_desired_state
Desire(p) ==
  LET t == task[p] IN
  /\ At(p, "desire")
  /\ IF store[t.name] # NoService
     THEN Save(p, t.name, Desired(t))
     ELSE Abort(p) /\ UNCHANGED <<store, dirs>>
  /\ UNCHANGED <<manifests, prov, containers, listening, stopped>>

\* The first half of WasmtimeRuntimeProvider::stop takes the process out of
\* its entry.  Only stop itself minds that there is no entry.
Take(p) ==
  LET n == task[p].name IN
  /\ At(p, "take")
  /\ \/ /\ prov[n] # NoEntry /\ prov[n].child
        /\ prov' = [prov EXCEPT ![n].child = FALSE]
        /\ Instead(p, "reap")
     \/ /\ prov[n] # NoEntry /\ ~ prov[n].child
        /\ Continue(p)
        /\ UNCHANGED prov
     \/ /\ prov[n] = NoEntry
        /\ IF task[p].op = "stop" THEN Abort(p) ELSE Continue(p)
        /\ UNCHANGED prov
  /\ UNCHANGED <<store, dirs, manifests, containers, listening, stopped>>

\* The second half, when the process is dead: `child' is cleared again, and
\* with it any process started meanwhile (kill_on_drop).
Reap(p) ==
  LET n == task[p].name IN
  /\ At(p, "reap")
  /\ IF prov[n] # NoEntry
     THEN prov' = [prov EXCEPT ![n].child = FALSE] /\ Continue(p)
     ELSE /\ UNCHANGED prov
          /\ IF task[p].op = "stop" THEN Abort(p) ELSE Continue(p)
  /\ UNCHANGED <<store, dirs, manifests, containers, listening, stopped>>

\* The rest of remove_artifacts_and_runtime: the entry goes, its process with
\* it; the directories may resist.
Drop(p) ==
  /\ At(p, "drop")
  /\ prov' = [prov EXCEPT ![task[p].name] = NoEntry]
  /\ Continue(p) \/ (MayFail /\ Abort(p))
  /\ UNCHANGED <<store, dirs, manifests, containers, listening, stopped>>

\* The end of WasmtimeRuntimeProvider::apply_with_local_service_id, after the
\* component has been staged.
Build(p) ==
  LET t == task[p] IN
  /\ At(p, "build")
  /\ \/ /\ prov[t.name] = NoEntry
        /\ prov' = [prov EXCEPT ![t.name] = [man |-> t.man, child |-> FALSE]]
        /\ Continue(p)
     \/ /\ MayFail \/ prov[t.name] # NoEntry
        /\ Abort(p)
        /\ UNCHANGED prov
  /\ UNCHANGED <<store, dirs, manifests, containers, listening, stopped>>

\* A request of the Docker agent, which first looks whether the container is one of its own,
\* makes a container `next' where it is in one of the states `from'; it may fail before or
\* after it has had this effect.
Request(p, from, next) ==
  LET i == Handle(task[p]) IN
  /\ \/ /\ ~ Missing(i) /\ containers[i] \in from
        /\ containers' = [containers EXCEPT ![i] = next]
        /\ \/ /\ task' = [task EXCEPT ![p] = Advanced(@)]
              /\ errored' = IF next # "running" THEN errored \ {i} ELSE errored
           \/ MayFail /\ Abort(p)
     \/ /\ ~ Missing(i)
        /\ MayFail \/ containers[i] \notin from
        /\ Abort(p)
        /\ UNCHANGED containers
  /\ UNCHANGED <<store, dirs, manifests, prov, listening, stopped>>

\* stop and remove put up with a container that is missing, start does not.
Tolerate(p) ==
  /\ Missing(Handle(task[p]))
  /\ Continue(p)
  /\ UNCHANGED <<store, dirs, manifests, prov, containers, listening, stopped>>

\* DockerAgent::create_container, pulling the image if need be; the name must be free.
DockerCreate(p) ==
  LET i == Handle(task[p]) IN
  /\ At(p, "docker_create")
  /\ \/ /\ containers[i] = "none"
        /\ containers' = [containers EXCEPT ![i] = "created"]
        /\ Continue(p) \/ (MayFail /\ Abort(p))
     \/ /\ MayFail \/ containers[i] # "none"
        /\ Abort(p)
        /\ UNCHANGED containers
  /\ UNCHANGED <<store, dirs, manifests, prov, listening, stopped>>

DockerStart(p) ==
  /\ At(p, "docker_start")
  /\ \/ Request(p, {"created", "running"}, "running")
     \/ /\ Missing(Handle(task[p]))
        /\ Abort(p)
        /\ UNCHANGED <<store, dirs, manifests, prov, containers, listening, stopped>>

\* Mutant: an error of the Docker daemon is taken for a missing container.
DockerStopUnchecked(p) ==
  /\ At(p, "docker_stop")
  /\ \/ Request(p, {"created", "running"}, "created")
     \/ /\ Continue(p)
        /\ UNCHANGED <<store, dirs, manifests, prov, containers, listening, stopped>>

DockerStop(p) ==
  /\ At(p, "docker_stop")
  /\ Request(p, {"created", "running"}, "created") \/ Tolerate(p)

\* A running container is not removed: the request does not force it.
DockerRemove(p) ==
  /\ At(p, "docker_remove")
  /\ Request(p, {"created"}, "none") \/ Tolerate(p)

\* The inspection at the end of an apply.
DockerInspect(p) ==
  /\ At(p, "docker_inspect")
  /\ Continue(p) \/ (MayFail /\ Abort(p))
  /\ UNCHANGED <<store, dirs, manifests, prov, containers, listening, stopped>>

Publish(p) ==
  /\ At(p, "publish")
  /\ manifests' = [manifests EXCEPT ![task[p].name] = task[p].man]
  /\ Continue(p)
  /\ UNCHANGED <<store, dirs, prov, containers, listening, stopped>>

\* Mutant: the identifier on record is not compared with the requested one.
PersistAnyId(p) ==
  /\ At(p, "persist")
  /\ Save(p, task[p].name, Persisted(task[p]))
  /\ UNCHANGED <<manifests, prov, containers, listening, stopped>>

\* upsert_service_with_local_service_id
Persist(p) ==
  LET t == task[p]
      s == store[t.name]
  IN
  /\ At(p, "persist")
  /\ IF s = NoService \/ s.id = t.id
     THEN Save(p, t.name, Persisted(t))
     ELSE Abort(p) /\ UNCHANGED <<store, dirs>>
  /\ UNCHANGED <<manifests, prov, containers, listening, stopped>>

Unpublish(p) ==
  /\ At(p, "unpublish")
  /\ manifests' = [manifests EXCEPT ![task[p].name] = NoManifest]
  /\ Continue(p)
  /\ UNCHANGED <<store, dirs, prov, containers, listening, stopped>>

\* ServiceStateStore::remove_service; when the removal of the directory fails,
\* all of it, service.yaml alone or nothing to be loaded is left.
Forget(p) ==
  LET n == task[p].name
      s == store[n]
      gone == IF s = NoService THEN dirs ELSE [dirs EXCEPT ![s.id] = NoDir]
  IN
  /\ At(p, "forget")
  /\ store' = [store EXCEPT ![n] = NoService]
  /\ \/ dirs' = gone /\ Continue(p)
     \/ /\ MayFail /\ s # NoService
        /\ dirs' \in {gone, dirs} \cup Stateless(s.id)
        /\ Abort(p)
  /\ stopped' = stopped \ {n}
  /\ UNCHANGED <<manifests, prov, containers, listening>>

\* Mutant: always by the current manifest.
UnlistenCurrent(p) ==
  /\ At(p, "unlisten")
  /\ listening' = listening \ EndpointsAs(task[p].name, manifests[task[p].name])
  /\ Continue(p)
  /\ UNCHANGED <<store, dirs, manifests, prov, containers, stopped>>

\* sync_service_endpoint_listeners_*, disabled: apply and remove go by the
\* manifest they saw at first, stop by the current one.
Unlisten(p) ==
  LET t == task[p]
      m == IF t.op = "stop" THEN manifests[t.name] ELSE t.prev
  IN
  /\ At(p, "unlisten")
  /\ listening' = listening \ EndpointsAs(t.name, m)
  /\ Continue(p)
  /\ stopped' = IF t.op = "stop" THEN stopped \cup {t.name} ELSE stopped
  /\ UNCHANGED <<store, dirs, manifests, prov, containers>>

\* ... and enabled.  An error leaves the rest of the endpoints out.
Listen(p) ==
  LET t == task[p]
      new == EndpointsAs(t.name, manifests[t.name])
  IN
  /\ At(p, "listen")
  /\ \/ listening' = listening \cup new /\ Continue(p)
     \/ MayFail /\ listening' \in {listening \cup some : some \in SUBSET new} /\ Abort(p)
  /\ UNCHANGED <<store, dirs, manifests, prov, containers, stopped>>

-----------------------------------------------------------------------------
\* restore_persisted_state and restore_local_service_endpoint_listeners

BootNext(n) ==
  LET s == store[n]
      t == task[Boot]
  IN
  /\ At(Boot, "next") /\ n \in t.rest
  /\ task' = [task EXCEPT ![Boot] =
       [t EXCEPT !.rest = @ \ {n}, !.name = n, !.man = s.man, !.desired = s.desired,
          !.todo = <<"publish">> \o (IF Wasm(s.man) THEN <<"try_restore">> ELSE <<>>)
                   \o (IF s.desired = "running" THEN StartPlan(s.man) ELSE <<>>)]]
  /\ UNCHANGED <<store, dirs, manifests, prov, containers, listening, stopped, errored>>

BootRestored ==
  /\ At(Boot, "next") /\ task[Boot].rest = {}
  /\ task' = [task EXCEPT ![Boot] = [Idle EXCEPT !.todo = <<"list_running", "list_desired">>]]
  /\ UNCHANGED <<store, dirs, manifests, prov, containers, listening, stopped, errored>>

\* The status list_services finds.
Running(n) ==
  /\ manifests[n] # NoManifest
  /\ CASE Wasm(manifests[n]) -> prov[n] # NoEntry /\ prov[n].child
       [] Docker(manifests[n]) -> store[n] # NoService /\ containers[store[n].id] = "running"
       [] OTHER -> store[n] # NoService /\ store[n].desired = "running"

\* The looks at services are two: at those that run, of which the Docker daemon may fail to tell,
\* and at those on record as desired to run.
Find(endpoints) ==
  LET t == task[Boot]
  IN  task' = [task EXCEPT ![Boot] = [t EXCEPT !.todo = Tail(@), !.found = endpoints]]

BootListRunning ==
  LET running == {n \in Name : Running(n)}
      missing == {n \in Name : /\ manifests[n] # NoManifest /\ Wasm(manifests[n])
                               /\ prov[n] = NoEntry /\ store[n] # NoService}
      told == {n \in running : ~ MayFail \/ ~ Docker(manifests[n])}
  IN
  /\ At(Boot, "list_running")
  /\ \E seen \in SUBSET running :
       /\ told \subseteq seen
       /\ Find(UNION {EndpointsAs(n, manifests[n]) : n \in seen})
       /\ errored' = errored \cup {n \in seen : store[n] # NoService /\ store[n].desired = "stopped"}
  /\ \E restored \in SUBSET missing :
       /\ ~ MayFail => restored = missing
       /\ prov' = [n \in Name |-> IF n \in restored THEN [man |-> manifests[n], child |-> FALSE]
                                                    ELSE prov[n]]
  /\ UNCHANGED <<store, dirs, manifests, containers, listening, stopped>>

BootListDesired ==
  /\ At(Boot, "list_desired") /\ task[Boot].found = {}
  /\ Find(UNION {EndpointsAs(n, store[n].man) :
               n \in {k \in Name : store[k] # NoService /\ store[k].desired = "running"}})
  /\ UNCHANGED <<store, dirs, manifests, prov, containers, listening, stopped, errored>>

\* One endpoint after the other; one that cannot be listened on is passed over.
BootListen ==
  /\ \E e \in task[Boot].found :
       /\ task' = [task EXCEPT ![Boot].found = @ \ {e}]
       /\ \/ listening' = listening \cup {e} /\ UNCHANGED errored
          \/ MayFail /\ errored' = errored \cup {e[1]} /\ UNCHANGED listening
  /\ UNCHANGED <<store, dirs, manifests, prov, containers, stopped>>

-----------------------------------------------------------------------------
\* A process exits by itself; whoever looks next notices.
ChildExits(n) ==
  /\ "exit" \in Operations
  /\ prov[n] # NoEntry /\ prov[n].child
  /\ prov' = [prov EXCEPT ![n].child = FALSE]
  /\ UNCHANGED <<store, dirs, manifests, containers, listening, task, stopped, errored>>

\* A container ends, or its owner removes it behind the daemon's back.
ContainerExits(i) ==
  /\ "exit" \in Operations
  /\ containers[i] = "running"
  /\ containers' = [containers EXCEPT ![i] = "created"]
  /\ UNCHANGED <<store, dirs, manifests, prov, listening, task, stopped, errored>>

ContainerVanishes(i) ==
  /\ "exit" \in Operations
  /\ containers[i] # "none"
  /\ containers' = [containers EXCEPT ![i] = "none"]
  /\ UNCHANGED <<store, dirs, manifests, prov, listening, task, stopped, errored>>

\* What a crash of the daemon can leave on disk: a save or a removal that
\* another thread was at is done in part.
CrashDirs ==
  {dirs}
  \cup {YamlWritten(task[p].name, Persisted(task[p])) :
          p \in {q \in Caller : /\ At(q, "persist")
                                /\ \/ store[task[q].name] = NoService
                                   \/ store[task[q].name].id = task[q].id}}
  \cup {YamlWritten(task[p].name, store[task[p].name]) :
          p \in {q \in Caller : At(q, "desire") /\ store[task[q].name] # NoService}}
  \cup UNION {Stateless(store[task[p].name].id) :
          p \in {q \in Caller : At(q, "forget") /\ store[task[q].name] # NoService}}

Restart ==
  /\ "restart" \in Operations
  /\ \E d \in CrashDirs :
       /\ Loadable(d)
       /\ dirs' = d
       /\ store' = Loaded(d)
       /\ task' = [p \in Caller |-> IF p # Boot THEN Idle ELSE
            [BootTask EXCEPT !.rest = {n \in Name : Loaded(d)[n] # NoService}]]
  /\ manifests' = [n \in Name |-> NoManifest]
  /\ prov' = [n \in Name |-> NoEntry]
  /\ listening' = {}
  /\ stopped' = {n \in stopped : store'[n] # NoService}
  /\ errored' = (errored \cap Id) \cup UNION {ContainersOf(task[p]) : p \in Caller}
  /\ UNCHANGED containers

Step(p) ==
  \/ Resolve(p) \/ Ensure(p) \/ Restore(p) \/ Spawn(p) \/ Desire(p)
  \/ Take(p) \/ Reap(p) \/ Drop(p) \/ Build(p) \/ Publish(p) \/ Persist(p)
  \/ Unpublish(p) \/ Forget(p) \/ Unlisten(p) \/ Listen(p)
  \/ DockerCreate(p) \/ DockerStart(p) \/ DockerStop(p) \/ DockerRemove(p) \/ DockerInspect(p)

Next ==
  \/ \E p \in Proc, n \in Name :
       \/ StartBegin(p, n) \/ StopBegin(p, n) \/ RemoveBegin(p, n) \/ InspectBegin(p, n)
       \/ \E m \in Manifest, i \in Id : ApplyBegin(p, n, m, i)
  \/ \E p \in Caller : Step(p)
  \/ \E n \in Name : BootNext(n) \/ ChildExits(n)
  \/ \E i \in Id : ContainerExits(i) \/ ContainerVanishes(i)
  \/ BootRestored \/ BootListRunning \/ BootListDesired \/ BootListen
  \/ Restart

Spec == Init /\ [][Next]_vars

-----------------------------------------------------------------------------
\* Properties

Quiet == Started /\ \A p \in Caller : task[p].todo = <<>>

\* However applies, removals and crashes overlap, the next start finds at most
\* one directory per service name: load refuses a duplicate name, and with it
\* the daemon would not start any more.
AlwaysLoadable == \A d \in CrashDirs : Loadable(d)

\* With one caller at a time, whatever fails: when no call is in progress, a process runs
\* only for a service that is on record as desired to run.  A container, which outlives the
\* daemon, runs only for such a Docker service, unless a call on that service has failed or
\* was cut short by a crash and its container has not been stopped since.
NoStrayProcess ==
  Quiet =>
    /\ \A n \in Name : prov[n] # NoEntry /\ prov[n].child =>
         store[n] # NoService /\ store[n].desired = "running"
    /\ \A i \in Id : containers[i] = "running" =>
         \/ \E n \in Name : /\ store[n] # NoService /\ store[n].id = i
                            /\ Docker(store[n].man) /\ store[n].desired = "running"
         \/ i \in errored

\* With one caller at a time, whatever fails and whenever the daemon crashes:
\* a service that was stopped has no process and no running container, and does not
\* come back at the next start until it is started again; apply does not start it.
StoppedStaysStopped ==
  \A n \in stopped :
    /\ prov[n] # NoEntry => ~ prov[n].child
    /\ store[n] # NoService /\ Docker(store[n].man) => containers[store[n].id] # "running"
    /\ Loadable(dirs) /\ Loaded(dirs)[n] # NoService
         => Loaded(dirs)[n].desired = "stopped"

\* With one caller at a time: when no call is in progress, the endpoints exposed
\* of a service are those of its manifest if it is desired to run, and none
\* otherwise, also after a manifest with other endpoints was applied and after
\* a restart, unless a call on it has reported an error half-way, came while the start of the daemon
\* was looking for endpoints, or a crash had left its container running and the start found it.
ListenersMatchDesired ==
  Quiet => \A n \in Name \ errored :
    {l \in listening : l[1] = n} =
      IF store[n] # NoService /\ store[n].desired = "running"
      THEN EndpointsAs(n, store[n].man) ELSE {}

\* With one caller at a time, whatever fails and whenever the daemon crashes: the
\* service in a directory is never replaced by one of another definition
\* (control.rs:147, runtime/tests.rs:1205), although apply compares with the table
\* of manifests, which a failed call leaves different from the disk.
DefinitionKept ==
  [][\A i \in Id : dirs[i] # NoDir /\ dirs'[i] # NoDir =>
       LET was == DefinitionOf[dirs[i].man]
           is  == DefinitionOf[dirs'[i].man]
       IN was # NoDefinition => was = is]_vars
=============================================================================
