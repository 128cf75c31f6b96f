-------------------------------- MODULE Home --------------------------------
(***************************************************************************)
(* A fungi directory and the processes that use it: the migration that     *)
(* every command runs first (crates/config-migrate), the lock of the       *)
(* daemon, the file with its RPC endpoint and how a command finds the      *)
(* daemon through it (crates/config, fungi/src/commands).                  *)
(*                                                                         *)
(* A file or directory is a set of facts, a fact a tuple of strings that   *)
(* begins with its kind; a home maps paths to such sets.  Nothing but the  *)
(* daemon's lock keeps processes apart, and no lock covers the migration.  *)
(***************************************************************************)
EXTENDS Naturals, Sequences, FiniteSets, SequencesExt

CONSTANTS
  Proc,
  Homes,       \* the homes a behaviour may begin with
  Port,        \* RPC ports
  MaxFaults,   \* file operations that fail, processes that are killed
  Absent, NoPort, NoProc,
  Foreign      \* the daemon of another home

\* In the order of the paths, which is the order they are applied in.
Paths == <<"access", "book", "appdata", "artifacts", "managed", "prefs",
           "remote", "config", "devices", "services", "state", "trusted">>
Path == Range(Paths)

ASSUME HomeAssumption ==
  /\ MaxFaults \in Nat
  /\ \A h \in Homes : h = [q \in Path |-> h[q]]
  /\ NoPort \notin Port
  /\ NoProc \notin Proc /\ Foreign \notin Proc /\ NoProc # Foreign

VARIABLES
  live,       \* the home
  saved,      \* a directory under bk/ holds the home as it was first found (nothing reads them)
  task,       \* the processes
  lock,       \* the holder of daemon.lock
  endpoint,   \* the content of daemon.endpoint
  bound,      \* [Port -> ...]: who listens
  link,       \* [Proc -> ...]: who is at the other end of the connection of a command
  steady,     \* history: the daemons that have served ever since a command found them
  faults,
  original    \* history: the home at first

vars == <<live, saved, task, lock, endpoint, bound, link, steady, faults, original>>

Nothing == [p \in Path |-> Absent]
\* found (history): what a migration that has been alone so far began with.
Idle == [pc |-> "idle", kind |-> "command", plan |-> {}, at |-> 1, staged |-> Nothing,
         rollback |-> Nothing, backup |-> Nothing, applied |-> {}, found |-> Nothing,
         port |-> NoPort, round |-> 1]

Migrating == {"detect", "backup", "copy", "transform", "aside", "place", "undo"}
Pcs == Migrating \cup {"idle", "create", "lock", "bind", "publish", "serve", "unpublish", "unlock",
                       "config", "discover", "connect", "check", "connected", "refused"}

Exists(h, p) == h[p] # Absent
Content(h, p) == IF Exists(h, p) THEN h[p] ELSE {}
OfKind(S, k) == {f \in S : f[1] = k}
Subjects(S, k) == {f[2] : f \in OfKind(S, k)}

\* What services-state.json records of a service, and what a service directory
\* of the current layout does.
LegacyKinds == {"desired", "provider", "port", "file"}
CurrentKinds == {"manifest", "desired", "provider", "endpoint"}

\* The first position after i whose path is in S; one past the end if none is.
Following(S, i) ==
  CHOOSE j \in i + 1..Len(Paths) + 1 :
    /\ j <= Len(Paths) => Paths[j] \in S
    /\ \A k \in i + 1..j - 1 : Paths[k] \notin S
Done(t) == t.at > Len(Paths)
Present == {q \in Path : Exists(live, q)}

-----------------------------------------------------------------------------
(* Detection.                                                              *)

\* detect_source_version
Version(h) ==
  IF ~Exists(h, "config") THEN "missing"
  ELSE IF Subjects(h["config"], "version") = {} THEN "none"
  ELSE CHOOSE v \in Subjects(h["config"], "version") : TRUE

\* config_has_legacy_incoming_allowed_peers, config_requires_current_normalization
HasPeers(h) == OfKind(Content(h, "config"), "peer") # {}
Obsolete(h) == \/ Version(h) \in {"none", "2"}
               \/ OfKind(Content(h, "config"), "obsolete") # {}

\* ensure_no_mixed_managed_service_layout
Mixed(h) == OfKind(Content(h, "services"), "manifest") # {}

\* build_migration_plan: the touched paths; what to do follows from them.
Plan(h) ==
  LET when(c, S) == IF c THEN S ELSE {}
  IN when(Exists(h, "config") /\ (Obsolete(h) \/ HasPeers(h)), {"config"})
       \cup when(HasPeers(h), {"trusted"})
       \cup when(Exists(h, "access"), {"access", "prefs"})
       \cup ({"remote", "managed"} \cap {p \in Path : Exists(h, p)})
       \cup when(Exists(h, "book"), {"book", "devices"})
       \cup when(Exists(h, "state"), {"state", "services", "appdata", "artifacts"})

\* migrate_if_needed, before anything is written.
Refused(h) ==
  \/ Exists(h, "state") /\ Mixed(h)
  \/ Version(h) = "missing" /\ Plan(h) # {}
  \/ Version(h) \notin {"missing", "none", "2", "3"}

-----------------------------------------------------------------------------
(* The transformations of the staged copy h.                               *)

\* legacy_incoming_allowed_peers, migrate_legacy_incoming_allowed_peers
AllowedPeers(h) == OfKind(h["config"], "peer")
MigratePeers(h) == [h EXCEPT !["trusted"] = Content(h, "trusted") \cup AllowedPeers(h)]

\* migrate_legacy_local_access: a preference that exists wins.
MigrateAccess(h) ==
  LET known == Subjects(Content(h, "prefs"), "access")
  IN [h EXCEPT !["prefs"] = Content(h, "prefs") \cup {f \in h["access"] : f[2] \notin known},
               !["access"] = Absent]

\* remove_legacy_service_caches
RemoveCaches(h) == [h EXCEPT !["remote"] = Absent, !["managed"] = Absent]

\* migrate_config_toml_to_current
MigrateConfig(h) ==
  [h EXCEPT !["config"] = {f \in @ : f[1] \notin {"version", "peer", "obsolete"}}
                            \cup {<<"version", "3">>}]

\* legacy_peer_to_device_table: the devices a legacy book names.
BookDevices(h) == OfKind(h["book"], "device")

\* migrate_legacy_address_book; a book that is gone is left alone.
MigrateBook(h) ==
  IF ~Exists(h, "book") THEN h
  ELSE [h EXCEPT !["devices"] = Content(h, "devices") \cup BookDevices(h), !["book"] = Absent]

\* migrate_legacy_service_manifest: the port a legacy service publishes.
Published(f, docker) == IF docker \/ f[4] = "0" THEN f[5] ELSE f[4]

\* A service over UDP, without a port or without its component cannot be
\* represented.
Representable(h) ==
  Exists(h, "state") =>
    \A s \in Subjects(h["state"], "desired") :
      LET ports == {f \in OfKind(h["state"], "port") : f[2] = s}
      IN /\ ports # {} /\ \A f \in ports : f[3] = "tcp"
         /\ <<"file", s>> \in h["state"] => <<"component", s>> \in Content(h, "services")

\* migrate_wasmtime_component: the components that lie in a service's directory.
Components(h) ==
  {f \in OfKind(Content(h, "services"), "component") : <<"file", f[2]>> \in h["state"]}

\* migrate_legacy_services_state: each service gets a directory of its own, its
\* data moves to appdata and its component to artifacts.
MigrateServices(h) ==
  IF ~Exists(h, "state") THEN h
  ELSE LET old == Content(h, "services")
           names == Subjects(h["state"], "desired")
           data == {f \in OfKind(old, "data") : f[2] \in names}
           component == Components(h)
           docker(s) == <<"provider", s, "docker">> \in h["state"]
       IN [h EXCEPT !["state"] = Absent,
                    !["services"] = (old \ (data \cup component))
                       \cup {<<"manifest", s>> : s \in names}
                       \cup OfKind(h["state"], "desired") \cup OfKind(h["state"], "provider")
                       \cup {<<"endpoint", f[2], Published(f, docker(f[2]))>> :
                               f \in OfKind(h["state"], "port")},
                    !["appdata"] = Content(h, "appdata") \cup data,
                    !["artifacts"] = Content(h, "artifacts") \cup component]

\* migrate_with_plan, between the copy and the validation.  A path the plan
\* names may be gone by the time it is copied.
Readable(h, plan) == /\ "config" \in plan => Exists(h, "config")
                     /\ "access" \in plan => Exists(h, "access")
                     /\ Representable(h)
Transform(h, plan) ==
  LET do(name, g, Op(_)) == IF name \in plan THEN Op(g) ELSE g
      h1 == do("trusted", h, MigratePeers)
      h2 == do("access", h1, MigrateAccess)
      h3 == IF {"remote", "managed"} \cap plan # {} THEN RemoveCaches(h2) ELSE h2
      h4 == do("config", h3, MigrateConfig)
      h5 == do("book", h4, MigrateBook)
  IN do("state", h5, MigrateServices)

\* validate_migrated_dir
Valid(h, plan) ==
  /\ "config" \in plan => Version(h) = "3"
  /\ "book" \in plan => ~Exists(h, "book") /\ Exists(h, "devices")
  /\ "trusted" \in plan => Exists(h, "trusted")
  /\ "access" \in plan => ~Exists(h, "access") /\ Exists(h, "prefs")
  /\ {"remote", "managed"} \cap plan # {} => ~Exists(h, "remote") /\ ~Exists(h, "managed")
  /\ "state" \in plan => ~Exists(h, "state")

-----------------------------------------------------------------------------
(* The steps of a migration.                                               *)

Fail == faults < MaxFaults /\ faults' = faults + 1
At(p, pc) == task[p].pc = pc
Become(p, t) == task' = [task EXCEPT ![p] = t]
Exit(p) == Become(p, Idle)

Daemonic == <<lock, endpoint, bound>>
Calls == <<link, steady>>

\* Nobody else migrates or initialises the home.
Alone(p) == \A q \in Proc \ {p} : task[q].pc \notin Migrating \cup {"create"}

\* main: a command or a daemon begins with the preflight.
Begin(p, kind) ==
  /\ At(p, "idle")
  /\ task' = [q \in Proc |-> IF q = p THEN [Idle EXCEPT !.pc = "detect", !.kind = kind]
                             ELSE [task[q] EXCEPT !.found = Nothing]]
  /\ UNCHANGED <<live, saved, Daemonic, Calls, faults, original>>

\* After the preflight a command looks for the daemon, and a daemon initialises,
\* which migrates once more.
Migrated(t) ==
  [Idle EXCEPT !.kind = t.kind, !.round = 2,
               !.pc = IF t.kind = "command" THEN "config"
                      ELSE IF t.round = 1 THEN "detect" ELSE "create"]

Detect(p) ==
  /\ At(p, "detect")
  /\ IF Refused(live) THEN Exit(p)
     ELSE Become(p, IF Plan(live) = {} THEN Migrated(task[p])
                    ELSE [task[p] EXCEPT !.pc = "backup", !.plan = Plan(live), !.found = IF Alone(p) THEN live ELSE Nothing,
                                          !.at = Following(Present, 0)])
  /\ UNCHANGED <<live, saved, Daemonic, Calls, faults, original>>

\* Mutant: only what the migration touches is copied.
CopyTouched(p) ==
  LET t == task[p]
  IN /\ At(p, "backup")
     /\ IF ~Done(t)
        THEN /\ Become(p, [t EXCEPT !.backup[Paths[t.at]] =
                              IF Paths[t.at] \in t.plan THEN live[Paths[t.at]] ELSE Absent,
                            !.at = Following(Present, @)])
             /\ UNCHANGED saved
        ELSE /\ Become(p, [t EXCEPT !.backup = Nothing, !.at = Following(t.plan, 0), !.pc = "copy"])
             /\ saved' = (saved \/ t.backup = original)
     /\ UNCHANGED <<live, Daemonic, Calls, faults, original>>

\* MigrationTransaction::prepare, copy_backup_snapshot: every path there is.
CopyBackup(p) ==
  LET t == task[p]
  IN /\ At(p, "backup")
     /\ IF ~Done(t)
        THEN /\ Become(p, [t EXCEPT !.backup[Paths[t.at]] = live[Paths[t.at]],
                                    !.at = Following(Present, @)])
             /\ UNCHANGED saved
        ELSE /\ Become(p, [t EXCEPT !.backup = Nothing, !.at = Following(t.plan, 0), !.pc = "copy"])
             /\ saved' = (saved \/ t.backup = original)
     /\ UNCHANGED <<live, Daemonic, Calls, faults, original>>

\* copy_selected_paths
CopySelected(p) ==
  LET t == task[p]
  IN /\ At(p, "copy")
     /\ Become(p, IF Done(t) THEN [t EXCEPT !.pc = "transform"]
                  ELSE [t EXCEPT !.staged[Paths[t.at]] = live[Paths[t.at]],
                                 !.at = Following(t.plan, @)])
     /\ UNCHANGED <<live, saved, Daemonic, Calls, faults, original>>

TransformStaged(p) ==
  LET t == task[p]
      h == Transform(t.staged, t.plan)
  IN /\ At(p, "transform")
     /\ IF Readable(t.staged, t.plan) /\ Valid(h, t.plan)
        THEN Become(p, [t EXCEPT !.staged = h, !.at = Following(t.plan, 0), !.pc = "aside"])
        ELSE Exit(p)
     /\ UNCHANGED <<live, saved, Daemonic, Calls, faults, original>>

\* Any file operation on the copies may fail: the home is as it was.
StagingFails(p) ==
  /\ task[p].pc \in {"backup", "copy", "transform"}
  /\ Fail
  /\ Exit(p)
  /\ UNCHANGED <<live, saved, Daemonic, Calls, original>>

\* apply_one_staged_path, first half: the live path moves aside.
MoveAside(p) ==
  LET t == task[p]
      path == Paths[t.at]
  IN /\ At(p, "aside") /\ ~Done(t)
     /\ Become(p, [t EXCEPT !.rollback[path] = live[path], !.pc = "place"])
     /\ live' = [live EXCEPT ![path] = Absent]
     /\ UNCHANGED <<saved, Daemonic, Calls, faults, original>>

\* A directory does not replace one that is not empty.
Directories == {"appdata", "artifacts", "managed", "remote", "services"}
Blocked(path, content) == path \in Directories /\ content # Absent /\ Content(live, path) # {}

\* Second half: the staged path moves into place.
MoveIntoPlace(p) ==
  LET t == task[p]
      path == Paths[t.at]
  IN /\ At(p, "place") /\ ~Blocked(path, t.staged[path])
     /\ live' = IF Exists(t.staged, path) THEN [live EXCEPT ![path] = t.staged[path]] ELSE live
     /\ Become(p, [t EXCEPT !.applied = @ \cup {path}, !.at = Following(t.plan, @), !.pc = "aside"])
     /\ UNCHANGED <<saved, Daemonic, Calls, faults, original>>

\* A rename fails, or another process has filled the place: the path is put
\* back if it can be, then what was applied is undone.
ApplyFails(p) ==
  LET t == task[p]
      path == Paths[t.at]
  IN /\ t.pc \in {"aside", "place"} /\ ~Done(t)
     /\ \/ Fail
        \/ /\ t.pc = "place" /\ Blocked(path, t.staged[path])
           /\ UNCHANGED faults
     /\ live' = IF /\ t.pc = "place" /\ Exists(t.rollback, path)
                   /\ ~Blocked(path, t.rollback[path])
                THEN [live EXCEPT ![path] = t.rollback[path]] ELSE live
     /\ Become(p, [t EXCEPT !.pc = "undo"])
     /\ UNCHANGED <<saved, Daemonic, Calls, original>>

\* The last path applied that is not undone yet.
LastApplied(t) == CHOOSE i \in 1..Len(Paths) :
                    /\ Paths[i] \in t.applied
                    /\ \A j \in i + 1..Len(Paths) : Paths[j] \notin t.applied

\* Mutant: the staged path is removed and the one set aside forgotten.
UndoRemovesOnly(p) ==
  LET t == task[p]
      path == Paths[LastApplied(t)]
  IN /\ At(p, "undo")
     /\ IF t.applied = {} THEN Exit(p) /\ UNCHANGED live
        ELSE /\ live' = [live EXCEPT ![path] = Absent]
             /\ Become(p, [t EXCEPT !.applied = @ \ {path}])
     /\ UNCHANGED <<saved, Daemonic, Calls, faults, original>>

\* rollback_applied_paths
Undo(p) ==
  LET t == task[p]
      path == Paths[LastApplied(t)]
  IN /\ At(p, "undo")
     /\ IF t.applied = {} THEN Exit(p) /\ UNCHANGED live
        ELSE /\ live' = [live EXCEPT ![path] = IF Exists(t.rollback, path) THEN t.rollback[path]
                                               ELSE IF Exists(t.staged, path) THEN Absent ELSE @]
             /\ Become(p, [t EXCEPT !.applied = @ \ {path}])
     /\ UNCHANGED <<saved, Daemonic, Calls, faults, original>>

\* apply_staged_paths is through; the staging directory goes, with what was set
\* aside.
Cleanup(p) ==
  /\ At(p, "aside") /\ Done(task[p])
  /\ \/ Become(p, Migrated(task[p])) /\ UNCHANGED faults
     \/ Fail /\ Exit(p)
  /\ UNCHANGED <<live, saved, Daemonic, Calls, original>>

-----------------------------------------------------------------------------
(* The daemon.                                                             *)

Migration == <<live, saved>>

\* init: the files a home lacks are created; nothing is created over one.
Create(p) ==
  /\ At(p, "create")
  /\ live' = IF Exists(live, "config") THEN live
             ELSE [q \in Path |-> IF Exists(live, q) THEN live[q]
                                  ELSE IF q = "config" THEN {<<"version", "3">>}
                                  ELSE IF q \in {"devices", "prefs", "trusted"} THEN {} ELSE Absent]
  /\ Become(p, [task[p] EXCEPT !.pc = "lock"])
  /\ UNCHANGED <<saved, Daemonic, Calls, faults, original>>

\* Mutant: the lock file that is there is taken over.
LockTakesOver(p) ==
  /\ At(p, "lock")
  /\ lock' = p
  /\ Become(p, [task[p] EXCEPT !.pc = "bind"])
  /\ UNCHANGED <<Migration, endpoint, bound, Calls, faults, original>>

\* DaemonInstanceLock::acquire
Lock(p) ==
  /\ At(p, "lock")
  /\ IF lock = NoProc THEN lock' = p /\ Become(p, [task[p] EXCEPT !.pc = "bind"])
     ELSE Exit(p) /\ UNCHANGED lock
  /\ UNCHANGED <<Migration, endpoint, bound, Calls, faults, original>>

\* What a process gives back when it is gone; its connections break.
Released(p) ==
  /\ lock' = IF lock = p THEN NoProc ELSE lock
  /\ bound' = [port \in Port |-> IF bound[port] = p THEN NoProc ELSE bound[port]]
  /\ link' = [q \in Proc |-> IF q = p \/ link[q] = p THEN NoProc ELSE link[q]]
  /\ steady' = [q \in Proc |-> IF q = p THEN {} ELSE steady[q] \ {p}]

\* FungiDaemon::start reads the configuration; bind_rpc_listener takes the port.
Bind(p) ==
  /\ At(p, "bind")
  /\ \/ /\ Exists(live, "config")
        /\ \E port \in Port : /\ bound[port] = NoProc
                              /\ bound' = [bound EXCEPT ![port] = p]
                              /\ Become(p, [task[p] EXCEPT !.pc = "publish", !.port = port])
        /\ UNCHANGED <<lock, Calls, faults>>
     \/ /\ \/ Fail
           \/ (~Exists(live, "config") \/ \E port \in Port : bound[port] # NoProc) /\ UNCHANGED faults
        /\ Released(p)
        /\ Exit(p)
  /\ UNCHANGED <<Migration, endpoint, original>>

\* PublishedDaemonEndpoint::publish: written aside and renamed.
Publish(p) ==
  /\ At(p, "publish")
  /\ \/ /\ endpoint' = task[p].port
        /\ Become(p, [task[p] EXCEPT !.pc = "serve"])
        /\ UNCHANGED <<lock, bound, Calls, faults>>
     \/ Fail /\ Exit(p) /\ Released(p) /\ UNCHANGED endpoint
  /\ UNCHANGED <<Migration, original>>

\* Mutant: the lock goes first, the published endpoint last.
StopServingUnlocks(p) ==
  /\ At(p, "serve")
  /\ bound' = [bound EXCEPT ![task[p].port] = NoProc]
  /\ lock' = NoProc
  /\ steady' = [q \in Proc |-> steady[q] \ {p}]
  /\ Become(p, [task[p] EXCEPT !.pc = "unpublish"])
  /\ UNCHANGED <<Migration, endpoint, link, faults, original>>

\* run: a signal, a closed stdin or an error ends the service, and its listener;
\* the connections it has accepted last until the process ends.
StopServing(p) ==
  /\ At(p, "serve")
  /\ bound' = [bound EXCEPT ![task[p].port] = NoProc]
  /\ steady' = [q \in Proc |-> steady[q] \ {p}]
  /\ Become(p, [task[p] EXCEPT !.pc = "unpublish"])
  /\ UNCHANGED <<Migration, lock, endpoint, link, faults, original>>

\* PublishedDaemonEndpoint::drop: only the own endpoint is removed.
Unpublish(p) ==
  /\ At(p, "unpublish")
  /\ endpoint' = IF endpoint = task[p].port THEN NoPort ELSE endpoint
  /\ Become(p, [task[p] EXCEPT !.pc = "unlock"])
  /\ UNCHANGED <<Migration, lock, bound, Calls, faults, original>>

Unlock(p) ==
  /\ At(p, "unlock")
  /\ Released(p)
  /\ Exit(p)
  /\ UNCHANGED <<Migration, endpoint, faults, original>>

-----------------------------------------------------------------------------
(* A command that needs the daemon: get_rpc_client_with_timeout, and the     *)
(* requests over the channel it returns.  A connection or a request that     *)
(* takes too long ends the command as Kill does.                             *)

Serving == {q \in Proc : At(q, "serve")}

ReadConfig(p) ==
  /\ At(p, "config")
  /\ IF Exists(live, "config") THEN Become(p, [task[p] EXCEPT !.pc = "discover"]) ELSE Exit(p)
  /\ UNCHANGED <<Migration, Daemonic, Calls, faults, original>>

Discover(p) ==
  /\ At(p, "discover")
  /\ steady' = [steady EXCEPT ![p] = Serving]
  /\ Become(p, IF endpoint = NoPort THEN [task[p] EXCEPT !.pc = "refused"]
               ELSE [task[p] EXCEPT !.pc = "connect", !.port = endpoint])
  /\ UNCHANGED <<Migration, Daemonic, link, faults, original>>

\* Endpoint::connect: whoever listens there accepts.
Connect(p) ==
  /\ At(p, "connect")
  /\ LET q == bound[task[p].port]
     IN /\ Become(p, [task[p] EXCEPT !.pc = IF q = NoProc THEN "refused" ELSE "check"])
        /\ link' = [link EXCEPT ![p] = q]
  /\ UNCHANGED <<Migration, Daemonic, steady, faults, original>>

\* Who answers a request: the other end of the connection, or, as the channel
\* reconnects by itself, whoever listens on the port by now.  A daemon answers
\* from when it serves until it is gone.
Answering(p) ==
  LET q == IF link[p] = NoProc THEN bound[task[p].port] ELSE link[p]
  IN {r \in {q} \ {NoProc} : r # Foreign => task[r].pc \in {"serve", "unpublish", "unlock"}}

\* A request over a connection that is broken or about to be may fail.
Breaking(p) == link[p] # Foreign /\ (link[p] # NoProc => task[link[p]].pc \in {"unpublish", "unlock"})

RequestFails(p) ==
  /\ Breaking(p)
  /\ Become(p, [task[p] EXCEPT !.pc = "refused"])
  /\ UNCHANGED <<link, steady>>

\* Who answers must name the configuration of this home (config_paths_match).
Check(p) ==
  /\ At(p, "check")
  /\ \/ RequestFails(p)
     \/ \E q \in Answering(p) :
          /\ link' = [link EXCEPT ![p] = q]
          /\ steady' = [steady EXCEPT ![p] = @ \cup ({q} \cap Serving)]
          /\ Become(p, [task[p] EXCEPT !.pc = IF q = Foreign THEN "refused" ELSE "connected"])
  /\ UNCHANGED <<Migration, Daemonic, faults, original>>

\* The requests of the command itself: nobody checks again who answers.
Request(p) ==
  /\ At(p, "connected")
  /\ \/ RequestFails(p)
     \/ \E q \in Answering(p) : link' = [link EXCEPT ![p] = q] /\ UNCHANGED <<task, steady>>
  /\ UNCHANGED <<Migration, Daemonic, faults, original>>

Finish(p) ==
  /\ task[p].pc \in {"connected", "refused"}
  /\ Exit(p)
  /\ link' = [link EXCEPT ![p] = NoProc] /\ steady' = [steady EXCEPT ![p] = {}]
  /\ UNCHANGED <<Migration, Daemonic, faults, original>>

-----------------------------------------------------------------------------
\* A process is killed: the system takes back its lock and its ports.
Kill(p) ==
  /\ task[p].pc # "idle"
  /\ Fail
  /\ Released(p)
  /\ Exit(p)
  /\ UNCHANGED <<Migration, endpoint, original>>

\* The daemon of another home takes a port or gives it up, and its connections
\* with it; only a port that the endpoint file or a command names makes a
\* difference.
ForeignDaemon(port) ==
  /\ \/ bound[port] = Foreign
     \/ bound[port] = NoProc /\ (endpoint = port \/ \E p \in Proc : task[p].port = port)
  /\ bound' = [bound EXCEPT ![port] = IF @ = NoProc THEN Foreign ELSE NoProc]
  /\ link' = [p \in Proc |-> IF link[p] = Foreign /\ task[p].port = port THEN NoProc ELSE link[p]]
  /\ UNCHANGED <<Migration, task, lock, endpoint, steady, faults, original>>

Init ==
  /\ live \in Homes
  /\ original = live
  /\ saved = FALSE
  /\ task = [p \in Proc |-> Idle]
  /\ lock = NoProc /\ endpoint = NoPort
  /\ bound = [port \in Port |-> NoProc]
  /\ link = [p \in Proc |-> NoProc] /\ steady = [p \in Proc |-> {}]
  /\ faults = 0

Migrate(p) ==
  \/ Detect(p) \/ CopyBackup(p) \/ CopySelected(p) \/ TransformStaged(p) \/ StagingFails(p)
  \/ MoveAside(p) \/ MoveIntoPlace(p) \/ ApplyFails(p) \/ Undo(p) \/ Cleanup(p)

Daemon(p) ==
  \/ Create(p) \/ Lock(p) \/ Bind(p) \/ Publish(p) \/ StopServing(p) \/ Unpublish(p)
  \/ Unlock(p)

Command(p) ==
  \/ ReadConfig(p) \/ Discover(p) \/ Connect(p) \/ Check(p) \/ Request(p) \/ Finish(p)

Next ==
  \/ \E p \in Proc : \/ \E kind \in {"command", "daemon"} : Begin(p, kind)
                      \/ Migrate(p) \/ Daemon(p) \/ Command(p) \/ Kill(p)
  \/ \E port \in Port : ForeignDaemon(port)

Spec == Init /\ [][Next]_vars

-----------------------------------------------------------------------------
\* The variables keep their shapes; a migration stages only paths it will apply.
TypeOK ==
  /\ \A p \in Proc : /\ task[p].pc \in Pcs /\ task[p].plan \subseteq Path
                      /\ task[p].port \in Port \cup {NoPort}
                      /\ task[p].applied \subseteq task[p].plan
                      /\ \A q \in Path : Exists(task[p].staged, q) => q \in task[p].plan
  /\ DOMAIN live = Path /\ saved \in BOOLEAN
  /\ {f[1] : f \in Content(live, "state")} \subseteq LegacyKinds
  /\ {f[1] : f \in Content(live, "services")} \subseteq CurrentKinds \cup {"data", "component"}
  /\ lock \in Proc \cup {NoProc}
  /\ endpoint \in Port \cup {NoPort}
  /\ \A port \in Port : bound[port] \in Proc \cup {NoProc, Foreign}
  /\ \A p \in Proc : link[p] \in Proc \cup {NoProc, Foreign} /\ steady[p] \subseteq Proc
  /\ faults \in 0..MaxFaults

\* Whatever two migrations at once, failures and kills do, the home as it was
\* first found is still there: untouched, or whole in one directory under bk/
\* (config-migrate takes its backup before it changes anything).
Recoverable == \/ \A q \in Path : Exists(original, q) => live[q] = original[q]
               \/ saved

\* What a user has told the home: it is kept, if under another name.
Kept(h) ==
  LET all == UNION {Content(h, q) : q \in Path}
  IN [devices |-> Subjects(all, "device"), peers |-> Subjects(all, "peer"),
      accesses |-> {<<f[2], f[3]>> : f \in OfKind(all, "access")},
      services |-> {<<f[2], f[3]>> : f \in OfKind(all, "desired")},
      data |-> Subjects(all, "data")]

\* A migration that nothing else disturbs is all or nothing: one that faults
\* leaves the home as it was found, one that ends leaves a home that needs no
\* migration and has lost nothing (apply_staged_paths, rollback_applied_paths).
AllOrNothing ==
  [][\A p \in {q \in Proc : task[q].found # Nothing} :
       /\ task[p].pc = "undo" /\ task'[p].pc = "idle" /\ faults' = faults => live' = task[p].found
       /\ task[p].pc = "aside" /\ Done(task[p]) => Plan(live) = {} /\ Kept(live) = Kept(task[p].found)]_vars

\* While a daemon serves, the endpoint file names its port: no daemon that ends
\* late, or starts beside it, takes its entry away.
Discoverable == \A p \in Proc : At(p, "serve") => endpoint = task[p].port

\* While a daemon serves that was there when the command looked for it, or that
\* the command has checked, the command is not turned away and every request of
\* it goes to this daemon, whatever other processes start or end meanwhile.  When
\* it has ended, nothing is said: the channel may reconnect to another home's.
ServedThroughout ==
  \A p \in Proc : steady[p] # {} =>
    /\ ~At(p, "refused")
    /\ At(p, "connected") => link[p] \in steady[p]

=============================================================================
