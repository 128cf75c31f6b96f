-------------------------- MODULE RuntimeInvariants --------------------------
(***************************************************************************)
(* The inductive invariants of the runtime services, and what one step of  *)
(* a call shows for them: IInv for any number of callers, and for one      *)
(* caller at a time DInv (records and directories fit), PInv (what runs is *)
(* to run) and LInv (what is exposed is to be exposed), each on top of the *)
(* one before.                                                             *)
(***************************************************************************)
EXTENDS RuntimeServices

\* The steps of the boot task alone, which is about no service then.
Loose == {"next", "list_running", "list_desired"}

\* The steps that install the manifest of the call.
Installs == {"resolve", "build", "publish", "persist", "restore", "try_restore"}

\* What t may still have to do, by what it knows.
Allowed(t) ==
  {s \in StepName : /\ s \notin Loose => t.name \in Name
                    /\ s \in Installs => t.man \in Manifest
                    /\ s \in {"resolve", "persist"} => t.id \in Id}

\* A task is one of the tasks, and all it has to do it may have to do.
TaskInv(t) ==
  /\ t \in Task
  /\ t.todo \in Seq(Allowed(t))
  /\ t.op \notin {"idle", "boot"} => t.name \in Name

\* The types of what the daemon keeps, on disk and in memory.
Data ==
  /\ store \in [Name -> Service \cup {NoService}]
  /\ dirs \in [Id -> Dir \cup {NoDir}]
  /\ manifests \in [Name -> Manifest \cup {NoManifest}]
  /\ prov \in [Name -> Entry \cup {NoEntry}]
  /\ containers \in [Id -> {"none", "created", "running"}]
  /\ listening \subseteq Name \X Endpoint
  /\ stopped \subseteq Name

\* The types of all but the tasks.
Variables == Data /\ errored \subseteq Name \cup Id

\* The callers beside the start of the daemon do not run while it restores, and the records
\* of the services it still has to restore stay.
BootInv ==
  /\ task[Boot].op \in {"idle", "boot"}
  /\ task[Boot].todo \in Seq(StepName \ {"forget"})
  /\ task[Boot].op = "boot" => \A p \in Proc : task[p] = Idle
  /\ task[Boot].rest # {} => task[Boot].op = "boot"
  /\ \A n \in task[Boot].rest : store[n] # NoService
  /\ \A p \in Proc : task[p].op # "boot" /\ (task[p].op = "idle" => task[p] = Idle)

\* All types, and what holds of the start of the daemon.
TInv ==
  /\ Variables
  /\ task \in [Caller -> Task] /\ \A p \in Caller : TaskInv(task[p])
  /\ BootInv

\* A directory belongs to the service that is on record under its name.
Recorded ==
  \A i \in Id : dirs[i] # NoDir =>
    store[dirs[i].name] # NoService /\ store[dirs[i].name].id = i

\* The invariant for any number of callers.
IInv == TInv /\ Recorded

\* A record is dropped only with its directory.
RecordGoesWithDirectory ==
  \A n \in Name : store[n] # NoService /\ store'[n] = NoService => dirs'[store[n].id] = NoDir

\* A caller goes on with its next step, perhaps with a container that is no longer in doubt,
\* or returns.
Moves(p) ==
  \/ task' = [task EXCEPT ![p] = Advanced(@)] /\ errored' \subseteq errored
  \/ Abort(p)

-----------------------------------------------------------------------------
(* One caller at a time.                                                   *)

\* What the rest of the module is about.
OneCaller == \A p, q \in Proc : p = q

\* A manifest of a definition is replaced by one of the same definition.
Fits(a, b) == DefinitionOf[a] # NoDefinition => DefinitionOf[a] = DefinitionOf[b]

\* Until an apply has saved its record it takes only steps that neither change
\* what is on record nor read another manifest.
Installing == {"resolve", "persist"}
\* The steps a call may take before it installs.
Before == {"take", "reap", "drop", "docker_stop", "docker_remove", "build", "docker_create", "publish"}
            \cup Installing
\* A call installs before it does anything else.
Ordered(s) == \A i \in 1..Len(s) : s[i] \in Installing => \A j \in 1..i : s[j] \in Before
\* One of the steps is still to be done.
Has(s, steps) == \E i \in 1..Len(s) : s[i] \in steps

\* No record has the identifier, and no directory.
Unused(i) == dirs[i] = NoDir /\ \A n \in Name : store[n] # NoService => store[n].id # i

\* What a call relies on: the identifier it has found, or made, is still that
\* of its service, and the manifest it has compared its own with is still there.
CallFits(t) ==
  /\ Ordered(t.todo)
  /\ Has(t.todo, Installing) =>
       /\ t.name \in Name /\ t.id \in Id
       /\ store[t.name] = NoService => Unused(t.id)
       /\ store[t.name] # NoService => store[t.name].id = t.id
  /\ Has(t.todo, {"persist"}) /\ store[t.name] # NoService => Fits(store[t.name].man, t.man)

\* A record has an identifier of its own, and a directory of the definition its
\* manifest is of.
RecordsFit ==
  /\ \A m, n \in Name : store[m] # NoService /\ store[n] # NoService /\ store[m].id = store[n].id => m = n
  /\ \A n \in Name : store[n] # NoService /\ dirs[store[n].id] # NoDir =>
       Fits(dirs[store[n].id].man, store[n].man)

\* The start installs nothing, and while calls are served it only looks.
Looks == {"list_running", "list_desired", "next"}
\* What is left of the start installs nothing.
BootFits(t) ==
  /\ t.todo \in Seq(StepName \ Installing)
  /\ t.op = "idle" => t.todo \in Seq(Looks)

\* The invariant of records and directories.
DInv ==
  /\ TInv /\ RecordsFit
  /\ BootFits(task[Boot])
  /\ \A p \in Proc : CallFits(task[p])

\* Directories change only to ones of a fitting definition.
Kept == \A i \in Id : dirs[i] # NoDir /\ dirs'[i] # NoDir => Fits(dirs[i].man, dirs'[i].man)

\* The record s of n has the identifier n has had and a definition that fits,
\* or an identifier nothing has.
Savable(n, s) ==
  /\ store[n] = NoService => Unused(s.id)
  /\ store[n] # NoService => store[n].id = s.id /\ Fits(store[n].man, s.man)

-----------------------------------------------------------------------------
(* Processes and containers, one caller at a time.                         *)

\* The process of n is kept.
Child(n) == prov[n] # NoEntry /\ prov[n].child
\* The container i runs.
Runs(i) == containers[i] = "running"

\* One of the steps A comes before all of B.
Precedes(s, A, B) == \E i \in 1..Len(s) : s[i] \in A /\ \A j \in 1..i : s[j] \notin B
\* Every step a is followed directly by a step b.
Followed(s, a, b) == \A i \in 1..Len(s) : s[i] = a => i < Len(s) /\ s[i + 1] = b

\* The steps that make a service run.
Starts == {"spawn", "docker_start"}
\* The steps that replace or drop a record.
Removes == {"persist", "forget"}

\* What a call is to do: a process or a container that it starts it puts on record at
\* once as desired, and it removes no record after it started anything.
CallShape(t) ==
  LET d == t.todo IN
  /\ Followed(d, "spawn", "desire") /\ Followed(d, "docker_start", "desire")
  /\ t.op = "apply" => Followed(d, "publish", "persist")
  /\ Has(d, Starts) => t.desired = "running" /\ ~ Has(d, {"forget"})
  /\ Has(d, {"desire"}) => t.desired = IF t.op = "stop" THEN "stopped" ELSE "running"
  /\ Has(d, {"persist", "resolve", "docker_create"}) => t.op = "apply"
  /\ Has(d, {"forget", "unpublish"}) => t.op = "remove"
  /\ Has(d, {"publish"}) => t.op \in {"apply", "boot"}
  /\ t.op = "boot" => \A i \in 2..Len(d) : d[i] # "publish"

\* The service is stopped, in memory and on disk.
IsDown(n) ==
  LET s == store[n] IN
  /\ s # NoService /\ s.desired = "stopped"
  /\ dirs[s.id] # NoDir /\ dirs[s.id].name = n /\ dirs[s.id].desired = "stopped"
  /\ Docker(s.man) \/ Docker(dirs[s.id].man) => ~ Runs(s.id)

\* What a call that has still to save its record knows of the former instance and the new one.
SaveKnows(t) ==
  LET n == t.name
      s == store[n]
      d == t.todo
  IN
  Has(d, {"persist"}) =>
    /\ Has(d, {"spawn"}) => Wasm(t.man)
    /\ Has(d, {"docker_start"}) => Docker(t.man)
    /\ t.desired = IF s # NoService THEN s.desired ELSE "stopped"
    /\ Precedes(d, {"publish"}, {"persist"}) \/ manifests[n] = t.man
    /\ Docker(t.man) => Precedes(d, {"docker_create"}, {"persist"}) \/ ~ Runs(t.id)

\* What a call that replaces or drops a record knows of what runs for it.
ReplaceKnows(t) ==
  LET n == t.name
      s == store[n]
      d == t.todo
  IN
  Has(d, Removes) /\ s # NoService =>
    /\ Wasm(s.man) => Precedes(d, {"drop"}, Removes) \/ ~ Child(n)
    /\ Docker(s.man) => Precedes(d, {"docker_remove"}, Removes) \/ ~ Runs(s.id)

\* What a call that starts a service knows of its record.
StartKnows(t) ==
  LET s == store[t.name]
      d == t.todo
  IN
  /\ Has(d, Starts) /\ ~ Has(d, Installing) =>
       /\ s # NoService
       /\ Has(d, {"spawn"}) => Wasm(s.man)
       /\ Has(d, {"docker_start"}) => Docker(s.man)
  /\ t.op = "boot" /\ Has(d, {"publish"}) => s # NoService /\ t.man = s.man
  /\ Has(d, {"desire"}) /\ t.desired = "running" => t.name \notin stopped

\* What a call that stops a service knows of it.
StopKnows(t) ==
  LET n == t.name
      s == store[n]
      d == t.todo
  IN
  t.op = "stop" =>
    /\ Has(d, {"desire"}) /\ s # NoService =>
         /\ Wasm(s.man) => Precedes(d, {"take", "reap"}, {"desire"}) \/ ~ Child(n)
         /\ Docker(s.man) => Precedes(d, {"docker_stop"}, {"desire"}) \/ ~ Runs(s.id)
    /\ Has(d, {"unlisten"}) => Precedes(d, {"desire"}, {"unlisten"}) \/ IsDown(n)

\* What a call that drops a record knows of the manifest.
RemoveKnows(t) ==
  Has(t.todo, {"forget"}) =>
    Precedes(t.todo, {"unpublish"}, {"forget"}) \/ manifests[t.name] = NoManifest

\* What a call knows of its service.
CallKnows(t) == SaveKnows(t) /\ ReplaceKnows(t) /\ StartKnows(t) /\ StopKnows(t) /\ RemoveKnows(t)

\* A call is about to put it on record that the service is to run.
Awaited(n) == \E p \in Caller : At(p, "desire") /\ task[p].name = n /\ task[p].desired = "running"

\* What is published is on record, or about to be.
Agreed ==
  \A n \in Name : manifests[n] # NoManifest =>
    \/ store[n] # NoService /\ store[n].man = manifests[n]
    \/ \E p \in Caller : At(p, "persist") /\ task[p].name = n

\* A process is that of a Wasmtime service that is to run.
ChildWanted ==
  \A n \in Name : Child(n) =>
    store[n] # NoService /\ Wasm(store[n].man) /\ (store[n].desired = "running" \/ Awaited(n))

\* The record of n and its directory say that a Docker service is to run.
Settled(n) ==
  LET D == dirs[store[n].id] IN
  /\ store[n].desired = "running"
  /\ D # NoDir /\ D.name = n /\ Docker(D.man) /\ D.desired = "running"

\* A container is that of a Docker service that is to run.
ContainerWanted ==
  \A i \in Id : Runs(i) /\ i \notin errored =>
    \E n \in Name : /\ store[n] # NoService /\ store[n].id = i /\ Docker(store[n].man)
                    /\ Settled(n) \/ Awaited(n)

\* A service that was stopped, and not started since, is down.
StoppedDown == \A n \in stopped : IsDown(n)

\* What runs is to run.
Wanted == Agreed /\ ChildWanted /\ ContainerWanted /\ StoppedDown

\* The invariant of what runs.
PInv == DInv /\ Wanted /\ \A p \in Caller : CallShape(task[p]) /\ CallKnows(task[p])

\* A caller that is about no service.
Resting(t) == t.todo \in Seq(Looks) /\ t.op \in {"idle", "boot"}

\* Nothing that the call t relies on for its service gets worse.
Calm(t) ==
  LET n == t.name IN
  /\ Has(t.todo, {"persist"}) => store'[n] = store[n]
  /\ (store'[n] = NoService) <=> (store[n] = NoService)
  /\ store[n] # NoService => store'[n].id = store[n].id /\ store'[n].man = store[n].man
  /\ Has(t.todo, Removes) \/ t.op = "stop" => (Child(n)' => Child(n)) /\ \A i \in Id : Runs(i)' => Runs(i)
  /\ t.op = "stop" /\ IsDown(n) => IsDown(n)'

\* The first step of the call has done what the rest of it relies on.
Discharged(t) ==
  LET n == t.name
      h == Head(t.todo)
  IN
  /\ h \in {"take", "reap", "drop"} => ~ Child(n)
  /\ h = "docker_stop" /\ store[n] # NoService => ~ Runs(store[n].id)
  /\ h = "docker_remove" /\ Has(t.todo, Removes) /\ store[n] # NoService => ~ Runs(store[n].id)
  /\ h = "docker_create" => ~ Runs(t.id)

\* The steps of a call that leave the records alone, install nothing and publish nothing.
CalmSteps == StepName \ (Looks \cup Installing \cup {"desire", "publish"})

\* The directory i of n: the desired state is saved, or the save has failed and left what runs
\* in doubt.
DesireSaved(n, i, m, desired) ==
  LET D == dirs'[i] IN
  \/ D # NoDir /\ D.name = n /\ D.man = m /\ D.desired = desired
  \/ /\ Runs(i) => i \in errored'
     /\ IsDown(n) => D # NoDir /\ D.name = n /\ D.desired = "stopped" /\ D.man \in {m, dirs[i].man}

\* All that is started is put on record at once.
PutOnRecord(s) == Followed(s, "spawn", "desire") /\ Followed(s, "docker_start", "desire")

\* What the start plans for a service.
BootPlan(m, d) ==
  <<"publish">> \o (IF Wasm(m) THEN <<"try_restore">> ELSE <<>>) \o (IF d = "running" THEN StartPlan(m) ELSE <<>>)

\* A manifest written half-way is that of m, and leaves the state that was there.
HalfWritten(D, i, n, m) ==
  /\ D[i] # NoDir /\ D[i].name = n /\ D[i].man = m
  /\ dirs[i] # NoDir => D[i].desired = dirs[i].desired

\* A directory D[i] is what a call that was cut short has left of its own.
CutShort(D, i) ==
  \E p \in Caller, n \in Name :
    /\ task[p].name = n
    /\ \/ /\ At(p, "persist") /\ task[p].id = i /\ (store[n] = NoService \/ store[n].id = i)
          /\ HalfWritten(D, i, n, task[p].man)
       \/ /\ store[n] # NoService /\ store[n].id = i
          /\ \/ HalfWritten(D, i, n, store[n].man)
             \/ /\ dirs[i] # NoDir /\ D[i] # NoDir /\ D[i].name = dirs[i].name /\ D[i].man = dirs[i].man
                /\ D[i].desired = "stopped"

-----------------------------------------------------------------------------
(* Listeners, one caller at a time.                                        *)

\* What n is exposed on.
ListenersOf(n) == {l \in listening : l[1] = n}
\* What the start has still to listen on for n.
Found(n) == {l \in task[Boot].found : l[1] = n}
\* What n is to be exposed on.
Wants(n) ==
  IF store[n] # NoService /\ store[n].desired = "running" THEN EndpointsAs(n, store[n].man) ELSE {}

\* The steps that leave records, manifests and listeners alone.
Plain == StepName \ (Looks \cup {"resolve", "publish", "persist", "desire", "unpublish", "forget",
                                 "unlisten", "listen"})

\* The last two steps of a plan are a and b, or what is left of them, and all others of S.
Ends(d, S, a, b) ==
  \A i \in 1..Len(d) : d[i] \in IF i = Len(d) THEN {b} ELSE IF i = Len(d) - 1 THEN {a} ELSE S

\* What an apply knows of the listeners of its service: it leaves them alone unless the service
\* runs, and then takes down those of the manifest it replaces.
ApplyExposes(t) ==
  LET n == t.name
      d == t.todo
  IN
  \/ d = <<"resolve">> /\ ListenersOf(n) = Wants(n)
  \/ /\ t.desired = "stopped" /\ Ends(d, Plain, "publish", "persist") /\ ListenersOf(n) = {}
  \/ /\ t.desired = "running" /\ Ends(d, Plain \cup {"publish", "persist", "desire"}, "unlisten", "listen")
     /\ ListenersOf(n) \subseteq IF Has(d, {"unlisten"}) THEN EndpointsAs(n, t.prev) ELSE {}
     /\ Has(d, {"persist"}) \/ (store[n] # NoService /\ store[n].desired = "running")

\* What the other calls know: a service is exposed as it is to be until its record changes, and from
\* then on the last step has left to do what is missing.
CallExposes(t) ==
  LET n == t.name
      d == t.todo
  IN
  /\ t.op = "inspect" => d \in Seq(Plain) /\ ListenersOf(n) = Wants(n)
  /\ t.op = "start" =>
       /\ Ends(d, Plain, "desire", "listen")
       /\ IF Has(d, {"desire"}) THEN ListenersOf(n) = Wants(n)
          ELSE store[n] # NoService /\ store[n].desired = "running" /\ ListenersOf(n) \subseteq Wants(n)
  /\ t.op = "stop" =>
       /\ Ends(d, Plain, "desire", "unlisten")
       /\ IF Has(d, {"desire"}) THEN ListenersOf(n) = Wants(n)
          ELSE Wants(n) = {} /\ ListenersOf(n) \subseteq EndpointsAs(n, manifests[n])
  /\ t.op = "remove" =>
       /\ Ends(d, Plain \cup {"unpublish"}, "forget", "unlisten") /\ Followed(d, "unpublish", "forget")
       /\ ListenersOf(n) \subseteq EndpointsAs(n, t.prev)
       /\ Has(d, {"forget"}) \/ store[n] = NoService
  /\ t.op = "apply" => ApplyExposes(t)

\* A call on the service is in progress.
Busy(n) == \E p \in Proc : task[p].op # "idle" /\ task[p].name = n

\* A service on record is published, unless the start has yet to restore it or a call is
\* about to drop the record.
Published ==
  \A n \in Name \ errored : store[n] # NoService =>
    \/ manifests[n] # NoManifest
    \/ n \in task[Boot].rest
    \/ \E p \in Caller : task[p].name = n /\ ((p = Boot /\ At(p, "publish")) \/ At(p, "forget"))

\* The steps of the start that restore a service.
Restores == StepName \ {"listen", "unlisten", "list_running", "list_desired"}
\* The start listens on nothing before it has restored all services, and then on what is to run.
BootWaits ==
  LET t == task[Boot] IN
  /\ t.op = "boot" => t.todo \in Seq(Restores) /\ listening = {} /\ t.found = {}
  /\ t.op = "idle" => t.todo \in {<<"list_running", "list_desired">>, <<"list_desired">>, <<>>}

\* How far the start has come with the listeners of a service no call is about.
BootExposes(n) ==
  LET t == task[Boot] IN
  t.op = "idle" =>
    /\ t.todo = <<"list_running", "list_desired">> => ListenersOf(n) = {} /\ t.found = {}
    /\ t.todo = <<"list_desired">> => ListenersOf(n) \cup Found(n) \subseteq Wants(n)
    /\ t.todo = <<>> => ListenersOf(n) \cup Found(n) = Wants(n)

\* A call that meets the start of the daemon is on record as such.
MetStart == ~ Started => \A p \in Proc : task[p].op # "idle" => task[p].name \in errored

\* The invariant of the listeners.
LInv ==
  /\ PInv /\ Published /\ BootWaits /\ MetStart
  /\ \A p \in Proc : task[p].op # "idle" =>
       /\ task[p].name \in Name /\ task[p].todo # <<>>
       /\ task[p].name \notin errored => CallExposes(task[p])
  /\ \A n \in Name \ errored : Busy(n) \/ BootExposes(n)

\* What a caller has to show for the listeners when its task becomes u: while it goes on it knows
\* what it has still to do, and when it returns the service is exposed as it is to be.
Shown(p, n, u) ==
  /\ task' = [task EXCEPT ![p] = u]
  /\ errored \cap Name \subseteq errored'
  /\ \A m \in Name \ {n} : store'[m] = store[m] /\ manifests'[m] = manifests[m] /\ ListenersOf(m)' = ListenersOf(m)
  /\ u.op # "idle" => u.name = n /\ u.todo # <<>> /\ (n \notin errored' => CallExposes(u)')
  /\ u.op = "idle" /\ n \notin errored' => ListenersOf(n)' = Wants(n)'
  /\ n \notin errored' /\ store'[n] # NoService =>
       manifests'[n] # NoManifest \/ (u.todo # <<>> /\ Head(u.todo) = "forget" /\ u.name = n)

\* A caller does a step that leaves records, manifests and listeners alone, or returns an error.
LeavesAlone(p) ==
  /\ task[p].todo # <<>> /\ Head(task[p].todo) \in Plain
  /\ UNCHANGED <<store, manifests, listening>>
  /\ errored \cap Name \subseteq errored'
  /\ \/ task' = [task EXCEPT ![p] = Advanced(@)]
     \/ Abort(p)
     \/ \E h \in Plain : \E m : task' = [task EXCEPT ![p] = [task[p] EXCEPT !.man = m, !.todo = <<h>> \o Tail(@)]]

==============================================================================
