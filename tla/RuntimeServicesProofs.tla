------------------------ MODULE RuntimeServicesProofs ------------------------
(***************************************************************************)
(* For any number of callers, services and manifests: what is on disk can  *)
(* always be loaded again, whatever overlaps, fails and crashes, unless a  *)
(* record is dropped whose directory could not be removed.  For one caller *)
(* at a time and any number of services and manifests, whatever fails and  *)
(* whenever the daemon crashes: no service is replaced on disk by one of   *)
(* another definition, nothing runs that is not to run, a service that was *)
(* stopped stays stopped, and a service is exposed as it is to be.         *)
(***************************************************************************)
EXTENDS RuntimeInvariants, TLAPS

\* A caller without a call has nothing left to do and is about no service.
LEMMA IdleFacts ==
  /\ TaskInv(Idle) /\ Idle.op = "idle" /\ Idle.todo = <<>> /\ Idle.rest = {} /\ Idle.found = {}
  /\ Idle.name = NoName
BY DEF Idle, Task, DesiredState, TaskInv

\* A task whose step is done, or that returns, is a task still; a call that
\* returns is idle.
LEMMA AdvancedFacts ==
  ASSUME NEW t, TaskInv(t), t.todo # <<>>, NEW u \in {Advanced(t), Ended(t)}
  PROVE  /\ TaskInv(u) /\ u.op \in {t.op, "idle"} /\ u.rest \subseteq t.rest
         /\ t.op # "boot" /\ u.op = "idle" => u = Idle \/ t.op = "idle"
         /\ \A S : t.todo \in Seq(S) /\ "next" \in S => u.todo \in Seq(S)
         /\ t.op = "boot" => u.op = "boot"
         /\ t.op # "boot" => u.rest = {} \/ u.rest = t.rest
<1>1. ASSUME u = [t EXCEPT !.todo = Tail(@)]
      PROVE  /\ TaskInv(u) /\ u.op = t.op /\ u.rest = t.rest
             /\ \A S : t.todo \in Seq(S) => u.todo \in Seq(S)
  <2>1. t \in Task BY DEF TaskInv
  <2>2. u.op = t.op /\ u.rest = t.rest /\ u.todo = Tail(t.todo) BY <1>1, <2>1 DEF Task
  <2>3. u.name = t.name /\ u.man = t.man /\ u.id = t.id BY <1>1, <2>1 DEF Task
  <2>4. \A S : t.todo \in Seq(S) => u.todo \in Seq(S) BY <2>2
  <2>5. Allowed(u) = Allowed(t) BY <2>3 DEF Allowed
  <2>6. u.todo \in Seq(StepName) BY <2>1, <2>4 DEF Task
  <2>7. u \in Task BY <1>1, <2>1, <2>2, <2>6 DEF Task
  <2>8. u.todo \in Seq(Allowed(u)) /\ (u.op \notin {"idle", "boot"} => u.name \in Name)
    BY <2>2, <2>3, <2>4, <2>5 DEF TaskInv
  <2> QED BY <2>2, <2>4, <2>7, <2>8 DEF TaskInv
<1>2. ASSUME u = Ended(t)
      PROVE  /\ TaskInv(u) /\ u.op \in {t.op, "idle"} /\ u.rest \subseteq t.rest
             /\ t.op # "boot" => u = Idle
             /\ \A S : "next" \in S => u.todo \in Seq(S)
             /\ t.op = "boot" => u.op = "boot"
  <2>1. CASE t.op = "boot"
    <3>1. u = [Idle EXCEPT !.op = "boot", !.todo = <<"next">>, !.rest = t.rest] BY <1>2, <2>1 DEF Ended
    <3>2. t.rest \in SUBSET Name BY DEF TaskInv, Task
    <3>3. u.op = "boot" /\ u.todo = <<"next">> /\ u.rest = t.rest BY <3>1 DEF Idle
    <3>4. u \in Task
      <4>1. PICK r \in SUBSET Name : r = t.rest BY <3>2
      <4>2. <<"next">> \in Seq(StepName) BY DEF StepName
      <4>3. PICK w \in Seq(StepName) : w = <<"next">> BY <4>2
      <4>4. u = [op |-> "boot", todo |-> w, name |-> NoName, man |-> NoManifest,
                 prev |-> NoManifest, id |-> NoId, desired |-> "stopped", rest |-> r, found |-> {}]
        BY <3>1, <4>1, <4>3 DEF Idle
      <4> QED BY <4>4 DEF Task, DesiredState
    <3>5. "next" \in Allowed(u) BY DEF Allowed, StepName, Loose, Installs
    <3>6. \A S : "next" \in S => u.todo \in Seq(S) BY <3>3
    <3> QED BY <2>1, <3>3, <3>4, <3>5, <3>6 DEF TaskInv
  <2>2. CASE t.op # "boot"
    <3>1. u = Idle BY <1>2, <2>2 DEF Ended
    <3>2. \A S : u.todo \in Seq(S) BY <3>1, IdleFacts
    <3> QED BY <2>2, <3>1, <3>2, IdleFacts
  <2> QED BY <2>1, <2>2
<1>3. u = [t EXCEPT !.todo = Tail(@)] \/ u = Ended(t) BY DEF Advanced
<1>4. CASE u = [t EXCEPT !.todo = Tail(@)] BY <1>1, <1>4
<1>5. CASE u = Ended(t) BY <1>2, <1>5, IdleFacts
<1> QED BY <1>3, <1>4, <1>5

\* A caller that takes a step leaves the tasks of the others alone, and the
\* records that the start of the daemon still has to restore if it is not the
\* start that takes it.
LEMMA StepTask ==
  ASSUME TInv, NEW p \in Caller, p = Boot \/ task[p].todo # <<>>, NEW u,
         task' = [task EXCEPT ![p] = u], TaskInv(u),
         u.op \in {task[p].op, "idle"}, u.rest \subseteq task[p].rest,
         p # Boot => (u.op = "idle" => u = Idle),
         p = Boot => u.todo \in Seq(StepName \ {"forget"}) /\ (u.rest # {} => u.op = "boot"),
         p = Boot => \A n \in Name : store[n] # NoService => store'[n] # NoService
  PROVE  task' \in [Caller -> Task] /\ (\A q \in Caller : TaskInv(task'[q])) /\ BootInv'
<1>1. /\ task \in [Caller -> Task] /\ Boot \in Caller /\ (\A q \in Proc : q \in Caller /\ q # Boot)
      /\ \A q \in Caller : TaskInv(task[q]) /\ task[q] \in Task
  BY RuntimeAssumption DEF TInv, Caller
<1>2. u \in Task BY DEF TaskInv
<1>3. task' \in [Caller -> Task] /\ task'[p] = u /\ \A q \in Caller \ {p} : task'[q] = task[q] BY <1>1, <1>2
<1>4. \A q \in Caller : TaskInv(task'[q]) BY <1>1, <1>3
<1>5. CASE p = Boot BY <1>2, <1>5, <1>1, <1>3, <1>4 DEF Task, TInv, BootInv
<1>6. CASE p # Boot
  <2>1. p \in Proc BY <1>6 DEF Caller
  <2>2. task[p] # Idle BY <1>6, IdleFacts
  <2>3. task[Boot].op # "boot" /\ task[Boot].rest = {} BY <2>1, <2>2 DEF TInv, BootInv
  <2>4. task'[Boot] = task[Boot] BY <1>1, <1>3, <1>6
  <2>5. task[p].op # "boot" BY <2>1 DEF TInv, BootInv
  <2>6. \A q \in Proc : task'[q].op # "boot" /\ (task'[q].op = "idle" => task'[q] = Idle)
    BY <1>1, <1>3, <1>6, <2>5 DEF TInv, BootInv
  <2>7. BootInv' BY <2>3, <2>4, <2>6 DEF TInv, BootInv
  <2> QED BY <1>3, <1>4, <2>7
<1> QED BY <1>5, <1>6

\* A caller that goes on with its next step, or returns, keeps the types of the
\* tasks and what the start relies on.
LEMMA MoveOn ==
  ASSUME TInv, NEW p \in Caller, task[p].todo # <<>>, Moves(p),
         p = Boot => \A n \in Name : store[n] # NoService => store'[n] # NoService
  PROVE  /\ task' \in [Caller -> Task] /\ (\A q \in Caller : TaskInv(task'[q])) /\ BootInv'
         /\ errored' \subseteq Name \cup Id
<1>1. TaskInv(task[p]) /\ task[p] \in Task /\ errored \subseteq Name \cup Id BY DEF TInv, Variables
<1>2. PICK u \in {Advanced(task[p]), Ended(task[p])} : task' = [task EXCEPT ![p] = u] BY DEF Moves, Abort
<1>3. /\ TaskInv(u) /\ u.op \in {task[p].op, "idle"} /\ u.rest \subseteq task[p].rest
      /\ task[p].op # "boot" /\ u.op = "idle" => u = Idle \/ task[p].op = "idle"
      /\ \A S : task[p].todo \in Seq(S) /\ "next" \in S => u.todo \in Seq(S)
      /\ task[p].op = "boot" => u.op = "boot"
      /\ task[p].op # "boot" => u.rest = {} \/ u.rest = task[p].rest
  BY <1>1, AdvancedFacts
<1>4. p # Boot => (u.op = "idle" => u = Idle)
  <2> SUFFICES ASSUME p # Boot, u.op = "idle" PROVE u = Idle OBVIOUS
  <2>1. p \in Proc BY DEF Caller
  <2>2. task[p].op # "boot" /\ task[p].op # "idle" BY <2>1, IdleFacts DEF TInv, BootInv
  <2> QED BY <1>3, <2>2
<1>5. p = Boot => u.todo \in Seq(StepName \ {"forget"}) /\ (u.rest # {} => u.op = "boot")
  <2> SUFFICES ASSUME p = Boot
               PROVE  u.todo \in Seq(StepName \ {"forget"}) /\ (u.rest # {} => u.op = "boot")
    OBVIOUS
  <2>1. /\ task[p].todo \in Seq(StepName \ {"forget"}) /\ (task[p].rest # {} => task[p].op = "boot")
    BY DEF TInv, BootInv
  <2>2. "next" \in StepName \ {"forget"} BY DEF StepName
  <2> QED BY <1>3, <2>1, <2>2
<1>6. /\ task' \in [Caller -> Task] /\ (\A q \in Caller : TaskInv(task'[q])) /\ BootInv'
  BY <1>2, <1>3, <1>4, <1>5, StepTask
<1>7. errored' \subseteq Name \cup Id
  <2>1. ContainersOf(task[p]) \subseteq Id BY DEF ContainersOf
  <2>2. HalfWay(task[p]) => task[p].name \in Name BY <1>1 DEF TaskInv, HalfWay, Allowed, Loose
  <2>3. {n \in {task[p].name} : HalfWay(task[p])} \subseteq Name BY <2>2
  <2> QED BY <1>1, <2>1, <2>3 DEF Moves, Abort
<1> QED BY <1>6, <1>7

\* A call has what its step needs: the name of its service, the manifest it
\* installs, the identifier it writes.
LEMMA AtFacts ==
  ASSUME TInv, NEW p \in Caller, NEW s, At(p, s)
  PROVE  /\ task[p] \in Task /\ task[p].todo # <<>> /\ s \in StepName /\ s = Head(task[p].todo)
         /\ s \notin Loose => task[p].name \in Name
         /\ s \in Installs => task[p].man \in Manifest
         /\ s \in {"resolve", "persist"} => task[p].id \in Id
         /\ p = Boot => s # "forget"
<1>1. TaskInv(task[p]) /\ task[p].todo # <<>> /\ s = Head(task[p].todo) BY DEF TInv, At
<1>2. s \in Allowed(task[p]) /\ task[p] \in Task BY <1>1 DEF TaskInv
<1>3. ASSUME p = Boot PROVE s # "forget" BY <1>3, <1>1 DEF TInv, BootInv
<1> QED BY <1>1, <1>2, <1>3 DEF Allowed

\* The steps of a start.
LEMMA StartPlanType ==
  ASSUME NEW S, {"ensure", "spawn", "desire", "docker_start"} \subseteq S, NEW m
  PROVE  StartPlan(m) \in Seq(S)
  BY DEF StartPlan

\* Two plans one after the other are a plan.
LEMMA ConcatType ==
  ASSUME NEW S, NEW a \in Seq(S), NEW b \in Seq(S)
  PROVE  a \o b \in Seq(S)
  OBVIOUS

\* The steps that take down the former instance of a service.
LEMMA ReplacePlanType ==
  ASSUME NEW S, {"take", "drop", "docker_stop", "docker_remove"} \subseteq S, NEW m, NEW d
  PROVE  ReplacePlan(m, d) \in Seq(S)
<1>1. PICK a : a = IF d = "running" THEN <<"take">> ELSE <<>> OBVIOUS
<1>2. PICK b : b = IF d = "running" THEN <<"docker_stop">> ELSE <<>> OBVIOUS
<1>3. a \in Seq(S) /\ b \in Seq(S) /\ <<"take", "drop">> \in Seq(S) /\ <<"docker_remove">> \in Seq(S) BY <1>1, <1>2
<1>4. a \o <<"take", "drop">> \in Seq(S) /\ b \o <<"docker_remove">> \in Seq(S) /\ <<>> \in Seq(S) BY <1>3, ConcatType
<1>5. ReplacePlan(m, d) = CASE Wasm(m) -> a \o <<"take", "drop">>
                            [] Docker(m) -> b \o <<"docker_remove">>
                            [] OTHER -> <<>>
  BY <1>1, <1>2 DEF ReplacePlan
<1> QED BY <1>4, <1>5

\* The steps of an apply, whatever was installed before.
LEMMA ApplyPlanType ==
  ASSUME NEW S, NEW prev, NEW m, NEW d,
         {"take", "drop", "docker_stop", "docker_remove", "build", "docker_create", "publish", "persist",
          "ensure", "spawn", "desire", "docker_start", "try_ensure", "docker_inspect", "unlisten",
          "listen"} \subseteq S
  PROVE  ApplyPlan(prev, m, d) \in Seq(S)
<1>1. PICK a : a = IF prev # NoManifest THEN ReplacePlan(prev, d) ELSE <<>> OBVIOUS
<1>2. PICK b : b = IF prev # NoManifest THEN <<"take", "drop">> ELSE <<>> OBVIOUS
<1>3. PICK e : e = CASE Wasm(m) -> b \o <<"build">> [] Docker(m) -> <<"docker_create">> [] OTHER -> <<>> OBVIOUS
<1>4. PICK f : f = CASE Wasm(m) -> <<"try_ensure">> [] Docker(m) -> <<"docker_inspect">> [] OTHER -> <<>> OBVIOUS
<1>5. PICK g : g = IF d = "running" THEN StartPlan(m) \o f \o <<"unlisten", "listen">> ELSE <<>> OBVIOUS
<1>6. ApplyPlan(prev, m, d) = a \o e \o <<"publish", "persist">> \o g BY <1>1, <1>2, <1>3, <1>4, <1>5 DEF ApplyPlan
<1>7. a \in Seq(S) BY <1>1, ReplacePlanType
<1>8. b \in Seq(S) /\ <<"build">> \in Seq(S) BY <1>2
<1>9. b \o <<"build">> \in Seq(S) BY <1>8, ConcatType
<1>10. e \in Seq(S) BY <1>3, <1>9
<1>11. f \in Seq(S) /\ StartPlan(m) \in Seq(S) /\ <<"unlisten", "listen">> \in Seq(S) BY <1>4, StartPlanType
<1>12. StartPlan(m) \o f \in Seq(S) BY <1>11, ConcatType
<1>13. StartPlan(m) \o f \o <<"unlisten", "listen">> \in Seq(S) BY <1>11, <1>12, ConcatType
<1>14. g \in Seq(S) /\ <<"publish", "persist">> \in Seq(S) BY <1>5, <1>13
<1>15. a \o e \in Seq(S) BY <1>7, <1>10, ConcatType
<1>16. a \o e \o <<"publish", "persist">> \in Seq(S) BY <1>14, <1>15, ConcatType
<1> QED BY <1>6, <1>14, <1>16, ConcatType

-----------------------------------------------------------------------------
\* The steps of a call.

\* A call that changes its plan and stays with its service keeps the types of
\* the tasks.
LEMMA ReplanStep ==
  ASSUME TInv, NEW p \in Caller, task[p].todo # <<>>, NEW u,
         task' = [task EXCEPT ![p] = u], TaskInv(u), u.op = task[p].op, u.rest = task[p].rest,
         p = Boot => u.todo \in Seq(StepName \ {"forget"}),
         UNCHANGED store
  PROVE  task' \in [Caller -> Task] /\ (\A q \in Caller : TaskInv(task'[q])) /\ BootInv'
BY IdleFacts, StepTask DEF TInv, BootInv, Caller

\* An apply finds out under the lock of the store what it replaces, and plans
\* its steps.
LEMMA ResolveInv ==
  ASSUME TInv, NEW p \in Caller, Resolve(p)
  PROVE  TInv'
<1>1. PICK t \in Task : t = task[p] BY AtFacts DEF Resolve
<1>2. /\ TaskInv(t) /\ t.todo # <<>> /\ t.name \in Name /\ t.man \in Manifest /\ t.id \in Id
      /\ p = Boot => "resolve" # "forget"
  BY <1>1, AtFacts DEF Resolve, TInv, Installs, Loose
<1>3. UNCHANGED <<store, dirs, manifests, prov, containers, listening, stopped>> BY DEF Resolve
<1>4. CASE Abort(p) BY <1>1, <1>2, <1>3, <1>4, MoveOn DEF Moves, Continue, TInv, Variables, Data
<1>5. CASE ~ Abort(p)
  <2>1. PICK prev \in Manifest \cup {NoManifest} :
          prev = IF store[t.name] # NoService THEN store[t.name].man ELSE manifests[t.name]
    BY <1>2 DEF TInv, Variables, Data, Service
  <2>2. PICK d \in DesiredState :
          d = IF store[t.name] # NoService THEN store[t.name].desired ELSE "stopped"
    BY <1>2 DEF TInv, Variables, Data, Service, DesiredState
  <2>3. PICK plan : plan = ApplyPlan(prev, t.man, d) OBVIOUS
  <2>4. PICK u : u = [t EXCEPT !.prev = prev, !.desired = d, !.todo = plan] OBVIOUS
  <2>5. task' = [task EXCEPT ![p] = u] /\ errored' = errored BY <1>1, <1>5, <2>1, <2>2, <2>3, <2>4 DEF Resolve
  <2>6. plan \in Seq(StepName) /\ plan \in Seq(StepName \ {"forget"}) BY <2>3, ApplyPlanType DEF StepName
  <2>7. u \in Task BY <2>4, <2>6 DEF Task
  <2>8. u.todo = plan /\ u.name = t.name /\ u.man = t.man BY <2>4 DEF Task
  <2>9. u.id = t.id /\ u.op = t.op /\ u.rest = t.rest BY <2>4 DEF Task
  <2>10. Allowed(u) = StepName BY <1>2, <2>8, <2>9 DEF Allowed
  <2>11. TaskInv(u) BY <1>2, <2>6, <2>7, <2>8, <2>10 DEF TaskInv
  <2>12. task' \in [Caller -> Task] /\ (\A q \in Caller : TaskInv(task'[q])) /\ BootInv'
    BY <1>1, <1>2, <1>3, <2>5, <2>6, <2>8, <2>9, <2>11, ReplanStep
  <2> QED BY <1>3, <2>5, <2>12 DEF TInv, Variables, Data
<1> QED BY <1>4, <1>5

\* The next step of a call is replaced by another one that needs no more than
\* the call knows.
LEMMA InsteadFacts ==
  ASSUME TInv, NEW p \in Caller, task[p].todo # <<>>, task[p].name \in Name,
         NEW m \in Manifest \cup {NoManifest}, NEW step \in StepName \ {"forget", "resolve", "persist"},
         m \in Manifest \/ (m = task[p].man /\ step \notin Installs),
         NEW u, u = [task[p] EXCEPT !.man = m, !.todo = <<step>> \o Tail(@)],
         task' = [task EXCEPT ![p] = u], UNCHANGED store
  PROVE  task' \in [Caller -> Task] /\ (\A q \in Caller : TaskInv(task'[q])) /\ BootInv'
<1>1. PICK t \in Task : t = task[p] BY DEF TInv
<1>2. TaskInv(t) BY <1>1 DEF TInv
<1>3. PICK rest : rest = <<step>> \o Tail(t.todo) OBVIOUS
<1>4. ASSUME NEW S, t.todo \in Seq(S), step \in S
      PROVE  rest \in Seq(S)
  BY <1>1, <1>4, <1>3, ConcatType
<1>5. rest \in Seq(StepName) BY <1>4 DEF Task
<1>6. u = [t EXCEPT !.man = m, !.todo = rest] BY <1>1, <1>3
<1>7. u \in Task /\ u.todo = rest /\ u.man = m BY <1>5, <1>6 DEF Task
<1>8. u.name = t.name /\ u.id = t.id /\ u.op = t.op /\ u.rest = t.rest BY <1>6 DEF Task
<1>9. Allowed(t) \subseteq Allowed(u) /\ step \in Allowed(u) BY <1>1, <1>7, <1>8 DEF Allowed
<1>10. t.todo \in Seq(Allowed(u)) BY <1>2, <1>9 DEF TaskInv
<1>11. rest \in Seq(Allowed(u)) BY <1>4, <1>9, <1>10
<1>12. TaskInv(u) BY <1>1, <1>7, <1>8, <1>11 DEF TaskInv
<1>13. p = Boot => u.todo \in Seq(StepName \ {"forget"}) BY <1>1, <1>4, <1>7 DEF TInv, BootInv
<1> QED BY <1>1, <1>8, <1>12, <1>13, ReplanStep

\* A service that is not published is published from its record first, if it
\* has one.
LEMMA EnsureInv ==
  ASSUME TInv, NEW p \in Caller, Ensure(p)
  PROVE  TInv'
<1>1. PICK t \in Task : t = task[p] BY AtFacts DEF Ensure
<1>2. t.todo # <<>> /\ t.name \in Name BY <1>1, AtFacts DEF Ensure, Loose
<1>3. UNCHANGED <<store, dirs, manifests, prov, containers, listening, stopped>> BY DEF Ensure
<1>4. CASE Continue(p) \/ Abort(p) BY <1>1, <1>2, <1>3, <1>4, MoveOn DEF Moves, Continue, TInv, Variables, Data
<1>5. CASE ~ (Continue(p) \/ Abort(p))
  <2>1. PICK m \in Manifest : m = manifests[t.name] BY <1>1, <1>2, <1>5 DEF Ensure, TInv, Variables, Data
  <2>2. PICK step \in {"restore", "try_restore"} : step = IF At(p, "ensure") THEN "restore" ELSE "try_restore" OBVIOUS
  <2>3. PICK u : u = [t EXCEPT !.man = m, !.todo = <<step>> \o Tail(@)] OBVIOUS
  <2>4. task' = [task EXCEPT ![p] = u] /\ errored' = errored BY <1>1, <1>5, <2>1, <2>2, <2>3 DEF Ensure
  <2>5. step \in StepName \ {"forget", "resolve", "persist"} BY DEF StepName
  <2>6. task' \in [Caller -> Task] /\ (\A q \in Caller : TaskInv(task'[q])) /\ BootInv'
    BY <1>1, <1>2, <1>3, <2>3, <2>4, <2>5, InsteadFacts
  <2> QED BY <1>3, <2>4, <2>6 DEF TInv, Variables, Data
<1> QED BY <1>4, <1>5

\* A step that changes data and then goes on, or returns, keeps the types.
LEMMA PlainStep ==
  ASSUME TInv, NEW p \in Caller, task[p].todo # <<>>, Moves(p), Data',
         p = Boot => \A n \in Name : store[n] # NoService => store'[n] # NoService
  PROVE  TInv'
BY MoveOn DEF TInv, Variables

\* A step that changes at most the provider's entry of one service keeps the
\* types.
LEMMA ProviderStep ==
  ASSUME TInv, NEW p \in Caller, task[p].todo # <<>>, Moves(p),
         UNCHANGED <<store, dirs, manifests, containers, listening, stopped>>,
         NEW n \in Name, NEW e \in Entry \cup {NoEntry},
         prov' = prov \/ prov' = [prov EXCEPT ![n] = e]
  PROVE  TInv'
BY PlainStep DEF TInv, Variables, Data

\* The provider's entry of a component that was just built.
LEMMA NewEntry ==
  ASSUME NEW m \in Manifest
  PROVE  [man |-> m, child |-> FALSE] \in Entry
  BY DEF Entry

\* The provider's entry of a component whose process came or went.
LEMMA ChangedEntry ==
  ASSUME NEW e \in Entry, NEW b \in BOOLEAN
  PROVE  [e EXCEPT !.child = b] \in Entry
  BY DEF Entry

\* A service is published and built again from its record.
LEMMA RestoreInv ==
  ASSUME TInv, NEW p \in Caller, Restore(p)
  PROVE  TInv'
<1>1. PICK t \in Task : t = task[p] BY AtFacts DEF Restore
<1>2. t.todo # <<>> /\ t.name \in Name /\ t.man \in Manifest BY <1>1, AtFacts DEF Restore, Loose, Installs
<1>3. Moves(p) /\ UNCHANGED <<store, dirs, manifests, containers, listening, stopped>> BY DEF Restore, Moves, Continue
<1>4. PICK n \in Name, e \in Entry : n = t.name /\ e = [man |-> t.man, child |-> FALSE] BY <1>2, NewEntry
<1>5. prov' = prov \/ prov' = [prov EXCEPT ![n] = e] BY <1>1, <1>4 DEF Restore
<1> QED BY <1>1, <1>2, <1>3, <1>5, ProviderStep

\* The provider builds a service, or refuses to.
LEMMA BuildInv ==
  ASSUME TInv, NEW p \in Caller, Build(p)
  PROVE  TInv'
<1>1. PICK t \in Task : t = task[p] BY AtFacts DEF Build
<1>2. t.todo # <<>> /\ t.name \in Name /\ t.man \in Manifest BY <1>1, AtFacts DEF Build, Loose, Installs
<1>3. Moves(p) /\ UNCHANGED <<store, dirs, manifests, containers, listening, stopped>> BY DEF Build, Moves, Continue
<1>4. PICK n \in Name, e \in Entry : n = t.name /\ e = [man |-> t.man, child |-> FALSE] BY <1>2, NewEntry
<1>5. prov' = prov \/ prov' = [prov EXCEPT ![n] = e] BY <1>1, <1>4 DEF Build
<1> QED BY <1>1, <1>2, <1>3, <1>5, ProviderStep

\* The provider starts or reaps the process of a service, drops its entry, or
\* takes its process out.
LEMMA ProcessInv ==
  ASSUME TInv, NEW p \in Caller, Spawn(p) \/ Reap(p) \/ Drop(p) \/ Take(p)
  PROVE  TInv'
<1>1. PICK t \in Task : t = task[p] BY AtFacts DEF Spawn, Reap, Drop, Take
<1>2. t.todo # <<>> /\ t.name \in Name BY <1>1, AtFacts DEF Spawn, Reap, Drop, Take, Loose
<1>3. UNCHANGED <<store, dirs, manifests, containers, listening, stopped>> BY DEF Spawn, Reap, Drop, Take
<1>4. PICK n \in Name : n = t.name BY <1>2
<1>5. /\ prov[n] # NoEntry => prov[n] \in Entry /\ [prov[n] EXCEPT !.child = TRUE] \in Entry
                                /\ [prov[n] EXCEPT !.child = FALSE] \in Entry
  BY ChangedEntry DEF TInv, Variables, Data
<1>6. CASE Spawn(p)
  <2>1. Moves(p) BY <1>6 DEF Spawn, Moves, Continue
  <2>2. prov' = prov \/ (prov[n] # NoEntry /\ prov' = [prov EXCEPT ![n].child = TRUE]) BY <1>1, <1>4, <1>6 DEF Spawn
  <2>3. CASE prov' = prov BY <1>1, <1>2, <1>3, <2>1, <2>3, ProviderStep
  <2>4. CASE prov[n] # NoEntry /\ prov' = [prov EXCEPT ![n].child = TRUE]
    <3>1. PICK e \in Entry : e = [prov[n] EXCEPT !.child = TRUE] BY <1>5, <2>4
    <3>2. prov' = [prov EXCEPT ![n] = e] BY <2>4, <3>1
    <3> QED BY <1>1, <1>2, <1>3, <2>1, <3>2, ProviderStep
  <2> QED BY <2>2, <2>3, <2>4
<1>7. CASE Reap(p)
  <2>1. Moves(p) BY <1>7 DEF Reap, Moves, Continue
  <2>2. prov' = prov \/ (prov[n] # NoEntry /\ prov' = [prov EXCEPT ![n].child = FALSE]) BY <1>1, <1>4, <1>7 DEF Reap
  <2>3. CASE prov' = prov BY <1>1, <1>2, <1>3, <2>1, <2>3, ProviderStep
  <2>4. CASE prov[n] # NoEntry /\ prov' = [prov EXCEPT ![n].child = FALSE]
    <3>1. PICK e \in Entry : e = [prov[n] EXCEPT !.child = FALSE] BY <1>5, <2>4
    <3>2. prov' = [prov EXCEPT ![n] = e] BY <2>4, <3>1
    <3> QED BY <1>1, <1>2, <1>3, <2>1, <3>2, ProviderStep
  <2> QED BY <2>2, <2>3, <2>4
<1>8. CASE Drop(p) BY <1>1, <1>4, <1>8, <1>2, <1>3, ProviderStep DEF Drop, Moves, Continue
<1>9. CASE Take(p)
  <2>1. CASE prov[n] # NoEntry /\ prov[n].child
    <3>1. PICK e \in Entry : e = [prov[n] EXCEPT !.child = FALSE] BY <1>5, <2>1
    <3>2. prov' = [prov EXCEPT ![n] = e] /\ Instead(p, "reap") BY <1>1, <1>4, <1>9, <2>1, <3>1 DEF Take
    <3>3. PICK m \in Manifest \cup {NoManifest} : m = t.man BY DEF Task
    <3>4. PICK u : u = [t EXCEPT !.man = m, !.todo = <<"reap">> \o Tail(@)] OBVIOUS
    <3>5. PICK r : r = <<"reap">> \o Tail(t.todo) OBVIOUS
    <3>6. u = [t EXCEPT !.todo = r] BY <3>3, <3>4, <3>5 DEF Task
    <3>7. task' = [task EXCEPT ![p] = u] /\ errored' = errored BY <1>1, <3>2, <3>5, <3>6 DEF Instead, TInv
    <3>8. "reap" \in StepName \ {"forget", "resolve", "persist"} /\ "reap" \notin Installs BY DEF StepName, Installs
    <3>9. task' \in [Caller -> Task] /\ (\A q \in Caller : TaskInv(task'[q])) /\ BootInv'
      BY <1>1, <1>2, <1>3, <3>3, <3>4, <3>7, <3>8, InsteadFacts
    <3>10. Data' BY <1>3, <3>2 DEF TInv, Variables, Data
    <3> QED BY <3>7, <3>9, <3>10 DEF TInv, Variables
  <2>2. CASE ~ (prov[n] # NoEntry /\ prov[n].child)
    BY <1>1, <1>4, <1>9, <2>2, <1>2, <1>3, ProviderStep DEF Take, Moves, Continue
  <2> QED BY <2>1, <2>2
<1> QED BY <1>6, <1>7, <1>8, <1>9

\* A step that changes only containers keeps the types.
LEMMA ContainersStep ==
  ASSUME TInv, NEW p \in Caller, task[p].todo # <<>>, Moves(p),
         UNCHANGED <<store, dirs, manifests, prov, listening, stopped>>,
         containers' \in [Id -> {"none", "created", "running"}]
  PROVE  TInv'
BY PlainStep DEF TInv, Variables, Data

\* One request to Docker, which may fail before or after it took effect.
LEMMA RequestInv ==
  ASSUME TInv, NEW p \in Caller, task[p].todo # <<>>, NEW from, NEW next \in {"none", "created", "running"},
         Request(p, from, next) \/ Tolerate(p)
  PROVE  TInv'
<1>1. containers \in [Id -> {"none", "created", "running"}] BY DEF TInv, Variables, Data
<1>2. CASE Request(p, from, next)
  <2>1. PICK i : i = Handle(task[p]) OBVIOUS
  <2>2. containers' = containers \/ containers' = [containers EXCEPT ![i] = next] BY <1>2, <2>1 DEF Request
  <2>3. containers' \in [Id -> {"none", "created", "running"}] BY <1>1, <2>2
  <2>4. Moves(p) /\ UNCHANGED <<store, dirs, manifests, prov, listening, stopped>> BY <1>2 DEF Request, Moves
  <2> QED BY <2>3, <2>4, ContainersStep
<1>3. CASE Tolerate(p) BY <1>3, <1>1, ContainersStep DEF Tolerate, Moves, Continue
<1> QED BY <1>2, <1>3

\* Docker creates, starts, stops, removes or shows a container.
LEMMA DockerInv ==
  ASSUME TInv, NEW p \in Caller,
         DockerCreate(p) \/ DockerStart(p) \/ DockerStop(p) \/ DockerRemove(p) \/ DockerInspect(p)
  PROVE  TInv'
<1>1. containers \in [Id -> {"none", "created", "running"}] /\ task[p].todo # <<>>
  BY DEF TInv, Variables, Data, DockerCreate, DockerStart, DockerStop, DockerRemove, DockerInspect, At
<1>2. CASE DockerCreate(p)
  <2>1. PICK i : i = Handle(task[p]) OBVIOUS
  <2>2. containers' = containers \/ containers' = [containers EXCEPT ![i] = "created"] BY <1>2, <2>1 DEF DockerCreate
  <2>3. containers' \in [Id -> {"none", "created", "running"}] BY <1>1, <2>2
  <2>4. Moves(p) /\ UNCHANGED <<store, dirs, manifests, prov, listening, stopped>>
    BY <1>2 DEF DockerCreate, Moves, Continue
  <2> QED BY <1>1, <2>3, <2>4, ContainersStep
<1>3. CASE DockerStart(p)
  <2>1. CASE Request(p, {"created", "running"}, "running") BY <1>1, <2>1, RequestInv
  <2>2. CASE ~ Request(p, {"created", "running"}, "running")
    BY <1>3, <2>2, <1>1, ContainersStep DEF DockerStart, Moves
  <2> QED BY <2>1, <2>2
<1>4. CASE DockerStop(p) BY <1>4, <1>1, RequestInv DEF DockerStop
<1>5. CASE DockerRemove(p) BY <1>5, <1>1, RequestInv DEF DockerRemove
<1>6. CASE DockerInspect(p) BY <1>6, <1>1, ContainersStep DEF DockerInspect, Moves, Continue
<1> QED BY <1>2, <1>3, <1>4, <1>5, <1>6

\* Manifests are published and withdrawn, listeners opened and closed.
LEMMA TablesInv ==
  ASSUME TInv, NEW p \in Caller, Publish(p) \/ Unpublish(p) \/ Unlisten(p) \/ Listen(p)
  PROVE  TInv'
<1>1. PICK t \in Task : t = task[p] BY AtFacts DEF Publish, Unpublish, Unlisten, Listen
<1>2. t.todo # <<>> /\ t.name \in Name /\ (Publish(p) => t.man \in Manifest)
  BY <1>1, AtFacts DEF Publish, Unpublish, Unlisten, Listen, Loose, Installs
<1>3. Data /\ Moves(p) /\ UNCHANGED <<store, dirs, prov, containers>>
  BY DEF TInv, Variables, Publish, Unpublish, Unlisten, Listen, Moves, Continue
<1>4. manifests' \in [Name -> Manifest \cup {NoManifest}]
  BY <1>1, <1>2, <1>3 DEF Data, Publish, Unpublish, Unlisten, Listen
<1>5. \A m \in Manifest \cup {NoManifest} : EndpointsAs(t.name, m) \subseteq Name \X Endpoint
  BY <1>2, RuntimeAssumption DEF EndpointsAs
<1>6. listening' \subseteq Name \X Endpoint BY <1>2, <1>3, <1>5, <1>1 DEF Data, Publish, Unpublish, Unlisten, Listen
<1>7. stopped' \subseteq Name BY <1>1, <1>2, <1>3 DEF Data, Publish, Unpublish, Unlisten, Listen
<1>8. Data' BY <1>3, <1>4, <1>6, <1>7 DEF Data
<1> QED BY <1>1, <1>2, <1>3, <1>8, PlainStep

\* What the two steps that save a record write: the directory of its
\* identifier, which bears its name, and no other.
LEMMA SaveFacts ==
  ASSUME NEW s \in Service, NEW n \in Name, dirs \in [Id -> Dir \cup {NoDir}]
  PROVE  /\ Written(n, s) \in [Id -> Dir \cup {NoDir}]
         /\ YamlWritten(n, s) \in [Id -> Dir \cup {NoDir}]
         /\ s.id \in Id
         /\ \A D \in {Written(n, s), YamlWritten(n, s)} :
              /\ D[s.id] # NoDir /\ D[s.id].name = n /\ D[s.id].man = s.man
              /\ \A i \in Id \ {s.id} : D[i] = dirs[i]
<1>1. s.id \in Id /\ s.man \in Manifest /\ s.desired \in DesiredState BY DEF Service
<1>2. PICK e : e = [name |-> n, man |-> s.man, desired |-> s.desired] OBVIOUS
<1>3. e \in Dir /\ e.name = n /\ e.man = s.man BY <1>1, <1>2 DEF Dir
<1>4. PICK d \in DesiredState : d = IF dirs[s.id] = NoDir THEN "stopped" ELSE dirs[s.id].desired
  BY <1>1 DEF Dir, DesiredState
<1>5. PICK f : f = [name |-> n, man |-> s.man, desired |-> d] OBVIOUS
<1>6. f \in Dir /\ f.name = n /\ f.man = s.man BY <1>1, <1>5 DEF Dir
<1>7. Written(n, s) = [dirs EXCEPT ![s.id] = e] BY <1>2 DEF Written
<1>8. YamlWritten(n, s) = [dirs EXCEPT ![s.id] = f] BY <1>4, <1>5 DEF YamlWritten
<1> QED BY <1>1, <1>3, <1>6, <1>7, <1>8, RuntimeAssumption

\* A record is saved under the identifier its name has had, if it had one: so a
\* directory still belongs to the record of its name, wherever the save stops.
LEMMA SaveInv ==
  ASSUME TInv, NEW p \in Caller, task[p].todo # <<>>, NEW n \in Name, NEW s \in Service,
         store[n] = NoService \/ store[n].id = s.id,
         Save(p, n, s), UNCHANGED <<manifests, prov, containers, listening, stopped>>
  PROVE  TInv' /\ (Recorded => Recorded')
<1>1. Data /\ Moves(p) BY DEF TInv, Variables, Save, Moves, Continue
<1>2. /\ Written(n, s) \in [Id -> Dir \cup {NoDir}]
      /\ YamlWritten(n, s) \in [Id -> Dir \cup {NoDir}]
      /\ s.id \in Id
      /\ \A D \in {Written(n, s), YamlWritten(n, s)} :
           /\ D[s.id] # NoDir /\ D[s.id].name = n
           /\ \A i \in Id \ {s.id} : D[i] = dirs[i]
  BY <1>1, SaveFacts DEF Data
<1>3. dirs' \in {dirs, Written(n, s), YamlWritten(n, s)} /\ store' = [store EXCEPT ![n] = s] BY DEF Save
<1>4. /\ store'[n] = s /\ s # NoService
      /\ \A m \in Name \ {n} : store'[m] = store[m]
  BY <1>1, <1>3, RuntimeAssumption DEF Data
<1>5. Data' BY <1>1, <1>2, <1>3 DEF Data
<1>6. TInv' BY <1>1, <1>4, <1>5, PlainStep
<1>7. ASSUME Recorded PROVE Recorded'
  <2> SUFFICES ASSUME NEW i \in Id, dirs'[i] # NoDir
               PROVE  store'[dirs'[i].name] # NoService /\ store'[dirs'[i].name].id = i
    BY DEF Recorded
  <2>1. CASE dirs'[i] = dirs[i] BY <1>1, <1>7, <2>1, <1>4 DEF Recorded, Data, Dir
  <2>2. CASE dirs'[i] # dirs[i] BY <1>2, <1>3, <1>4, <2>2
  <2> QED BY <2>1, <2>2
<1> QED BY <1>6, <1>7

\* An apply saves its record only under the identifier that is on record by
\* now, which another call may have put there since this one began; otherwise
\* it is refused.
LEMMA PersistInv ==
  ASSUME TInv, NEW p \in Caller, Persist(p)
  PROVE  TInv' /\ (Recorded => Recorded')
<1>1. PICK t \in Task : t = task[p] BY AtFacts DEF Persist
<1>2. t.todo # <<>> /\ t.name \in Name /\ t.man \in Manifest /\ t.id \in Id
  BY <1>1, AtFacts DEF Persist, Loose, Installs
<1>3. UNCHANGED <<manifests, prov, containers, listening, stopped>> BY DEF Persist
<1>4. CASE store[t.name] = NoService \/ store[t.name].id = t.id
  <2>1. PICK s : s = Persisted(t) OBVIOUS
  <2>2. s \in Service /\ s.id = t.id BY <1>2, <2>1 DEF Persisted, Service, Task
  <2>3. Save(p, t.name, s) BY <1>1, <1>4, <2>1 DEF Persist
  <2> QED BY <1>1, <1>2, <1>3, <1>4, <2>2, <2>3, SaveInv
<1>5. CASE ~ (store[t.name] = NoService \/ store[t.name].id = t.id)
  BY <1>1, <1>5, <1>3, <1>2, PlainStep DEF Persist, TInv, Variables, Data, Moves, Recorded
<1> QED BY <1>4, <1>5

\* The desired state of a service that is on record is saved.
LEMMA DesireInv ==
  ASSUME TInv, NEW p \in Caller, Desire(p)
  PROVE  TInv' /\ (Recorded => Recorded')
<1>1. PICK t \in Task : t = task[p] BY AtFacts DEF Desire
<1>2. t.todo # <<>> /\ t.name \in Name BY <1>1, AtFacts DEF Desire, Loose
<1>3. UNCHANGED <<manifests, prov, containers, listening, stopped>> BY DEF Desire
<1>4. CASE store[t.name] # NoService
  <2>1. PICK s : s = Desired(t) OBVIOUS
  <2>2. s \in Service /\ s.id = store[t.name].id
    <3>1. store[t.name] \in Service BY <1>2, <1>4 DEF TInv, Variables, Data
    <3>2. t.desired \in DesiredState BY DEF Task
    <3> QED BY <2>1, <3>1, <3>2 DEF Desired, Service
  <2>3. Save(p, t.name, s) BY <1>1, <1>4, <2>1 DEF Desire
  <2> QED BY <1>1, <1>2, <1>3, <2>2, <2>3, SaveInv
<1>5. CASE store[t.name] = NoService
  BY <1>1, <1>5, <1>3, <1>2, PlainStep DEF Desire, TInv, Variables, Data, Moves, Recorded
<1> QED BY <1>4, <1>5

\* A directory that has lost its state file bears the name it had.
LEMMA StatelessFacts ==
  ASSUME dirs \in [Id -> Dir \cup {NoDir}], NEW i \in Id, NEW D \in Stateless(i)
  PROVE  /\ D \in [Id -> Dir \cup {NoDir}]
         /\ \A j \in Id : /\ (D[j] # NoDir) = (dirs[j] # NoDir)
                          /\ D[j] # NoDir => D[j].name = dirs[j].name /\ D[j].man = dirs[j].man
<1>1. dirs[i] \in Dir BY DEF Stateless
<1>2. PICK e : e = [dirs[i] EXCEPT !.desired = "stopped"] OBVIOUS
<1>3. e \in Dir /\ e.name = dirs[i].name /\ e.man = dirs[i].man BY <1>1, <1>2 DEF Dir, DesiredState
<1>4. D = [dirs EXCEPT ![i] = e] BY <1>2 DEF Stateless
<1> QED BY <1>1, <1>3, <1>4, RuntimeAssumption

\* The record of a removed service is dropped; a directory of its name that
\* stays behind is the one thing that breaks Recorded.
LEMMA ForgetInv ==
  ASSUME TInv, NEW p \in Caller, Forget(p)
  PROVE  TInv' /\ (Recorded /\ RecordGoesWithDirectory => Recorded')
<1>1. PICK t \in Task : t = task[p] BY AtFacts DEF Forget
<1>2. t.todo # <<>> /\ t.name \in Name /\ p # Boot BY <1>1, AtFacts DEF Forget, Loose
<1>3. Data /\ Moves(p) /\ UNCHANGED <<manifests, prov, containers, listening>>
  BY DEF TInv, Variables, Forget, Moves, Continue
<1>4. PICK n \in Name : n = t.name BY <1>2
<1>5. PICK gone : gone = IF store[n] = NoService THEN dirs ELSE [dirs EXCEPT ![store[n].id] = NoDir] OBVIOUS
<1>6. store' = [store EXCEPT ![n] = NoService] /\ stopped' \subseteq Name BY <1>1, <1>3, <1>4 DEF Forget, Data
<1>7. gone \in [Id -> Dir \cup {NoDir}] BY <1>3, <1>5 DEF Data
<1>8. dirs' \in {gone, dirs} \/ (store[n] # NoService /\ dirs' \in Stateless(store[n].id))
  BY <1>1, <1>4, <1>5 DEF Forget
<1>9. store[n] # NoService => store[n].id \in Id BY <1>3 DEF Data, Service
<1>10. /\ dirs' \in [Id -> Dir \cup {NoDir}]
       /\ \A j \in Id : dirs'[j] # NoDir => dirs[j] # NoDir /\ dirs'[j].name = dirs[j].name
  <2>1. CASE dirs' = dirs BY <1>3, <2>1 DEF Data
  <2>2. CASE dirs' = gone BY <1>3, <1>5, <1>7, <2>2 DEF Data
  <2>3. CASE store[n] # NoService /\ dirs' \in Stateless(store[n].id) BY <1>3, <1>9, <2>3, StatelessFacts DEF Data
  <2> QED BY <1>8, <2>1, <2>2, <2>3
<1>11. Data' BY <1>3, <1>6, <1>10 DEF Data
<1>12. TInv' BY <1>1, <1>2, <1>3, <1>11, PlainStep
<1>13. ASSUME Recorded, RecordGoesWithDirectory PROVE Recorded'
  <2> SUFFICES ASSUME NEW i \in Id, dirs'[i] # NoDir
               PROVE  store'[dirs'[i].name] # NoService /\ store'[dirs'[i].name].id = i
    BY DEF Recorded
  <2>1. PICK m \in Name : m = dirs[i].name /\ m = dirs'[i].name /\ store[m] # NoService /\ store[m].id = i
    BY <1>3, <1>10, <1>13 DEF Recorded, Data, Dir
  <2>2. m # n BY <1>3, <1>6, <1>13, <2>1 DEF Data, RecordGoesWithDirectory
  <2> QED BY <1>3, <1>6, <2>1, <2>2 DEF Data
<1> QED BY <1>12, <1>13

\* Every step of a call keeps the types; of all the steps only Forget drops a
\* record.
LEMMA StepInv ==
  ASSUME TInv, NEW p \in Caller, Step(p)
  PROVE  TInv' /\ (Recorded /\ RecordGoesWithDirectory => Recorded')
<1>1. CASE Persist(p) BY <1>1, PersistInv
<1>2. CASE Desire(p) BY <1>2, DesireInv
<1>3. CASE Forget(p) BY <1>3, ForgetInv
<1>4. ASSUME UNCHANGED <<store, dirs>> PROVE Recorded => Recorded' BY <1>4 DEF Recorded
<1>5. CASE Resolve(p) BY <1>4, <1>5, ResolveInv DEF Resolve
<1>6. CASE Ensure(p) BY <1>4, <1>6, EnsureInv DEF Ensure
<1>7. CASE Restore(p) BY <1>4, <1>7, RestoreInv DEF Restore
<1>8. CASE Build(p) BY <1>4, <1>8, BuildInv DEF Build
<1>9. CASE Spawn(p) \/ Reap(p) \/ Drop(p) \/ Take(p) BY <1>9, <1>4, ProcessInv DEF Spawn, Reap, Drop, Take
<1>10. CASE DockerCreate(p) \/ DockerStart(p) \/ DockerStop(p) \/ DockerRemove(p) \/ DockerInspect(p)
  BY <1>10, <1>4, DockerInv DEF DockerCreate, DockerStart, DockerStop, DockerRemove, DockerInspect, Request, Tolerate
<1>11. CASE Publish(p) \/ Unpublish(p) \/ Unlisten(p) \/ Listen(p)
  BY <1>11, <1>4, TablesInv DEF Publish, Unpublish, Unlisten, Listen
<1> QED BY <1>1, <1>2, <1>3, <1>5, <1>6, <1>7, <1>8, <1>9, <1>10, <1>11 DEF Step

-----------------------------------------------------------------------------
\* The calls.

\* A new call knows what its steps need.
LEMMA CallTask ==
  ASSUME NEW t \in Task, t.op \in {"apply", "start", "stop", "remove", "inspect"}, t.name \in Name,
         NEW S, t.todo \in Seq(S), S \subseteq Allowed(t)
  PROVE  TaskInv(t) /\ t.op \notin {"idle", "boot"}
BY DEF TaskInv

\* A call begins, and changes nothing on disk.
LEMMA BeginStep ==
  ASSUME TInv, NEW p \in Proc, NEW t, Begin(p, t), TaskInv(t), t.op \notin {"idle", "boot"}, t.name \in Name,
         stopped' \subseteq Name
  PROVE  TInv' /\ (Recorded => Recorded')
<1>1. /\ task \in [Caller -> Task] /\ Boot \in Caller /\ (\A q \in Proc : q \in Caller /\ q # Boot)
      /\ \A q \in Caller : TaskInv(task[q]) /\ task[q] \in Task
  BY RuntimeAssumption DEF TInv, Caller
<1>2. /\ task[Boot].op = "idle" /\ task' = [task EXCEPT ![p] = t]
      /\ UNCHANGED <<store, dirs, manifests, prov, containers, listening>>
      /\ errored' \subseteq errored \cup {t.name}
  BY DEF Begin, Serving
<1>3. task' \in [Caller -> Task] /\ task'[p] = t /\ \A q \in Caller \ {p} : task'[q] = task[q]
  BY <1>1, <1>2 DEF TaskInv
<1>4. \A q \in Caller : TaskInv(task'[q]) BY <1>1, <1>3
<1>5. task'[Boot] = task[Boot] /\ task[Boot].rest = {} BY <1>1, <1>2, <1>3 DEF TInv, BootInv
<1>6. \A q \in Proc : task'[q].op # "boot" /\ (task'[q].op = "idle" => task'[q] = Idle)
  BY <1>1, <1>3 DEF TInv, BootInv
<1>7. BootInv' BY <1>2, <1>5, <1>6 DEF TInv, BootInv
<1>8. Variables' BY <1>2 DEF TInv, Variables, Data
<1> QED BY <1>2, <1>3, <1>4, <1>7, <1>8 DEF TInv, Recorded

\* apply_service begins.
LEMMA ApplyBeginInv ==
  ASSUME TInv, NEW p \in Proc, NEW n \in Name, NEW m \in Manifest, NEW i \in Id, ApplyBegin(p, n, m, i)
  PROVE  TInv' /\ (Recorded => Recorded')
<1>1. PICK w : w = <<"resolve">> OBVIOUS
<1>2. w \in Seq({s \in StepName : /\ s \in Installs => m \in Manifest
                                  /\ s \in {"resolve", "persist"} => i \in Id})
  BY <1>1 DEF StepName
<1>3. PICK t : t = [Idle EXCEPT !.op = "apply", !.todo = w, !.name = n, !.man = m, !.id = i] OBVIOUS
<1>4. TaskInv(t) /\ t.op \notin {"idle", "boot"} /\ t.name = n
  <2>1. PICK S : S = {s \in StepName : /\ s \in Installs => m \in Manifest
                               /\ s \in {"resolve", "persist"} => i \in Id}
    OBVIOUS
  <2>2. t = [op |-> "apply", todo |-> w, name |-> n, man |-> m, prev |-> NoManifest, id |-> i,
         desired |-> "stopped", rest |-> {}, found |-> {}]
    BY <1>3 DEF Idle
  <2>3. w \in Seq(S) /\ S \subseteq StepName BY <1>2, <2>1
  <2>4. w \in Seq(StepName) BY <2>3
  <2>5. t \in Task BY <2>2, <2>4 DEF Task, DesiredState
  <2>6. t.op = "apply" /\ t.todo = w /\ t.name = n BY <2>2
  <2>7. t.man = m /\ t.id = i BY <2>2
  <2>8. S \subseteq Allowed(t) BY <2>6, <2>7, <2>1 DEF Allowed
  <2> QED BY <2>3, <2>5, <2>6, <2>8, CallTask
<1>5. Begin(p, t) /\ stopped' = stopped BY <1>1, <1>3 DEF ApplyBegin, Begin
<1>6. stopped' \subseteq Name BY <1>5 DEF TInv, Variables, Data
<1> QED BY <1>4, <1>5, <1>6, BeginStep

\* start_service begins.
LEMMA StartBeginInv ==
  ASSUME TInv, NEW p \in Proc, NEW n \in Name, StartBegin(p, n)
  PROVE  TInv' /\ (Recorded => Recorded')
<1>1. PICK S : S = {s \in StepName : /\ s \in Installs => NoManifest \in Manifest
                                     /\ s \in {"resolve", "persist"} => NoId \in Id}
  OBVIOUS
<1>2. {"ensure", "spawn", "desire", "docker_start", "listen"} \subseteq S BY <1>1 DEF StepName, Installs
<1>3. PICK w : w = StartPlan(manifests[n]) \o <<"listen">> OBVIOUS
<1>4. w \in Seq(S) BY <1>2, <1>3, StartPlanType, ConcatType
<1>5. PICK t : t = [Idle EXCEPT !.op = "start", !.name = n, !.desired = "running", !.todo = w] OBVIOUS
<1>6. TaskInv(t) /\ t.op \notin {"idle", "boot"} /\ t.name = n
  <2>1. t = [op |-> "start", todo |-> w, name |-> n, man |-> NoManifest, prev |-> NoManifest,
         id |-> NoId, desired |-> "running", rest |-> {}, found |-> {}]
    BY <1>5 DEF Idle
  <2>2. w \in Seq(S) /\ S \subseteq StepName BY <1>1, <1>4
  <2>3. w \in Seq(StepName) BY <2>2
  <2>4. t \in Task BY <2>1, <2>3 DEF Task, DesiredState
  <2>5. t.op = "start" /\ t.todo = w /\ t.name = n BY <2>1
  <2>6. t.man = NoManifest /\ t.id = NoId BY <2>1
  <2>7. S \subseteq Allowed(t) BY <2>5, <2>6, <1>1 DEF Allowed
  <2> QED BY <2>2, <2>4, <2>5, <2>7, CallTask
<1>7. Begin(p, t) /\ stopped' = stopped \ {n} BY <1>3, <1>5 DEF StartBegin, Begin
<1>8. stopped' \subseteq Name BY <1>7 DEF TInv, Variables, Data
<1> QED BY <1>6, <1>7, <1>8, BeginStep

\* stop_service begins.
LEMMA StopBeginInv ==
  ASSUME TInv, NEW p \in Proc, NEW n \in Name, StopBegin(p, n)
  PROVE  TInv' /\ (Recorded => Recorded')
<1>1. PICK S : S = {s \in StepName : /\ s \in Installs => NoManifest \in Manifest
                                     /\ s \in {"resolve", "persist"} => NoId \in Id}
  OBVIOUS
<1>2. {"try_ensure", "take", "docker_stop", "desire", "unlisten"} \subseteq S BY <1>1 DEF StepName, Installs
<1>3. PICK v : v = CASE Wasm(manifests[n]) -> <<"try_ensure", "take">>
                     [] Docker(manifests[n]) -> <<"docker_stop">>
                     [] OTHER -> <<>>
  OBVIOUS
<1>4. PICK w : w = v \o <<"desire", "unlisten">> OBVIOUS
<1>5. w \in Seq(S) BY <1>2, <1>3, <1>4, ConcatType
<1>6. PICK t : t = [Idle EXCEPT !.op = "stop", !.name = n, !.todo = w] OBVIOUS
<1>7. TaskInv(t) /\ t.op \notin {"idle", "boot"} /\ t.name = n
  <2>1. t = [op |-> "stop", todo |-> w, name |-> n, man |-> NoManifest, prev |-> NoManifest,
         id |-> NoId, desired |-> "stopped", rest |-> {}, found |-> {}]
    BY <1>6 DEF Idle
  <2>2. w \in Seq(S) /\ S \subseteq StepName BY <1>1, <1>5
  <2>3. w \in Seq(StepName) BY <2>2
  <2>4. t \in Task BY <2>1, <2>3 DEF Task, DesiredState
  <2>5. t.op = "stop" /\ t.todo = w /\ t.name = n BY <2>1
  <2>6. t.man = NoManifest /\ t.id = NoId BY <2>1
  <2>7. S \subseteq Allowed(t) BY <2>5, <2>6, <1>1 DEF Allowed
  <2> QED BY <2>2, <2>4, <2>5, <2>7, CallTask
<1>8. Begin(p, t) /\ stopped' = stopped BY <1>3, <1>4, <1>6 DEF StopBegin, Begin
<1>9. stopped' \subseteq Name BY <1>8 DEF TInv, Variables, Data
<1> QED BY <1>7, <1>8, <1>9, BeginStep

\* remove_service begins.
LEMMA RemoveBeginInv ==
  ASSUME TInv, NEW p \in Proc, NEW n \in Name, RemoveBegin(p, n)
  PROVE  TInv' /\ (Recorded => Recorded')
<1>1. PICK S : S = {s \in StepName : /\ s \in Installs => NoManifest \in Manifest
                                     /\ s \in {"resolve", "persist"} => NoId \in Id}
  OBVIOUS
<1>2. {"take", "drop", "docker_remove", "unpublish", "forget", "unlisten"} \subseteq S BY <1>1 DEF StepName, Installs
<1>3. PICK v : v = CASE Wasm(manifests[n]) -> <<"take", "drop">>
                     [] Docker(manifests[n]) -> <<"docker_remove">>
                     [] OTHER -> <<>>
  OBVIOUS
<1>4. PICK w : w = v \o <<"unpublish", "forget", "unlisten">> OBVIOUS
<1>5. w \in Seq(S) BY <1>2, <1>3, <1>4, ConcatType
<1>6. PICK m \in Manifest : m = manifests[n] BY DEF RemoveBegin, TInv, Variables, Data
<1>7. PICK t : t = [Idle EXCEPT !.op = "remove", !.name = n, !.prev = m, !.todo = w] OBVIOUS
<1>8. TaskInv(t) /\ t.op \notin {"idle", "boot"} /\ t.name = n
  <2>1. t = [op |-> "remove", todo |-> w, name |-> n, man |-> NoManifest, prev |-> m,
         id |-> NoId, desired |-> "stopped", rest |-> {}, found |-> {}]
    BY <1>7 DEF Idle
  <2>2. w \in Seq(S) /\ S \subseteq StepName BY <1>1, <1>5
  <2>3. w \in Seq(StepName) BY <2>2
  <2>4. t \in Task BY <2>1, <2>3 DEF Task, DesiredState
  <2>5. t.op = "remove" /\ t.todo = w /\ t.name = n BY <2>1
  <2>6. t.man = NoManifest /\ t.id = NoId BY <2>1
  <2>7. S \subseteq Allowed(t) BY <2>5, <2>6, <1>1 DEF Allowed
  <2> QED BY <2>2, <2>4, <2>5, <2>7, CallTask
<1>9. Begin(p, t) /\ stopped' = stopped BY <1>3, <1>4, <1>6, <1>7 DEF RemoveBegin, Begin
<1>10. stopped' \subseteq Name BY <1>9 DEF TInv, Variables, Data
<1> QED BY <1>8, <1>9, <1>10, BeginStep

\* An inspection begins.
LEMMA InspectBeginInv ==
  ASSUME TInv, NEW p \in Proc, NEW n \in Name, InspectBegin(p, n)
  PROVE  TInv' /\ (Recorded => Recorded')
<1>1. PICK w : w = <<"try_ensure">> OBVIOUS
<1>2. PICK t : t = [Idle EXCEPT !.op = "inspect", !.name = n, !.todo = w] OBVIOUS
<1>3. TaskInv(t) /\ t.op \notin {"idle", "boot"} /\ t.name = n
  <2>1. PICK S : S = {"try_ensure"} OBVIOUS
  <2>2. t = [op |-> "inspect", todo |-> w, name |-> n, man |-> NoManifest, prev |-> NoManifest,
         id |-> NoId, desired |-> "stopped", rest |-> {}, found |-> {}]
    BY <1>2 DEF Idle
  <2>3. w \in Seq(S) /\ S \subseteq StepName BY <1>1, <2>1 DEF StepName
  <2>4. w \in Seq(StepName) BY <2>3
  <2>5. t \in Task BY <2>2, <2>4 DEF Task, DesiredState
  <2>6. t.op = "inspect" /\ t.todo = w /\ t.name = n BY <2>2
  <2>7. t.man = NoManifest /\ t.id = NoId BY <2>2
  <2>8. S \subseteq Allowed(t) BY <2>1, <2>6, <2>7 DEF Allowed, StepName, Installs
  <2> QED BY <2>3, <2>5, <2>6, <2>8, CallTask
<1>4. Begin(p, t) /\ stopped' = stopped BY <1>1, <1>2 DEF InspectBegin, Begin
<1>5. stopped' \subseteq Name BY <1>4 DEF TInv, Variables, Data
<1> QED BY <1>3, <1>4, <1>5, BeginStep

\* The start of the daemon turns to the next service on record.
LEMMA BootNextInv ==
  ASSUME TInv, NEW n \in Name, BootNext(n)
  PROVE  TInv' /\ (Recorded => Recorded')
<1>1. Boot \in Caller /\ At(Boot, "next") /\ n \in task[Boot].rest BY DEF Caller, BootNext
<1>2. PICK t \in Task : t = task[Boot] BY <1>1, AtFacts
<1>3. store[n] \in Service BY <1>1 DEF TInv, Variables, Data, BootInv
<1>4. PICK m \in Manifest, d \in DesiredState : m = store[n].man /\ d = store[n].desired BY <1>3 DEF Service
<1>5. PICK S : S = StepName \ {"forget", "resolve", "persist"} OBVIOUS
<1>6. PICK w : w = <<"publish">> \o (IF Wasm(m) THEN <<"try_restore">> ELSE <<>>)
                   \o (IF d = "running" THEN StartPlan(m) ELSE <<>>)
  OBVIOUS
<1>7. w \in Seq(S)
  <2>1. PICK a : a = IF Wasm(m) THEN <<"try_restore">> ELSE <<>> OBVIOUS
  <2>2. PICK b : b = IF d = "running" THEN StartPlan(m) ELSE <<>> OBVIOUS
  <2>3. <<"publish">> \in Seq(S) /\ <<"try_restore">> \in Seq(S) /\ <<>> \in Seq(S) BY <1>5 DEF StepName
  <2>4. b \in Seq(S) BY <1>5, <2>2, StartPlanType DEF StepName
  <2>5. a \in Seq(S) /\ <<"publish">> \o a \in Seq(S) BY <2>1, <2>3, ConcatType
  <2> QED BY <1>6, <2>1, <2>2, <2>4, <2>5, ConcatType
<1>8. PICK r : r = t.rest \ {n} OBVIOUS
<1>9. PICK u : u = [t EXCEPT !.rest = r, !.name = n, !.man = m, !.desired = d, !.todo = w] OBVIOUS
<1>10. task' = [task EXCEPT ![Boot] = u] /\ UNCHANGED <<store, dirs, manifests, prov, containers, listening, stopped, errored>>
  BY <1>2, <1>4, <1>6, <1>8, <1>9 DEF BootNext, TInv
<1>11. r \in SUBSET Name /\ w \in Seq(StepName) /\ w \in Seq(StepName \ {"forget"}) BY <1>5, <1>7, <1>8 DEF Task
<1>12. u \in Task BY <1>9, <1>11 DEF Task
<1>13. u.name = n /\ u.man = m /\ u.todo = w BY <1>9 DEF Task
<1>14. u.op = t.op /\ u.rest = r BY <1>9 DEF Task
<1>15. S \subseteq Allowed(u) BY <1>5, <1>13 DEF Allowed
<1>16. u.todo \in Seq(Allowed(u)) BY <1>7, <1>13, <1>15
<1>17. TaskInv(u) BY <1>12, <1>13, <1>16 DEF TaskInv
<1>18. t.op = "boot" BY <1>1, <1>2 DEF TInv, BootInv
<1>19. task' \in [Caller -> Task] /\ (\A q \in Caller : TaskInv(task'[q])) /\ BootInv'
  BY <1>1, <1>2, <1>8, <1>10, <1>11, <1>13, <1>14, <1>17, <1>18, StepTask
<1> QED BY <1>10, <1>19 DEF TInv, Variables, Data, Recorded

\* The start has restored all services.
LEMMA BootRestoredInv ==
  ASSUME TInv, BootRestored
  PROVE  TInv' /\ (Recorded => Recorded')
<1>1. Boot \in Caller BY DEF Caller
<1>2. PICK w : w = <<"list_running", "list_desired">> OBVIOUS
<1>3. PICK u : u = [Idle EXCEPT !.todo = w] OBVIOUS
<1>4. u = [op |-> "idle", todo |-> w, name |-> NoName, man |-> NoManifest, prev |-> NoManifest,
           id |-> NoId, desired |-> "stopped", rest |-> {}, found |-> {}]
  BY <1>3 DEF Idle
<1>5. w \in Seq(StepName) /\ w \in Seq(Loose) /\ w \in Seq(StepName \ {"forget"}) BY <1>2 DEF StepName, Loose
<1>6. u \in Task BY <1>4, <1>5 DEF Task, DesiredState
<1>7. u.op = "idle" /\ u.todo = w /\ u.rest = {} BY <1>4
<1>8. Loose \subseteq Allowed(u) BY DEF Loose, Allowed, Installs, StepName
<1>9. u.todo \in Seq(Allowed(u)) BY <1>5, <1>7, <1>8
<1>10. TaskInv(u) BY <1>6, <1>7, <1>9 DEF TaskInv
<1>11. task' = [task EXCEPT ![Boot] = u] /\ UNCHANGED <<store, dirs, manifests, prov, containers, listening, stopped, errored>>
  BY <1>2, <1>3 DEF BootRestored
<1>12. task' \in [Caller -> Task] /\ (\A q \in Caller : TaskInv(task'[q])) /\ BootInv'
  BY <1>1, <1>5, <1>7, <1>10, <1>11, StepTask
<1> QED BY <1>11, <1>12 DEF TInv, Variables, Data, Recorded

\* The start looks at services, or listens on an endpoint it found: the records
\* it has still to restore stay.
LEMMA LookStep ==
  ASSUME TInv, NEW f \in SUBSET (Name \X Endpoint), NEW w,
         w = task[Boot].todo \/ (task[Boot].todo # <<>> /\ w = Tail(task[Boot].todo)),
         task' = [task EXCEPT ![Boot] = [task[Boot] EXCEPT !.todo = w, !.found = f]], UNCHANGED store
  PROVE  task' \in [Caller -> Task] /\ (\A q \in Caller : TaskInv(task'[q])) /\ BootInv'
<1>1. Boot \in Caller BY DEF Caller
<1>2. PICK t \in Task : t = task[Boot] BY <1>1 DEF TInv
<1>3. TaskInv(t) /\ t.todo \in Seq(StepName \ {"forget"}) /\ (t.rest # {} => t.op = "boot")
  BY <1>1, <1>2 DEF TInv, BootInv
<1>4. ASSUME NEW S, t.todo \in Seq(S) PROVE w \in Seq(S)
  <2>1. CASE w = t.todo BY <1>4, <2>1
  <2>2. CASE t.todo # <<>> /\ w = Tail(t.todo) BY <1>4, <2>2
  <2> QED BY <1>2, <2>1, <2>2
<1>5. PICK u : u = [t EXCEPT !.todo = w, !.found = f] OBVIOUS
<1>6. w \in Seq(StepName) /\ w \in Seq(StepName \ {"forget"}) BY <1>3, <1>4 DEF Task
<1>7. u \in Task BY <1>5, <1>6 DEF Task
<1>8. u.name = t.name /\ u.man = t.man /\ u.id = t.id BY <1>5 DEF Task
<1>9. u.op = t.op /\ u.rest = t.rest /\ u.todo = w BY <1>5 DEF Task
<1>10. Allowed(u) = Allowed(t) BY <1>8 DEF Allowed
<1>11. TaskInv(u) BY <1>3, <1>4, <1>7, <1>8, <1>9, <1>10 DEF TaskInv
<1>12. task' = [task EXCEPT ![Boot] = u] BY <1>2, <1>5
<1> QED BY <1>1, <1>2, <1>3, <1>6, <1>9, <1>11, <1>12, StepTask

\* The endpoints of a service are endpoints under its name.
LEMMA EndpointsType ==
  ASSUME NEW n \in Name, NEW m \in Manifest \cup {NoManifest}
  PROVE  EndpointsAs(n, m) \subseteq Name \X Endpoint
  BY RuntimeAssumption DEF EndpointsAs

\* The start lists the services that run.
LEMMA BootListRunningInv ==
  ASSUME TInv, BootListRunning
  PROVE  TInv' /\ (Recorded => Recorded')
<1>1. Data /\ UNCHANGED <<store, dirs, manifests, containers, listening, stopped>>
  BY DEF BootListRunning, TInv, Variables
<1>2. task[Boot].todo # <<>> BY DEF BootListRunning, At
<1>3. PICK seen \in SUBSET Name :
        /\ Find(UNION {EndpointsAs(n, manifests[n]) : n \in seen})
        /\ errored' = errored \cup {n \in seen : store[n] # NoService /\ store[n].desired = "stopped"}
  BY DEF BootListRunning
<1>4. PICK f : f = UNION {EndpointsAs(n, manifests[n]) : n \in seen} OBVIOUS
<1>5. f \in SUBSET (Name \X Endpoint) BY <1>1, <1>4, EndpointsType DEF Data
<1>6. PICK w : w = Tail(task[Boot].todo) OBVIOUS
<1>7. task' = [task EXCEPT ![Boot] = [task[Boot] EXCEPT !.todo = w, !.found = f]] BY <1>3, <1>4, <1>6 DEF Find
<1>8. task' \in [Caller -> Task] /\ (\A q \in Caller : TaskInv(task'[q])) /\ BootInv'
  BY <1>1, <1>2, <1>5, <1>6, <1>7, LookStep
<1>9. prov' \in [Name -> Entry \cup {NoEntry}]
  <2>1. PICK restored \in SUBSET {n \in Name : /\ manifests[n] # NoManifest /\ Wasm(manifests[n])
                                               /\ prov[n] = NoEntry /\ store[n] # NoService} :
          prov' = [n \in Name |-> IF n \in restored THEN [man |-> manifests[n], child |-> FALSE]
                                                    ELSE prov[n]]
    BY DEF BootListRunning
  <2>2. ASSUME NEW n \in Name
        PROVE  (IF n \in restored THEN [man |-> manifests[n], child |-> FALSE] ELSE prov[n]) \in Entry \cup {NoEntry}
    BY <1>1, NewEntry DEF Data
  <2> QED BY <2>1, <2>2
<1>10. errored' \subseteq Name \cup Id BY <1>3 DEF TInv, Variables
<1>11. Data' BY <1>1, <1>9 DEF Data
<1> QED BY <1>1, <1>8, <1>10, <1>11 DEF TInv, Variables, Recorded

\* The start lists the services that are desired to run.
LEMMA BootListDesiredInv ==
  ASSUME TInv, BootListDesired
  PROVE  TInv' /\ (Recorded => Recorded')
<1>1. Data /\ UNCHANGED <<store, dirs, manifests, prov, containers, listening, stopped, errored>>
  BY DEF BootListDesired, TInv, Variables
<1>2. task[Boot].todo # <<>> BY DEF BootListDesired, At
<1>3. PICK s \in SUBSET Name : s = {k \in Name : store[k] # NoService /\ store[k].desired = "running"} OBVIOUS
<1>4. PICK f : f = UNION {EndpointsAs(n, store[n].man) : n \in s} OBVIOUS
<1>5. f \in SUBSET (Name \X Endpoint)
  <2>1. \A n \in s : EndpointsAs(n, store[n].man) \subseteq Name \X Endpoint
    <3> TAKE n \in s
    <3>1. store[n].man \in Manifest BY <1>1, <1>3 DEF Data, Service
    <3> QED BY <3>1, EndpointsType
  <2> QED BY <1>4, <2>1
<1>6. PICK w : w = Tail(task[Boot].todo) OBVIOUS
<1>7. task' = [task EXCEPT ![Boot] = [task[Boot] EXCEPT !.todo = w, !.found = f]]
  BY <1>3, <1>4, <1>6 DEF BootListDesired, Find
<1>8. task' \in [Caller -> Task] /\ (\A q \in Caller : TaskInv(task'[q])) /\ BootInv'
  BY <1>1, <1>2, <1>5, <1>6, <1>7, LookStep
<1> QED BY <1>1, <1>8 DEF TInv, Variables, Data, Recorded

\* The start listens on one of the endpoints it found.
LEMMA BootListenInv ==
  ASSUME TInv, BootListen
  PROVE  TInv' /\ (Recorded => Recorded')
<1>1. Data /\ UNCHANGED <<store, dirs, manifests, prov, containers, stopped>> BY DEF BootListen, TInv, Variables
<1>2. PICK t \in Task : t = task[Boot] BY DEF TInv, Caller
<1>3. PICK e \in t.found :
        /\ task' = [task EXCEPT ![Boot].found = @ \ {e}]
        /\ \/ listening' = listening \cup {e} /\ UNCHANGED errored
           \/ MayFail /\ errored' = errored \cup {e[1]} /\ UNCHANGED listening
  BY <1>2 DEF BootListen
<1>4. PICK f : f = t.found \ {e} OBVIOUS
<1>5. PICK w : w = t.todo OBVIOUS
<1>6. e \in Name \X Endpoint /\ f \in SUBSET (Name \X Endpoint) BY <1>4 DEF Task
<1>7. task' = [task EXCEPT ![Boot] = [task[Boot] EXCEPT !.todo = w, !.found = f]]
  BY <1>5, <1>2, <1>3, <1>4 DEF Task, TInv
<1>8. task' \in [Caller -> Task] /\ (\A q \in Caller : TaskInv(task'[q])) /\ BootInv'
  BY <1>1, <1>2, <1>5, <1>6, <1>7, LookStep
<1>9. errored' \subseteq Name \cup Id /\ listening' \subseteq Name \X Endpoint
  BY <1>1, <1>3, <1>6 DEF TInv, Variables, Data
<1>10. Data' BY <1>1, <1>9 DEF Data
<1> QED BY <1>1, <1>8, <1>9, <1>10 DEF TInv, Variables, Recorded

\* Processes and containers end, and containers vanish, without the daemon.
LEMMA ExitInv ==
  ASSUME TInv,
         \/ \E n \in Name : ChildExits(n)
         \/ \E i \in Id : ContainerExits(i) \/ ContainerVanishes(i)
  PROVE  TInv' /\ (Recorded => Recorded')
<1>1. Data /\ UNCHANGED <<store, dirs, manifests, listening, task, stopped, errored>>
  BY DEF ChildExits, ContainerExits, ContainerVanishes, TInv, Variables
<1>2. prov' \in [Name -> Entry \cup {NoEntry}] /\ containers' \in [Id -> {"none", "created", "running"}]
  <2>1. ASSUME NEW n \in Name, ChildExits(n)
        PROVE  prov' \in [Name -> Entry \cup {NoEntry}] /\ containers' = containers
    <3>1. prov[n] \in Entry BY <1>1, <2>1 DEF ChildExits, Data
    <3>2. PICK e \in Entry : e = [prov[n] EXCEPT !.child = FALSE] BY <3>1, ChangedEntry
    <3>3. prov' = [prov EXCEPT ![n] = e] /\ containers' = containers BY <1>1, <2>1, <3>2 DEF ChildExits, Data
    <3> QED BY <1>1, <3>3 DEF Data
  <2>2. ASSUME NEW i \in Id, ContainerExits(i) \/ ContainerVanishes(i)
        PROVE  containers' \in [Id -> {"none", "created", "running"}] /\ prov' = prov
    BY <1>1, <2>2 DEF ContainerExits, ContainerVanishes, Data
  <2> QED BY <1>1, <2>1, <2>2 DEF Data
<1>3. Data' /\ BootInv' BY <1>1, <1>2 DEF Data, BootInv, TInv
<1> QED BY <1>1, <1>3 DEF TInv, Variables, Recorded

-----------------------------------------------------------------------------
\* A crash and the start after it.

\* What a crash may leave on disk: everything saved, a save of one service done
\* in part, or a removal done in part.
LEMMA CrashCases ==
  ASSUME TInv, NEW D \in CrashDirs
  PROVE  \/ D = dirs
         \/ \E n \in Name, s \in Service :
              /\ store[n] = NoService \/ store[n].id = s.id
              /\ D = YamlWritten(n, s)
         \/ \E i \in Id : D \in Stateless(i)
<1>1. Data BY DEF TInv, Variables
<1>2. CASE D = dirs BY <1>2
<1>3. ASSUME NEW p \in Caller, At(p, "persist"),
             store[task[p].name] = NoService \/ store[task[p].name].id = task[p].id,
             D = YamlWritten(task[p].name, Persisted(task[p]))
      PROVE  \E n \in Name, s \in Service : /\ store[n] = NoService \/ store[n].id = s.id
                                            /\ D = YamlWritten(n, s)
  <2>1. PICK t \in Task : t = task[p] BY <1>3, AtFacts
  <2>2. t.name \in Name /\ t.man \in Manifest /\ t.id \in Id BY <1>3, <2>1, AtFacts DEF Installs, Loose
  <2>3. PICK s : s = Persisted(t) OBVIOUS
  <2>4. s \in Service /\ s.id = t.id BY <2>2, <2>3 DEF Persisted, Service, Task
  <2>5. store[t.name] = NoService \/ store[t.name].id = s.id BY <1>3, <2>1, <2>4
  <2>6. D = YamlWritten(t.name, s) BY <1>3, <2>1, <2>3
  <2> QED BY <2>2, <2>4, <2>5, <2>6
<1>4. ASSUME NEW p \in Caller, At(p, "desire"), store[task[p].name] # NoService,
             D = YamlWritten(task[p].name, store[task[p].name])
      PROVE  \E n \in Name, s \in Service : /\ store[n] = NoService \/ store[n].id = s.id
                                            /\ D = YamlWritten(n, s)
  <2>1. PICK n \in Name : n = task[p].name BY <1>4, AtFacts DEF Loose
  <2>2. PICK s \in Service : s = store[n] BY <1>1, <1>4, <2>1 DEF Data
  <2> QED BY <1>4, <2>1, <2>2
<1>5. ASSUME NEW p \in Caller, At(p, "forget"), store[task[p].name] # NoService,
             D \in Stateless(store[task[p].name].id)
      PROVE  \E i \in Id : D \in Stateless(i)
  BY <1>5, <1>1, AtFacts DEF Loose, Data, Service
<1> QED BY <1>2, <1>3, <1>4, <1>5 DEF CrashDirs

\* What a crash leaves on disk is of the type of directories.
LEMMA CrashType ==
  ASSUME TInv, NEW D \in CrashDirs
  PROVE  D \in [Id -> Dir \cup {NoDir}]
BY SaveFacts, StatelessFacts, CrashCases DEF TInv, Variables, Data

\* As long as a directory belongs to the record of its name, a crash leaves no
\* two directories of one service: a save done in part has written a directory
\* of the identifier on record, or the first one of the name.
LEMMA CrashLoadable ==
  ASSUME TInv, Recorded, NEW D \in CrashDirs
  PROVE  Loadable(D)
<1>1. Data BY DEF TInv, Variables
<1>2. \A i \in Id : dirs[i] # NoDir => dirs[i].name \in Name BY <1>1 DEF Data, Dir
<1>3. ASSUME \A j \in Id : (D[j] # NoDir) = (dirs[j] # NoDir) /\ (D[j] # NoDir => D[j].name = dirs[j].name)
      PROVE  Loadable(D)
  BY <1>2, <1>3 DEF Recorded, Loadable
<1>4. CASE D = dirs BY <1>3, <1>4
<1>5. ASSUME NEW n \in Name, NEW s \in Service, store[n] = NoService \/ store[n].id = s.id,
             D = YamlWritten(n, s)
      PROVE  Loadable(D)
  <2>1. /\ D[s.id] # NoDir /\ D[s.id].name = n
        /\ \A i \in Id \ {s.id} : D[i] = dirs[i]
    BY <1>1, <1>5, SaveFacts DEF Data
  <2> SUFFICES ASSUME NEW i \in Id, NEW j \in Id, D[i] # NoDir, D[j] # NoDir, D[i].name = D[j].name
               PROVE  i = j
    BY DEF Loadable
  <2>2. ASSUME NEW k \in Id \ {s.id}, D[k] # NoDir PROVE D[k].name # n BY <2>1, <2>2, <1>5 DEF Recorded
  <2>3. ASSUME i # s.id, j # s.id PROVE i = j BY <2>1, <2>3 DEF Recorded
  <2> QED BY <2>1, <2>2, <2>3
<1>6. ASSUME NEW i \in Id, D \in Stateless(i) PROVE Loadable(D) BY <1>1, <1>6, <1>3, StatelessFacts DEF Data
<1> QED BY <1>4, <1>5, <1>6, CrashCases

\* What the start reads back is one record for every directory.
LEMMA LoadedFacts ==
  ASSUME NEW D \in [Id -> Dir \cup {NoDir}], Loadable(D)
  PROVE  /\ Loaded(D) \in [Name -> Service \cup {NoService}]
         /\ \A i \in Id : D[i] # NoDir =>
              /\ D[i].name \in Name
              /\ Loaded(D)[D[i].name] # NoService /\ Loaded(D)[D[i].name].id = i
              /\ Loaded(D)[D[i].name].man = D[i].man
         /\ \A n \in Name : Loaded(D)[n] # NoService =>
              \E i \in Id : D[i] # NoDir /\ D[i].name = n /\ Loaded(D)[n].id = i /\ Loaded(D)[n].man = D[i].man
<1>1. ASSUME NEW n \in Name
      PROVE  \/ /\ Loaded(D)[n] = NoService
                /\ ~ \E i \in Id : D[i] # NoDir /\ D[i].name = n
             \/ \E i \in Id : /\ D[i] # NoDir /\ D[i].name = n /\ Loaded(D)[n] \in Service
                              /\ Loaded(D)[n].id = i /\ Loaded(D)[n].man = D[i].man
  <2>1. CASE \E i \in Id : D[i] # NoDir /\ D[i].name = n
    <3>1. PICK i \in Id : i = (CHOOSE j \in Id : D[j] # NoDir /\ D[j].name = n) /\ D[i] # NoDir /\ D[i].name = n
      BY <2>1
    <3>2. PICK s : s = [id |-> i, man |-> D[i].man, desired |-> D[i].desired] OBVIOUS
    <3>3. s \in Service /\ s.id = i /\ s.man = D[i].man BY <3>1, <3>2 DEF Service, Dir
    <3>4. Loaded(D)[n] = s BY <2>1, <3>1, <3>2 DEF Loaded
    <3> QED BY <3>1, <3>3, <3>4
  <2>2. CASE ~ \E i \in Id : D[i] # NoDir /\ D[i].name = n BY <2>2 DEF Loaded
  <2> QED BY <2>1, <2>2
<1>2. Loaded(D) \in [Name -> Service \cup {NoService}] BY <1>1 DEF Loaded
<1>3. ASSUME NEW i \in Id, D[i] # NoDir
      PROVE  /\ D[i].name \in Name
             /\ Loaded(D)[D[i].name] # NoService /\ Loaded(D)[D[i].name].id = i
             /\ Loaded(D)[D[i].name].man = D[i].man
  <2>1. D[i].name \in Name BY <1>3 DEF Dir
  <2>2. PICK j \in Id : D[j] # NoDir /\ D[j].name = D[i].name /\ Loaded(D)[D[i].name] \in Service
                        /\ Loaded(D)[D[i].name].id = j /\ Loaded(D)[D[i].name].man = D[j].man
    BY <1>1, <1>3, <2>1
  <2>3. j = i BY <1>3, <2>2 DEF Loadable
  <2> QED BY <2>1, <2>2, <2>3, RuntimeAssumption
<1> QED BY <1>1, <1>2, <1>3

\* A start succeeds on directories with different names, and after it every
\* directory belongs to the record of its name.
LEMMA RestartInv ==
  ASSUME TInv, Restart
  PROVE  TInv' /\ Recorded'
<1>1. PICK D \in CrashDirs :
        /\ Loadable(D) /\ dirs' = D /\ store' = Loaded(D)
        /\ task' = [p \in Caller |-> IF p # Boot THEN Idle ELSE
             [BootTask EXCEPT !.rest = {n \in Name : Loaded(D)[n] # NoService}]]
  BY DEF Restart
<1>2. D \in [Id -> Dir \cup {NoDir}] BY CrashType
<1>3. /\ Loaded(D) \in [Name -> Service \cup {NoService}]
      /\ \A i \in Id : D[i] # NoDir =>
           /\ D[i].name \in Name
           /\ Loaded(D)[D[i].name] # NoService /\ Loaded(D)[D[i].name].id = i
  BY <1>1, <1>2, LoadedFacts
<1>4. Recorded' BY <1>1, <1>3 DEF Recorded
<1>5. Data' BY <1>1, <1>2, <1>3 DEF Restart, TInv, Variables, Data
<1>6. errored' \subseteq Name \cup Id BY DEF ContainersOf, Restart
<1>7. PICK R : R = {n \in Name : Loaded(D)[n] # NoService} OBVIOUS
<1>8. PICK w : w = <<"next">> OBVIOUS
<1>9. PICK u : u = [BootTask EXCEPT !.rest = R] OBVIOUS
<1>10. u = [op |-> "boot", todo |-> w, name |-> NoName, man |-> NoManifest, prev |-> NoManifest,
            id |-> NoId, desired |-> "stopped", rest |-> R, found |-> {}]
  BY <1>8, <1>9 DEF BootTask, Idle
<1>11. w \in Seq(StepName) /\ w \in Seq(Loose) /\ w \in Seq(StepName \ {"forget"}) BY <1>8 DEF StepName, Loose
<1>12. u \in Task BY <1>7, <1>10, <1>11 DEF Task, DesiredState
<1>13. u.op = "boot" /\ u.todo = w /\ u.rest = R BY <1>10
<1>14. Loose \subseteq Allowed(u) BY DEF Loose, Allowed, Installs, StepName
<1>15. u.todo \in Seq(Allowed(u)) BY <1>11, <1>13, <1>14
<1>16. TaskInv(u) BY <1>12, <1>13, <1>15 DEF TaskInv
<1>17. task' = [p \in Caller |-> IF p # Boot THEN Idle ELSE u] BY <1>1, <1>7, <1>9
<1>18. Idle \in Task /\ TaskInv(Idle) BY IdleFacts DEF TaskInv
<1>19. task' \in [Caller -> Task] /\ \A p \in Caller : TaskInv(task'[p]) BY <1>12, <1>16, <1>17, <1>18
<1>20. task'[Boot] = u /\ \A p \in Proc : task'[p] = Idle BY <1>17, RuntimeAssumption DEF Caller
<1>21. \A n \in R : store'[n] # NoService BY <1>1, <1>7
<1>22. BootInv' BY <1>11, <1>13, <1>20, <1>21, IdleFacts DEF BootInv
<1> QED BY <1>4, <1>5, <1>6, <1>19, <1>22 DEF TInv, Variables

\* Where nothing fails, a removal takes the directory with the record.
LEMMA ForgetTakesDirectory ==
  ASSUME TInv, ~ MayFail, NEW p \in Caller, Forget(p)
  PROVE  RecordGoesWithDirectory
<1>1. PICK n \in Name : n = task[p].name BY AtFacts DEF Forget, Loose
<1>2. Data BY DEF TInv, Variables
<1>3. store' = [store EXCEPT ![n] = NoService] BY <1>1 DEF Forget
<1>4. dirs' = IF store[n] = NoService THEN dirs ELSE [dirs EXCEPT ![store[n].id] = NoDir] BY <1>1 DEF Forget
<1>5. store[n] # NoService => store[n].id \in Id BY <1>2 DEF Data, Service
<1> SUFFICES ASSUME NEW k \in Name, store[k] # NoService, store'[k] = NoService
             PROVE  dirs'[store[k].id] = NoDir
  BY DEF RecordGoesWithDirectory
<1>6. k = n BY <1>2, <1>3 DEF Data
<1> QED BY <1>2, <1>4, <1>5, <1>6 DEF Data

\* The first start, with nothing on disk, satisfies the invariant.
LEMMA InitInv == Init => IInv
<1> SUFFICES ASSUME Init PROVE IInv OBVIOUS
<1>1. Variables /\ Recorded BY DEF Init, Variables, Data, Recorded
<1>2. PICK w : w = <<"next">> OBVIOUS
<1>3. PICK u : u = [Idle EXCEPT !.op = "boot", !.todo = w] OBVIOUS
<1>4. u = BootTask BY <1>2, <1>3 DEF BootTask
<1>5. u = [op |-> "boot", todo |-> w, name |-> NoName, man |-> NoManifest, prev |-> NoManifest,
                  id |-> NoId, desired |-> "stopped", rest |-> {}, found |-> {}]
  BY <1>3 DEF Idle
<1>6. w \in Seq(StepName) /\ w \in Seq(Loose) /\ w \in Seq(StepName \ {"forget"}) BY <1>2 DEF StepName, Loose
<1>7. u \in Task BY <1>5, <1>6 DEF Task, DesiredState
<1>8. u.op = "boot" /\ u.todo = w /\ u.rest = {} BY <1>5
<1>9. Loose \subseteq Allowed(u) BY DEF Loose, Allowed, Installs, StepName
<1>10. u.todo \in Seq(Allowed(u)) BY <1>6, <1>8, <1>9
<1>11. TaskInv(u) BY <1>7, <1>8, <1>10 DEF TaskInv
<1>12. Idle \in Task /\ TaskInv(Idle) BY IdleFacts DEF TaskInv
<1>13. task \in [Caller -> Task] /\ \A p \in Caller : TaskInv(task[p]) BY <1>4, <1>7, <1>11, <1>12 DEF Init
<1>14. task[Boot] = u /\ \A p \in Proc : task[p] = Idle BY <1>4, RuntimeAssumption DEF Init, Caller
<1>15. BootInv BY <1>6, <1>8, <1>14, IdleFacts DEF BootInv
<1> QED BY <1>1, <1>13, <1>15 DEF IInv, TInv

\* Every step keeps the types, and Recorded unless a record is dropped whose
\* directory stays.
LEMMA NextInv ==
  ASSUME TInv, [Next]_vars
  PROVE  TInv' /\ (Recorded /\ (~ MayFail \/ RecordGoesWithDirectory) => Recorded')
<1>1. ASSUME NEW p \in Proc, NEW n \in Name,
             \/ StartBegin(p, n) \/ StopBegin(p, n) \/ RemoveBegin(p, n) \/ InspectBegin(p, n)
             \/ \E m \in Manifest, i \in Id : ApplyBegin(p, n, m, i)
      PROVE  TInv' /\ (Recorded => Recorded')
  BY <1>1, StartBeginInv, StopBeginInv, RemoveBeginInv, InspectBeginInv, ApplyBeginInv
<1>2. ASSUME NEW p \in Caller, Step(p)
      PROVE  TInv' /\ (Recorded /\ (~ MayFail \/ RecordGoesWithDirectory) => Recorded')
  <2>1. TInv' /\ (Recorded /\ RecordGoesWithDirectory => Recorded') BY <1>2, StepInv
  <2>2. CASE Forget(p) BY <2>1, <2>2, ForgetTakesDirectory
  <2>3. CASE ~ Forget(p)
    BY <1>2, <2>3, <2>1, PersistInv, DesireInv DEF Step, Resolve, Ensure, Restore, Spawn, Take, Reap, Drop, Build,
       Publish, Unpublish, Unlisten, Listen, DockerCreate, DockerStart, DockerStop, DockerRemove, DockerInspect,
       Request, Tolerate, Recorded
  <2> QED BY <2>2, <2>3
<1>3. ASSUME NEW n \in Name, BootNext(n) \/ ChildExits(n)
      PROVE  TInv' /\ (Recorded => Recorded')
  BY <1>3, BootNextInv, ExitInv
<1>4. ASSUME NEW i \in Id, ContainerExits(i) \/ ContainerVanishes(i)
      PROVE  TInv' /\ (Recorded => Recorded')
  BY <1>4, ExitInv
<1>5. ASSUME BootRestored \/ BootListRunning \/ BootListDesired \/ BootListen \/ Restart
      PROVE  TInv' /\ (Recorded => Recorded')
  BY <1>5, BootRestoredInv, BootListRunningInv, BootListDesiredInv, BootListenInv, RestartInv
<1>6. ASSUME UNCHANGED vars
      PROVE  TInv' /\ (Recorded => Recorded')
  BY <1>6 DEF vars, TInv, Variables, Data, BootInv, Recorded
<1> QED BY <1>1, <1>2, <1>3, <1>4, <1>5, <1>6 DEF Next

\* Records, directories, manifests, entries, containers, listeners and calls
\* have their types in every reachable state, also where anything fails.
THEOREM TypeCorrect == Spec => []TypeOK
<1>1. Init => TInv BY InitInv DEF IInv
<1>2. TInv /\ [Next]_vars => TInv' BY NextInv
<1>3. TInv => TypeOK BY DEF TInv, Variables, Data, TypeOK
<1> QED BY <1>1, <1>2, <1>3, PTL DEF Spec

\* The inductive invariant of the runtime holds as long as no record is dropped
\* whose directory could not be removed; with failures of every other kind,
\* calls that overlap in any way, and crashes.
THEOREM Inductive == Spec /\ [][RecordGoesWithDirectory]_vars => []IInv
<1>1. IInv /\ [Next]_vars /\ [RecordGoesWithDirectory]_vars => IInv'
  <2>1. CASE UNCHANGED vars BY <2>1, NextInv DEF vars, Recorded, IInv
  <2>2. CASE ~ UNCHANGED vars BY <2>2, NextInv DEF IInv
  <2> QED BY <2>1, <2>2
<1> QED BY <1>1, InitInv, PTL DEF Spec

\* What Recorded says of the directories makes every outcome of a crash
\* loadable.
LEMMA AlwaysLoadableFromInv == IInv => AlwaysLoadable
  BY CrashLoadable DEF IInv, AlwaysLoadable

\* The daemon can always start on what it, or a crash, has left on disk, unless
\* a removal has dropped a record and failed to remove its directory
\* (service_state.rs drops the record first and returns the error of
\* remove_dir_all).
THEOREM StartsAgain == Spec /\ [][RecordGoesWithDirectory]_vars => []AlwaysLoadable
  BY Inductive, AlwaysLoadableFromInv, PTL

\* Where no operation fails, which is how the run checks it, the daemon can
\* always start on what is on disk, for any number of callers, services,
\* manifests and crashes.
THEOREM StartsAgainWithoutFailures ==
  ASSUME ~ MayFail
  PROVE  Spec => []AlwaysLoadable
<1>1. IInv /\ [Next]_vars => IInv' BY NextInv DEF IInv
<1> QED BY <1>1, InitInv, AlwaysLoadableFromInv, PTL DEF Spec

\* A manifest fits itself, and what fits a fitting one fits too.
LEMMA FitsOrder ==
  /\ \A m \in Manifest : Fits(m, m)
  /\ \A a, b, c \in Manifest : Fits(a, b) /\ Fits(b, c) => Fits(a, c)
  BY DEF Fits

\* The steps of two plans one after the other.
LEMMA ConcatFacts ==
  ASSUME NEW S, NEW a \in Seq(S), NEW b \in Seq(S)
  PROVE  /\ Len(a \o b) = Len(a) + Len(b) /\ Len(a) \in Nat /\ Len(b) \in Nat
         /\ \A i \in 1..(Len(a) + Len(b)) : (a \o b)[i] = IF i <= Len(a) THEN a[i] ELSE b[i - Len(a)]
  OBVIOUS

\* A plan stays in order when its first step is done, and has nothing more to
\* install once a step is reached that installs nothing and is not allowed
\* before one that does.
LEMMA OrderedTail ==
  ASSUME NEW s \in Seq(StepName), s # <<>>
  PROVE  /\ Ordered(s) => Ordered(Tail(s))
         /\ \A steps : Has(Tail(s), steps) => Has(s, steps)
         /\ Ordered(s) /\ Head(s) \notin Before => ~ Has(s, Installing)
         /\ \A h \in Before : Ordered(s) => Ordered(<<h>> \o Tail(s))
         /\ \A h \in StepName \ Installing : Has(<<h>> \o Tail(s), Installing) => Has(s, Installing)
         /\ \A h \in StepName \ Installing : Has(<<h>> \o Tail(s), {"persist"}) => Has(s, {"persist"})
<1>1. /\ Len(s) \in Nat \ {0} /\ Tail(s) \in Seq(StepName) /\ Len(Tail(s)) = Len(s) - 1
      /\ \A i \in 1..Len(Tail(s)) : i + 1 \in 1..Len(s) /\ Tail(s)[i] = s[i + 1]
      /\ Head(s) = s[1]
  OBVIOUS
<1>2. Ordered(s) => Ordered(Tail(s))
  <2> SUFFICES ASSUME Ordered(s), NEW i \in 1..Len(Tail(s)), Tail(s)[i] \in Installing,
                      NEW j \in 1..i
               PROVE  Tail(s)[j] \in Before
    BY DEF Ordered
  <2>1. j \in 1..Len(Tail(s)) /\ s[i + 1] \in Installing /\ j + 1 \in 1..(i + 1) BY <1>1
  <2> QED BY <1>1, <2>1 DEF Ordered
<1>3. ASSUME NEW steps, Has(Tail(s), steps) PROVE Has(s, steps) BY <1>1, <1>3 DEF Has
<1>4. Ordered(s) /\ Head(s) \notin Before => ~ Has(s, Installing)
  <2> SUFFICES ASSUME Ordered(s), NEW i \in 1..Len(s), s[i] \in Installing
               PROVE  Head(s) \in Before
    BY DEF Has
  <2>1. 1 \in 1..i BY <1>1
  <2> QED BY <1>1, <2>1 DEF Ordered
<1>5. ASSUME NEW h \in StepName
      PROVE  /\ Len(<<h>> \o Tail(s)) = Len(s) /\ (<<h>> \o Tail(s))[1] = h
             /\ \A i \in 1..Len(s) : i # 1 => (<<h>> \o Tail(s))[i] = s[i]
  <2>1. PICK a : a = <<h>> OBVIOUS
  <2>2. a \in Seq(StepName) /\ Len(a) = 1 /\ a[1] = h BY <2>1
  <2>3. PICK b \in Seq(StepName) : b = Tail(s) /\ Len(b) = Len(s) - 1 BY <1>1
  <2>4. /\ Len(a \o b) = Len(a) + Len(b)
        /\ \A i \in 1..(Len(a) + Len(b)) : (a \o b)[i] = IF i <= Len(a) THEN a[i] ELSE b[i - Len(a)]
    BY <2>2, <2>3, ConcatFacts
  <2>5. /\ Len(a \o b) = Len(s)
        /\ \A i \in 1..Len(s) : (a \o b)[i] = IF i = 1 THEN h ELSE s[i]
    BY <1>1, <2>2, <2>3, <2>4
  <2> QED BY <1>1, <2>1, <2>3, <2>5
<1>6. Before \subseteq StepName BY DEF Before, Installing, StepName
<1>7. ASSUME NEW h \in Before, Ordered(s) PROVE Ordered(<<h>> \o Tail(s))
  <2>1. PICK r : r = <<h>> \o Tail(s) OBVIOUS
  <2>2. Len(r) = Len(s) /\ r[1] = h /\ \A i \in 1..Len(s) : i # 1 => r[i] = s[i] BY <1>5, <1>6, <2>1
  <2>3. ASSUME NEW i \in 1..Len(s), r[i] \in Installing, NEW j \in 1..i PROVE r[j] \in Before
    <3>1. CASE j = 1 BY <2>2, <3>1
    <3>2. CASE j # 1 BY <1>1, <2>2, <2>3, <3>2, <1>7 DEF Ordered
    <3> QED BY <3>1, <3>2
  <2> QED BY <2>1, <2>2, <2>3 DEF Ordered
<1>8. ASSUME NEW h \in StepName \ Installing, NEW steps \in SUBSET Installing, Has(<<h>> \o Tail(s), steps)
      PROVE  Has(s, steps)
  <2>1. PICK r : r = <<h>> \o Tail(s) OBVIOUS
  <2>2. Len(r) = Len(s) /\ r[1] = h /\ \A i \in 1..Len(s) : i # 1 => r[i] = s[i] BY <1>5, <2>1
  <2> QED BY <1>8, <2>1, <2>2 DEF Has
<1>9. {"persist"} \in SUBSET Installing /\ Installing \in SUBSET Installing BY DEF Installing
<1> QED BY <1>2, <1>3, <1>4, <1>7, <1>8, <1>9

\* A plan without a step that installs is in order.
LEMMA NothingInstalled ==
  ASSUME NEW s \in Seq(StepName \ Installing)
  PROVE  Ordered(s) /\ ~ Has(s, Installing) /\ ~ Has(s, {"persist"})
BY DEF Ordered, Has, Installing

\* A plan is in order that installs first and then does nothing of the kind.
LEMMA InOrder ==
  ASSUME NEW a \in Seq(Before), NEW b \in Seq(StepName \ Installing)
  PROVE  Ordered(a \o b)
<1>1. PICK r : r = a \o b OBVIOUS
<1>2. /\ Len(r) = Len(a) + Len(b) /\ Len(a) \in Nat /\ Len(b) \in Nat
      /\ \A i \in 1..Len(r) : r[i] = IF i <= Len(a) THEN a[i] ELSE b[i - Len(a)]
  BY <1>1
<1>3. (\A i \in 1..Len(a) : a[i] \in Before) /\ \A i \in 1..Len(b) : b[i] \in StepName \ Installing OBVIOUS
<1>4. ASSUME NEW i \in 1..Len(r), r[i] \in Installing, NEW j \in 1..i PROVE r[j] \in Before
  <2>1. i <= Len(a)
    <3> SUFFICES ASSUME ~ i <= Len(a) PROVE FALSE OBVIOUS
    <3>1. i - Len(a) \in 1..Len(b) /\ r[i] = b[i - Len(a)] BY <1>2
    <3> QED BY <1>3, <1>4, <3>1
  <2>2. j \in 1..Len(a) /\ r[j] = a[j] BY <1>2, <2>1
  <2> QED BY <1>3, <2>2
<1> QED BY <1>1, <1>4 DEF Ordered

\* An apply does all it does before it saves its record without reading another
\* manifest.
LEMMA PlanInOrder ==
  ASSUME NEW prev, NEW m, NEW d
  PROVE  Ordered(ApplyPlan(prev, m, d))
<1>1. PICK a : a = IF prev # NoManifest THEN ReplacePlan(prev, d) ELSE <<>> OBVIOUS
<1>2. PICK b : b = IF prev # NoManifest THEN <<"take", "drop">> ELSE <<>> OBVIOUS
<1>3. PICK e : e = CASE Wasm(m) -> b \o <<"build">> [] Docker(m) -> <<"docker_create">> [] OTHER -> <<>> OBVIOUS
<1>4. PICK f : f = CASE Wasm(m) -> <<"try_ensure">> [] Docker(m) -> <<"docker_inspect">> [] OTHER -> <<>> OBVIOUS
<1>5. PICK g : g = IF d = "running" THEN StartPlan(m) \o f \o <<"unlisten", "listen">> ELSE <<>> OBVIOUS
<1>6. ApplyPlan(prev, m, d) = a \o e \o <<"publish", "persist">> \o g BY <1>1, <1>2, <1>3, <1>4, <1>5 DEF ApplyPlan
<1>7. PICK S : /\ S = Before
                /\ {"take", "drop", "docker_stop", "docker_remove", "build", "docker_create", "publish",
                    "persist"} \subseteq S
  BY DEF Before, Installing
<1>8. PICK T : T = StepName \ Installing OBVIOUS
<1>9. /\ {"ensure", "spawn", "desire", "docker_start", "try_ensure", "docker_inspect", "unlisten",
            "listen"} \subseteq T
  BY <1>8 DEF StepName, Installing
<1>10. a \in Seq(S) BY <1>1, <1>7, ReplacePlanType
<1>11. b \in Seq(S) /\ <<"build">> \in Seq(S) BY <1>2, <1>7
<1>12. b \o <<"build">> \in Seq(S) BY <1>11, ConcatType
<1>13. e \in Seq(S) BY <1>3, <1>7, <1>12
<1>14. f \in Seq(T) /\ StartPlan(m) \in Seq(T) /\ <<"unlisten", "listen">> \in Seq(T) BY <1>4, <1>9, StartPlanType
<1>15. StartPlan(m) \o f \in Seq(T) BY <1>14, ConcatType
<1>16. StartPlan(m) \o f \o <<"unlisten", "listen">> \in Seq(T) BY <1>14, <1>15, ConcatType
<1>17. g \in Seq(T) BY <1>5, <1>16
<1>18. <<"publish", "persist">> \in Seq(S) BY <1>7
<1>19. a \o e \in Seq(S) BY <1>10, <1>13, ConcatType
<1>20. a \o e \o <<"publish", "persist">> \in Seq(S) BY <1>18, <1>19, ConcatType
<1> QED BY <1>6, <1>7, <1>8, <1>17, <1>20, InOrder

\* Wherever a save stops, a directory is replaced only by one that fits, and
\* that of the record fits the record.
LEMMA SavedFits ==
  ASSUME Data, RecordsFit, NEW n \in Name, NEW s \in Service, Savable(n, s),
         NEW D \in {dirs, Written(n, s), YamlWritten(n, s)}
  PROVE  /\ \A i \in Id : dirs[i] # NoDir /\ D[i] # NoDir => Fits(dirs[i].man, D[i].man)
         /\ D[s.id] # NoDir => Fits(D[s.id].man, s.man)
         /\ \A i \in Id \ {s.id} : D[i] = dirs[i]
<1>1. /\ s.id \in Id
      /\ \A E \in {Written(n, s), YamlWritten(n, s)} :
           /\ E[s.id] # NoDir /\ E[s.id].name = n /\ E[s.id].man = s.man
           /\ \A i \in Id \ {s.id} : E[i] = dirs[i]
  BY SaveFacts DEF Data
<1>2. s.man \in Manifest /\ \A i \in Id : dirs[i] # NoDir => dirs[i].man \in Manifest BY DEF Data, Dir, Service
<1>3. dirs[s.id] # NoDir => Fits(dirs[s.id].man, s.man)
  <2>1. CASE store[n] = NoService BY <2>1 DEF Savable, Unused
  <2>2. CASE store[n] # NoService BY <2>2, <1>1, <1>2, FitsOrder DEF Savable, Data, Service, RecordsFit
  <2> QED BY <2>1, <2>2
<1>4. CASE D = dirs BY <1>2, <1>3, <1>4, FitsOrder
<1>5. CASE D \in {Written(n, s), YamlWritten(n, s)} BY <1>1, <1>2, <1>3, <1>5, FitsOrder
<1> QED BY <1>4, <1>5

\* After a save every record has an identifier of its own and a directory that
\* fits.
LEMMA SaveFits ==
  ASSUME Data, RecordsFit, NEW n \in Name, NEW s \in Service, Savable(n, s),
         store' = [store EXCEPT ![n] = s],
         dirs' \in {dirs, Written(n, s), YamlWritten(n, s)}
  PROVE  /\ RecordsFit' /\ Kept
         /\ store'[n] = s /\ s # NoService
<1>1. /\ \A i \in Id : dirs[i] # NoDir /\ dirs'[i] # NoDir => Fits(dirs[i].man, dirs'[i].man)
      /\ dirs'[s.id] # NoDir => Fits(dirs'[s.id].man, s.man)
      /\ \A i \in Id \ {s.id} : dirs'[i] = dirs[i]
  BY SavedFits
<1>2. store'[n] = s /\ s # NoService /\ \A m \in Name \ {n} : store'[m] = store[m] BY RuntimeAssumption DEF Data
<1>3. \A m \in Name \ {n} : store[m] # NoService => store[m].id \in Id \ {s.id}
  BY DEF Savable, Unused, RecordsFit, Data, Service
<1>4. \A k, m \in Name : store'[k] # NoService /\ store'[m] # NoService /\ store'[k].id = store'[m].id => k = m
  BY <1>2, <1>3 DEF RecordsFit
<1>5. \A m \in Name : store'[m] # NoService /\ dirs'[store'[m].id] # NoDir =>
        Fits(dirs'[store'[m].id].man, store'[m].man)
  BY <1>1, <1>2, <1>3 DEF RecordsFit
<1> QED BY <1>1, <1>2, <1>4, <1>5 DEF RecordsFit, Kept, Fits

\* An apply may save its record, and any call may change the desired state.
LEMMA PersistSavable ==
  ASSUME DInv, NEW p \in Caller, At(p, "persist"),
         store[task[p].name] = NoService \/ store[task[p].name].id = task[p].id
  PROVE  /\ p \in Proc /\ task[p].name \in Name /\ Persisted(task[p]) \in Service
         /\ Savable(task[p].name, Persisted(task[p]))
<1>1. PICK t \in Task : t = task[p] BY AtFacts DEF DInv
<1>2. t.todo # <<>> /\ t.name \in Name /\ t.man \in Manifest /\ t.id \in Id /\ Head(t.todo) = "persist"
  BY <1>1, AtFacts DEF DInv, Loose, Installs
<1>3. t.todo \in Seq(StepName) /\ Len(t.todo) \in Nat \ {0} /\ t.todo[1] = "persist" BY <1>2 DEF Task
<1>4. p \in Proc BY <1>1, <1>2 DEF DInv, BootFits, Installing, Caller
<1>5. Has(t.todo, Installing) /\ Has(t.todo, {"persist"}) BY <1>3 DEF Has, Installing
<1>6. CallFits(t) BY <1>1, <1>4 DEF DInv
<1>7. PICK s : s = Persisted(t) OBVIOUS
<1>8. s \in Service /\ s.id = t.id /\ s.man = t.man BY <1>2, <1>7 DEF Persisted, Service, Task
<1>9. Savable(t.name, s) BY <1>5, <1>6, <1>8 DEF CallFits, Savable
<1> QED BY <1>1, <1>2, <1>4, <1>7, <1>8, <1>9

\* The record of a service, and the record with another desired state, may be
\* saved at any time.
LEMMA DesireSavable ==
  ASSUME DInv, NEW p \in Caller, At(p, "desire"), store[task[p].name] # NoService
  PROVE  /\ task[p].name \in Name
         /\ \A s \in {store[task[p].name], Desired(task[p])} :
              s \in Service /\ Savable(task[p].name, s)
<1>1. PICK t \in Task : t = task[p] BY AtFacts DEF DInv
<1>2. t.name \in Name /\ t.desired \in DesiredState BY <1>1, AtFacts DEF DInv, Loose, Task
<1>3. PICK r \in Service : r = store[t.name] BY <1>1, <1>2 DEF DInv, TInv, Variables, Data
<1>4. PICK s : s = [r EXCEPT !.desired = t.desired] OBVIOUS
<1>5. s \in Service /\ s.id = r.id /\ s.man = r.man BY <1>2, <1>4 DEF Service
<1>6. s = Desired(t) BY <1>3, <1>4 DEF Desired
<1>7. Fits(r.man, r.man) BY FitsOrder DEF Service
<1>8. Savable(t.name, r) /\ Savable(t.name, s) BY <1>1, <1>3, <1>5, <1>7 DEF Savable
<1> QED BY <1>1, <1>2, <1>3, <1>5, <1>6, <1>8

\* A crash replaces a directory only by one that fits.
LEMMA CrashFits ==
  ASSUME DInv, NEW D \in CrashDirs
  PROVE  \A i \in Id : dirs[i] # NoDir /\ D[i] # NoDir => Fits(dirs[i].man, D[i].man)
<1>1. Data /\ RecordsFit BY DEF DInv, TInv, Variables
<1>2. \A i \in Id : dirs[i] # NoDir => Fits(dirs[i].man, dirs[i].man) BY <1>1, FitsOrder DEF Data, Dir
<1>3. CASE D = dirs BY <1>2, <1>3
<1>4. ASSUME NEW p \in Caller, At(p, "persist"),
             store[task[p].name] = NoService \/ store[task[p].name].id = task[p].id,
             D = YamlWritten(task[p].name, Persisted(task[p]))
      PROVE  \A i \in Id : dirs[i] # NoDir /\ D[i] # NoDir => Fits(dirs[i].man, D[i].man)
  BY <1>1, <1>4, PersistSavable, SavedFits
<1>5. ASSUME NEW p \in Caller, At(p, "desire"), store[task[p].name] # NoService,
             D = YamlWritten(task[p].name, store[task[p].name])
      PROVE  \A i \in Id : dirs[i] # NoDir /\ D[i] # NoDir => Fits(dirs[i].man, D[i].man)
  BY <1>1, <1>5, DesireSavable, SavedFits
<1>6. ASSUME NEW p \in Caller, At(p, "forget"), store[task[p].name] # NoService,
             D \in Stateless(store[task[p].name].id)
      PROVE  \A i \in Id : dirs[i] # NoDir /\ D[i] # NoDir => Fits(dirs[i].man, D[i].man)
  BY <1>6, <1>1, <1>2, AtFacts, StatelessFacts DEF DInv, Loose, Data, Service, Fits
<1> QED BY <1>3, <1>4, <1>5, <1>6 DEF CrashDirs

\* A caller that takes a step leaves what the others rely on: there is no other
\* call, and while the start still changes records there is no call at all.
LEMMA StepFits ==
  ASSUME OneCaller, DInv, TInv', RecordsFit', NEW p \in Caller, NEW u,
         task' = [task EXCEPT ![p] = u],
         p = Boot => BootFits(u) /\ (task[Boot].op = "boot" \/ UNCHANGED <<store, dirs>>),
         p \in Proc => CallFits(u)'
  PROVE  DInv'
<1>1. /\ task \in [Caller -> Task] /\ Boot \in Caller /\ Boot \notin Proc
      /\ \A q \in Proc : q \in Caller
  BY RuntimeAssumption DEF DInv, TInv, Caller
<1>2. task'[p] = u /\ \A q \in Caller \ {p} : task'[q] = task[q] BY <1>1
<1>3. CASE p = Boot
  <2>1. \A q \in Proc : task'[q] = task[q] BY <1>1, <1>2, <1>3
  <2>2. CASE UNCHANGED <<store, dirs>>
    <3>1. ASSUME NEW q \in Proc PROVE CallFits(task[q])'
      <4>1. PICK t : t = task[q] /\ t = task'[q] BY <2>1
      <4>2. CallFits(t) BY <4>1 DEF DInv
      <4>3. CallFits(t)' BY <2>2, <4>2 DEF CallFits, Unused
      <4> QED BY <4>1, <4>3 DEF CallFits
    <3>2. BootFits(task[Boot])' BY <1>2, <1>3 DEF BootFits
    <3> QED BY <3>1, <3>2 DEF DInv
  <2>3. CASE task[Boot].op = "boot"
    <3>1. \A q \in Proc : task'[q] = Idle BY <2>1, <2>3 DEF DInv, TInv, BootInv
    <3>2. <<>> \in Seq(StepName \ Installing) /\ Idle.todo = <<>> BY IdleFacts
    <3>3. Ordered(Idle.todo) /\ ~ Has(Idle.todo, Installing) /\ ~ Has(Idle.todo, {"persist"})
      BY <3>2, NothingInstalled
    <3> QED BY <1>2, <1>3, <3>1, <3>3 DEF DInv, CallFits
  <2> QED BY <1>3, <2>2, <2>3
<1>4. CASE p \in Proc BY <1>4, <1>1, <1>2 DEF OneCaller, DInv, CallFits
<1> QED BY <1>3, <1>4 DEF Caller

\* The next step of the start is one of the start's.
LEMMA BootAdvances ==
  ASSUME DInv, task[Boot].todo # <<>>, NEW u \in {Advanced(task[Boot]), Ended(task[Boot])}
  PROVE  BootFits(u)
<1>1. PICK t \in Task : t = task[Boot] /\ TaskInv(t) /\ BootFits(t) /\ t.op \in {"idle", "boot"}
  BY DEF DInv, TInv, BootInv, Caller
<1>2. "next" \in StepName \ Installing /\ "next" \in Looks BY DEF StepName, Installing, Looks
<1>3. /\ u.op \in {t.op, "idle"} /\ (t.op = "boot" => u.op = "boot")
      /\ \A S : t.todo \in Seq(S) /\ "next" \in S => u.todo \in Seq(S)
  BY <1>1, AdvancedFacts
<1> QED BY <1>1, <1>2, <1>3 DEF BootFits

\* A call that goes on or returns installs nothing it did not have to install
\* before.
LEMMA CallAdvances ==
  ASSUME DInv, NEW p \in Proc, NEW t \in Task, t = task[p], t.todo # <<>>, NEW u \in {Advanced(t), Ended(t)}
  PROVE  /\ Ordered(u.todo)
         /\ \A steps : Has(u.todo, steps) => Has(t.todo, steps) /\ u.name = t.name /\ u.id = t.id /\ u.man = t.man
         /\ Head(t.todo) \notin Before => ~ Has(u.todo, Installing) /\ ~ Has(u.todo, {"persist"})
<1>1. Ordered(t.todo) /\ t.todo \in Seq(StepName) /\ t.op # "boot" BY DEF DInv, CallFits, Task, TInv, BootInv
<1>2. CASE u = [t EXCEPT !.todo = Tail(@)]
  <2>1. u.todo = Tail(t.todo) /\ u.name = t.name /\ u.id = t.id /\ u.man = t.man BY <1>2 DEF Task
  <2>2. /\ Ordered(u.todo) /\ \A steps : Has(u.todo, steps) => Has(t.todo, steps)
        /\ Head(t.todo) \notin Before => ~ Has(t.todo, Installing)
    BY <1>1, <2>1, OrderedTail
  <2>3. Has(u.todo, {"persist"}) => Has(u.todo, Installing) BY DEF Has, Installing
  <2> QED BY <2>1, <2>2, <2>3
<1>3. CASE u = Idle BY <1>3, IdleFacts DEF Ordered, Has
<1>4. u = [t EXCEPT !.todo = Tail(@)] \/ u = Idle BY <1>1 DEF Advanced, Ended
<1> QED BY <1>2, <1>3, <1>4

\* What becomes of the task of a caller that goes on or returns.
LEMMA MovesTo ==
  ASSUME NEW p \in Caller, Moves(p)
  PROVE  \E u \in {Advanced(task[p]), Ended(task[p])} : task' = [task EXCEPT ![p] = u]
  BY DEF Moves, Abort

\* A step that leaves records and directories alone.
LEMMA PlainFits ==
  ASSUME OneCaller, DInv, TInv', NEW p \in Caller, task[p].todo # <<>>, Moves(p), UNCHANGED <<store, dirs>>
  PROVE  DInv'
<1>1. PICK t \in Task : t = task[p] BY DEF DInv, TInv
<1>2. PICK u \in {Advanced(t), Ended(t)} : task' = [task EXCEPT ![p] = u] BY <1>1, MovesTo
<1>3. RecordsFit' BY DEF DInv, RecordsFit
<1>4. p = Boot => BootFits(u) BY <1>1, <1>2, BootAdvances
<1>5. p \in Proc => CallFits(u)'
  <2> SUFFICES ASSUME p \in Proc PROVE CallFits(u)' OBVIOUS
  <2>1. /\ Ordered(u.todo)
        /\ \A steps : Has(u.todo, steps) => Has(t.todo, steps) /\ u.name = t.name /\ u.id = t.id /\ u.man = t.man
    BY <1>1, <1>2, CallAdvances
  <2>2. CallFits(t) BY <1>1 DEF DInv
  <2> QED BY <2>1, <2>2 DEF CallFits, Unused
<1> QED BY <1>2, <1>3, <1>4, <1>5, StepFits

\* A step that leaves the directories alone keeps their definitions.
LEMMA SameKept == ASSUME DInv, UNCHANGED dirs PROVE Kept
  BY FitsOrder DEF DInv, TInv, Variables, Data, Dir, Kept

\* An apply compares its manifest with the one on record under the lock of the
\* store.
LEMMA ResolveFits ==
  ASSUME OneCaller, DInv, TInv', NEW p \in Caller, Resolve(p)
  PROVE  DInv'
<1>1. PICK t \in Task : t = task[p] BY AtFacts DEF Resolve, DInv
<1>2. t.todo # <<>> /\ t.name \in Name /\ t.man \in Manifest /\ t.id \in Id /\ Head(t.todo) = "resolve"
  BY <1>1, AtFacts DEF Resolve, DInv, Installs, Loose
<1>3. UNCHANGED <<store, dirs>> /\ RecordsFit' /\ task \in [Caller -> Task] BY DEF Resolve, DInv, TInv, RecordsFit
<1>4. p \in Proc BY <1>1, <1>2 DEF DInv, BootFits, Installing, Caller
<1>5. CASE Abort(p) BY <1>1, <1>2, <1>3, <1>5, PlainFits DEF Moves
<1>6. CASE ~ Abort(p)
  <2>1. PICK prev : prev = IF store[t.name] # NoService THEN store[t.name].man ELSE manifests[t.name] OBVIOUS
  <2>2. PICK d : d = IF store[t.name] # NoService THEN store[t.name].desired ELSE "stopped" OBVIOUS
  <2>3. PICK plan : plan = ApplyPlan(prev, t.man, d) OBVIOUS
  <2>4. PICK u : u = [t EXCEPT !.prev = prev, !.desired = d, !.todo = plan] OBVIOUS
  <2>5. /\ task' = [task EXCEPT ![p] = u]
        /\ prev # NoManifest => Compatible(prev, t.man)
        /\ store[t.name] # NoService => store[t.name].id = t.id
    BY <1>1, <1>6, <2>1, <2>2, <2>3, <2>4 DEF Resolve
  <2>6. u.todo = plan /\ u.name = t.name /\ u.man = t.man /\ u.id = t.id BY <2>4 DEF Task
  <2>7. store[t.name] # NoService => Fits(store[t.name].man, t.man)
    <3> SUFFICES ASSUME store[t.name] # NoService PROVE Fits(store[t.name].man, t.man) OBVIOUS
    <3>1. prev = store[t.name].man /\ prev \in Manifest BY <1>2, <2>1 DEF DInv, TInv, Variables, Data, Service
    <3> QED BY <2>5, <3>1, RuntimeAssumption DEF Compatible, Fits
  <2>8. Has(t.todo, Installing) BY <1>2 DEF Task, Has, Installing
  <2>9. store[t.name] = NoService => Unused(t.id) BY <1>1, <1>4, <2>8 DEF DInv, CallFits
  <2>10. Ordered(u.todo) BY <2>3, <2>6, PlanInOrder
  <2>11. CallFits(u) BY <1>2, <2>5, <2>6, <2>7, <2>9, <2>10 DEF CallFits
  <2>12. CallFits(u)' BY <1>3, <2>11 DEF CallFits, Unused
  <2> QED BY <1>3, <1>4, <2>5, <2>12, RuntimeAssumption, StepFits
<1> QED BY <1>5, <1>6

\* A call whose next step is replaced by another that installs nothing.
LEMMA InsteadFits ==
  ASSUME OneCaller, DInv, TInv', NEW p \in Caller, NEW t \in Task, t = task[p], t.todo # <<>>,
         NEW m, NEW step \in StepName \ (Installing \cup Looks),
         Head(t.todo) \notin Looks,
         (m = t.man /\ step \in Before) \/ Head(t.todo) \notin Before,
         NEW u, u = [t EXCEPT !.man = m, !.todo = <<step>> \o Tail(@)],
         task' = [task EXCEPT ![p] = u], UNCHANGED <<store, dirs>>
  PROVE  DInv'
<1>1. PICK w : w = <<step>> \o Tail(t.todo) OBVIOUS
<1>2. t.todo \in Seq(StepName) /\ <<step>> \in Seq({step}) /\ RecordsFit' BY DEF Task, DInv, RecordsFit
<1>3. u.todo = w /\ u.man = m /\ u.name = t.name /\ u.id = t.id /\ u.op = t.op BY <1>1 DEF Task
<1>4. ASSUME p = Boot PROVE BootFits(u)
  <2>1. t.todo \in Seq(StepName \ Installing) /\ (t.op = "idle" => t.todo \in Seq(Looks)) BY <1>4 DEF DInv, BootFits
  <2>2. t.op # "idle" BY <2>1
  <2>3. <<step>> \in Seq(StepName \ Installing) /\ Tail(t.todo) \in Seq(StepName \ Installing) BY <2>1
  <2>4. w \in Seq(StepName \ Installing) BY <1>1, <2>3, ConcatType
  <2> QED BY <1>3, <2>2, <2>4 DEF BootFits
<1>5. ASSUME p \in Proc PROVE CallFits(u)'
  <2>1. CallFits(t) BY <1>5 DEF DInv
  <2>2. CASE m = t.man /\ step \in Before BY <1>1, <1>2, <2>1, <2>2, <1>3, OrderedTail DEF CallFits, Unused
  <2>3. CASE Head(t.todo) \notin Before
    <3>1. ~ Has(t.todo, Installing) BY <1>2, <2>1, <2>3, OrderedTail DEF CallFits
    <3>2. ~ Has(w, Installing) BY <1>1, <1>2, <3>1, OrderedTail
    <3>3. ~ Has(w, {"persist"}) BY <3>2 DEF Has, Installing
    <3>4. Ordered(w) BY <3>2 DEF Ordered, Has
    <3> QED BY <1>3, <3>2, <3>3, <3>4 DEF CallFits
  <2> QED BY <2>2, <2>3
<1>6. p = Boot => task[Boot].op = "boot" \/ UNCHANGED <<store, dirs>> OBVIOUS
<1> QED BY <1>2, <1>4, <1>5, <1>6, StepFits

\* A call that is about to restore an entry has nothing left to install.
LEMMA EnsureFits ==
  ASSUME OneCaller, DInv, TInv', NEW p \in Caller, Ensure(p)
  PROVE  DInv'
<1>1. PICK t \in Task : t = task[p] BY AtFacts DEF Ensure, DInv
<1>2. t.todo # <<>> /\ Head(t.todo) \in {"ensure", "try_ensure"} BY <1>1 DEF Ensure, At
<1>3. UNCHANGED <<store, dirs>> BY DEF Ensure
<1>4. CASE Continue(p) \/ Abort(p) BY <1>1, <1>2, <1>3, <1>4, PlainFits DEF Moves, Continue
<1>5. CASE ~ (Continue(p) \/ Abort(p))
  <2>1. PICK m : m = manifests[t.name] OBVIOUS
  <2>2. PICK step \in {"restore", "try_restore"} : step = IF At(p, "ensure") THEN "restore" ELSE "try_restore" OBVIOUS
  <2>3. PICK u : u = [t EXCEPT !.man = m, !.todo = <<step>> \o Tail(@)] OBVIOUS
  <2>4. task' = [task EXCEPT ![p] = u] BY <1>1, <1>5, <2>1, <2>2, <2>3 DEF Ensure
  <2>5. /\ step \in StepName \ (Installing \cup Looks)
        /\ Head(t.todo) \notin Looks /\ Head(t.todo) \notin Before
    BY <1>2 DEF StepName, Installing, Looks, Before
  <2> QED BY <1>1, <1>2, <1>3, <2>3, <2>4, <2>5, InsteadFits
<1> QED BY <1>4, <1>5

\* A process is taken out of its entry and reaped.
LEMMA TakeFits ==
  ASSUME OneCaller, DInv, TInv', NEW p \in Caller, Take(p)
  PROVE  DInv'
<1>1. PICK t \in Task : t = task[p] BY AtFacts DEF Take, DInv
<1>2. t.todo # <<>> /\ Head(t.todo) = "take" BY <1>1 DEF Take, At
<1>3. UNCHANGED <<store, dirs>> /\ task \in [Caller -> Task] BY DEF Take, DInv, TInv
<1>4. CASE Instead(p, "reap")
  <2>1. PICK m : m = t.man OBVIOUS
  <2>2. PICK u : u = [t EXCEPT !.man = m, !.todo = <<"reap">> \o Tail(@)] OBVIOUS
  <2>3. PICK r : r = <<"reap">> \o Tail(t.todo) OBVIOUS
  <2>4. u = [t EXCEPT !.todo = r] BY <2>1, <2>2, <2>3 DEF Task
  <2>5. task' = [task EXCEPT ![p] = u] BY <1>1, <1>3, <1>4, <2>3, <2>4 DEF Instead
  <2>6. /\ "reap" \in StepName \ (Installing \cup Looks) /\ "reap" \in Before
        /\ Head(t.todo) \notin Looks
    BY <1>2 DEF StepName, Installing, Looks, Before
  <2> QED BY <1>1, <1>2, <1>3, <2>1, <2>2, <2>5, <2>6, InsteadFits
<1>5. CASE Moves(p) BY <1>1, <1>2, <1>3, <1>5, PlainFits
<1>6. Instead(p, "reap") \/ Moves(p) BY DEF Take, Moves, Continue
<1> QED BY <1>4, <1>5, <1>6

\* A record is saved, or saved in part, and what the call has still to do goes
\* by the record it saved.
LEMMA SaveStepFits ==
  ASSUME OneCaller, DInv, TInv', NEW p \in Caller, NEW t \in Task, t = task[p], t.todo # <<>>,
         NEW s \in Service, t.name \in Name, Savable(t.name, s), Save(p, t.name, s),
         p = Boot => task[Boot].op = "boot",
         Head(t.todo) \notin Before \/ (s.id = t.id /\ s.man = t.man)
  PROVE  DInv' /\ Kept
<1>1. Data /\ RecordsFit /\ Moves(p) BY DEF DInv, TInv, Variables, Save, Moves, Continue
<1>2. RecordsFit' /\ Kept /\ store'[t.name] = s /\ s # NoService BY <1>1, SaveFits DEF Save
<1>3. PICK u \in {Advanced(t), Ended(t)} : task' = [task EXCEPT ![p] = u] BY <1>1, MovesTo
<1>4. p = Boot => BootFits(u) BY <1>3, BootAdvances
<1>5. ASSUME p \in Proc PROVE CallFits(u)'
  <2>1. /\ Ordered(u.todo)
        /\ \A steps : Has(u.todo, steps) => Has(t.todo, steps) /\ u.name = t.name /\ u.id = t.id /\ u.man = t.man
        /\ Head(t.todo) \notin Before => ~ Has(u.todo, Installing) /\ ~ Has(u.todo, {"persist"})
    BY <1>3, <1>5, CallAdvances
  <2>2. CallFits(t) BY <1>5 DEF DInv
  <2>3. CASE Head(t.todo) \notin Before BY <2>1, <2>3 DEF CallFits
  <2>4. CASE s.id = t.id /\ s.man = t.man BY <2>4, <1>2, <2>1, <2>2, FitsOrder DEF Service, CallFits
  <2> QED BY <2>3, <2>4
<1>6. DInv' BY <1>2, <1>3, <1>4, <1>5, StepFits
<1> QED BY <1>2, <1>6

\* An apply saves its record.
LEMMA PersistFits ==
  ASSUME OneCaller, DInv, TInv', NEW p \in Caller, Persist(p)
  PROVE  DInv' /\ Kept
<1>1. PICK t \in Task : t = task[p] /\ t.todo # <<>> /\ Head(t.todo) = "persist" BY AtFacts DEF Persist, DInv
<1>2. CASE store[t.name] = NoService \/ store[t.name].id = t.id
  <2>1. PICK s : s = Persisted(t) OBVIOUS
  <2>2. p \in Proc /\ t.name \in Name /\ s \in Service /\ Savable(t.name, s)
    BY <1>1, <1>2, <2>1, PersistSavable DEF Persist
  <2>3. s.id = t.id /\ s.man = t.man /\ Save(p, t.name, s) BY <1>1, <1>2, <2>1 DEF Persist, Persisted
  <2> QED BY <1>1, <2>2, <2>3, RuntimeAssumption, SaveStepFits
<1>3. CASE ~ (store[t.name] = NoService \/ store[t.name].id = t.id)
  BY <1>1, <1>3, PlainFits, SameKept DEF Persist, Moves
<1> QED BY <1>2, <1>3

\* A call, or the start, saves the desired state.
LEMMA DesireFits ==
  ASSUME OneCaller, DInv, TInv', NEW p \in Caller, Desire(p)
  PROVE  DInv' /\ Kept
<1>1. PICK t \in Task : t = task[p] /\ t.todo # <<>> /\ Head(t.todo) = "desire" BY AtFacts DEF Desire, DInv
<1>2. CASE store[t.name] # NoService
  <2>1. PICK s : s = Desired(t) OBVIOUS
  <2>2. t.name \in Name /\ s \in Service /\ Savable(t.name, s) BY <1>1, <1>2, <2>1, DesireSavable DEF Desire
  <2>3. Save(p, t.name, s) BY <1>1, <1>2, <2>1 DEF Desire
  <2>4. ASSUME p = Boot PROVE task[Boot].op = "boot" BY <1>1, <2>4 DEF DInv, BootFits, Looks, TInv, BootInv
  <2>5. Head(t.todo) \notin Before BY <1>1 DEF Before, Installing
  <2> QED BY <1>1, <2>2, <2>3, <2>4, <2>5, SaveStepFits
<1>3. CASE store[t.name] = NoService BY <1>1, <1>3, PlainFits, SameKept DEF Desire, Moves
<1> QED BY <1>2, <1>3

\* A record is dropped: the directories of the others are not touched, and its
\* own keeps its definition if it stays.
LEMMA ForgetFits ==
  ASSUME OneCaller, DInv, TInv', NEW p \in Caller, Forget(p)
  PROVE  DInv' /\ Kept
<1>1. PICK t \in Task : t = task[p] /\ t.todo # <<>> /\ Head(t.todo) = "forget" BY AtFacts DEF Forget, DInv
<1>2. t.name \in Name /\ p # Boot BY <1>1, AtFacts DEF Forget, DInv, Loose
<1>3. Data /\ RecordsFit /\ Moves(p) BY DEF DInv, TInv, Variables, Forget, Moves, Continue
<1>4. PICK n \in Name : n = t.name BY <1>2
<1>5. PICK gone : gone = IF store[n] = NoService THEN dirs ELSE [dirs EXCEPT ![store[n].id] = NoDir] OBVIOUS
<1>6. store' = [store EXCEPT ![n] = NoService] BY <1>1, <1>4 DEF Forget
<1>7. dirs' \in {gone, dirs} \/ (store[n] # NoService /\ dirs' \in Stateless(store[n].id))
  BY <1>1, <1>4, <1>5 DEF Forget
<1>8. store[n] # NoService => store[n].id \in Id BY <1>3 DEF Data, Service
<1>9. \A j \in Id : dirs'[j] # NoDir => dirs[j] # NoDir /\ dirs'[j].man = dirs[j].man
  <2>1. CASE dirs' = dirs BY <2>1
  <2>2. CASE dirs' = gone BY <1>3, <1>5, <2>2 DEF Data
  <2>3. CASE store[n] # NoService /\ dirs' \in Stateless(store[n].id) BY <1>3, <1>8, <2>3, StatelessFacts DEF Data
  <2> QED BY <1>7, <2>1, <2>2, <2>3
<1>10. \A m \in Name : store'[m] # NoService => store'[m] = store[m] /\ store[m].id \in Id
  BY <1>3, <1>6 DEF Data, Service
<1>11. RecordsFit' BY <1>3, <1>9, <1>10 DEF RecordsFit, Fits
<1>12. Kept BY <1>3, <1>9, FitsOrder DEF Kept, Data, Dir
<1>13. PICK u \in {Advanced(t), Ended(t)} : task' = [task EXCEPT ![p] = u] BY <1>1, <1>3, MovesTo
<1>14. p \in Proc BY <1>2 DEF Caller
<1>15. CallFits(u)' BY <1>1, <1>13, <1>14, CallAdvances DEF Before, Installing, CallFits
<1>16. DInv' BY <1>2, <1>11, <1>13, <1>15, StepFits
<1> QED BY <1>12, <1>16

\* Every step of a call or of the start keeps what a save relies on.
LEMMA CallerFits ==
  ASSUME OneCaller, DInv, TInv', NEW p \in Caller, Step(p)
  PROVE  DInv' /\ Kept
<1>1. CASE Resolve(p) BY <1>1, ResolveFits, SameKept DEF Resolve
<1>2. CASE Ensure(p) BY <1>2, EnsureFits, SameKept DEF Ensure
<1>3. CASE Take(p) BY <1>3, TakeFits, SameKept DEF Take
<1>4. CASE Persist(p) BY <1>4, PersistFits
<1>5. CASE Desire(p) BY <1>5, DesireFits
<1>6. CASE Forget(p) BY <1>6, ForgetFits
<1>7. ASSUME task[p].todo # <<>>, Moves(p), UNCHANGED <<store, dirs>> PROVE DInv' /\ Kept BY <1>7, PlainFits, SameKept
<1>8. CASE Restore(p) \/ Spawn(p) \/ Reap(p) \/ Drop(p) \/ Build(p)
  BY <1>8, <1>7 DEF Restore, Spawn, Reap, Drop, Build, Moves, Continue, At
<1>9. CASE Publish(p) \/ Unpublish(p) \/ Unlisten(p) \/ Listen(p)
  BY <1>9, <1>7 DEF Publish, Unpublish, Unlisten, Listen, Moves, Continue, At
<1>10. CASE DockerCreate(p) \/ DockerStart(p) \/ DockerStop(p) \/ DockerRemove(p) \/ DockerInspect(p)
  BY <1>10, <1>7 DEF DockerCreate, DockerStart, DockerStop, DockerRemove, DockerInspect, Request, Tolerate, At,
     Moves, Continue
<1> QED BY <1>1, <1>2, <1>3, <1>4, <1>5, <1>6, <1>8, <1>9, <1>10 DEF Step

\* A call that installs nothing begins.
LEMMA BeginFits ==
  ASSUME OneCaller, DInv, TInv', NEW p \in Proc, NEW t, Begin(p, t), t.todo \in Seq(StepName \ Installing)
  PROVE  DInv'
<1>1. task' = [task EXCEPT ![p] = t] /\ UNCHANGED <<store, dirs>> BY DEF Begin
<1>2. RecordsFit' /\ p \in Caller /\ p # Boot BY <1>1, RuntimeAssumption DEF DInv, RecordsFit, Caller
<1>3. Ordered(t.todo) /\ ~ Has(t.todo, Installing) /\ ~ Has(t.todo, {"persist"}) BY NothingInstalled
<1>4. CallFits(t)' BY <1>3 DEF CallFits
<1> QED BY <1>1, <1>2, <1>4, StepFits

\* An apply takes the identifier on record, or one that nothing has.
LEMMA ApplyBeginFits ==
  ASSUME OneCaller, DInv, TInv', NEW p \in Proc, NEW n \in Name, NEW m \in Manifest, NEW i \in Id,
         ApplyBegin(p, n, m, i)
  PROVE  DInv'
<1>1. PICK w : w = <<"resolve">> OBVIOUS
<1>2. PICK t : t = [Idle EXCEPT !.op = "apply", !.todo = w, !.name = n, !.man = m, !.id = i] OBVIOUS
<1>3. /\ task' = [task EXCEPT ![p] = t] /\ UNCHANGED <<store, dirs>>
      /\ IF store[n] # NoService THEN i = store[n].id ELSE Fresh(i)
  BY <1>1, <1>2 DEF ApplyBegin, Begin
<1>4. t = [op |-> "apply", todo |-> w, name |-> n, man |-> m, prev |-> NoManifest, id |-> i,
           desired |-> "stopped", rest |-> {}, found |-> {}]
  BY <1>2 DEF Idle
<1>5. t.todo = w /\ t.name = n /\ t.id = i BY <1>4
<1>6. Len(w) = 1 /\ w[1] = "resolve" BY <1>1
<1>7. Ordered(w) /\ ~ Has(w, {"persist"}) BY <1>6 DEF Ordered, Has, Before, Installing
<1>8. store[n] = NoService => Unused(i) BY <1>3 DEF Fresh, Unused
<1>9. CallFits(t) BY <1>3, <1>5, <1>7, <1>8 DEF CallFits
<1>10. CallFits(t)' BY <1>3, <1>9 DEF CallFits, Unused
<1>11. RecordsFit' /\ p \in Caller /\ p # Boot BY <1>3, RuntimeAssumption DEF DInv, RecordsFit, Caller
<1> QED BY <1>3, <1>10, <1>11, StepFits

\* The other calls install nothing.
LEMMA CallBeginsFits ==
  ASSUME OneCaller, DInv, TInv', NEW p \in Proc, NEW n \in Name,
         StartBegin(p, n) \/ StopBegin(p, n) \/ RemoveBegin(p, n) \/ InspectBegin(p, n)
  PROVE  DInv'
<1>1. PICK S : S = StepName \ Installing OBVIOUS
<1>2. {"ensure", "spawn", "desire", "docker_start", "listen", "try_ensure", "take", "docker_stop", "unlisten",
       "drop", "docker_remove", "unpublish", "forget"} \subseteq S
  BY <1>1 DEF StepName, Installing
<1>3. ASSUME NEW t, NEW w \in Seq(S), NEW op, NEW m, NEW d, Begin(p, t),
             t = [op |-> op, todo |-> w, name |-> n, man |-> NoManifest, prev |-> m,
                  id |-> NoId, desired |-> d, rest |-> {}, found |-> {}]
      PROVE  DInv'
  BY <1>1, <1>3, BeginFits
<1>4. CASE StartBegin(p, n)
  <2>1. PICK w : w = StartPlan(manifests[n]) \o <<"listen">> OBVIOUS
  <2>2. StartPlan(manifests[n]) \in Seq(S) /\ <<"listen">> \in Seq(S) BY <1>2, StartPlanType
  <2>3. w \in Seq(S) BY <2>1, <2>2, ConcatType
  <2>4. PICK t : t = [Idle EXCEPT !.op = "start", !.name = n, !.desired = "running", !.todo = w] OBVIOUS
  <2>5. Begin(p, t) BY <1>4, <2>1, <2>4 DEF StartBegin
  <2>6. t = [op |-> "start", todo |-> w, name |-> n, man |-> NoManifest, prev |-> NoManifest,
             id |-> NoId, desired |-> "running", rest |-> {}, found |-> {}]
    BY <2>4 DEF Idle
  <2> QED BY <1>3, <2>3, <2>5, <2>6
<1>5. CASE StopBegin(p, n)
  <2>1. PICK v : v = CASE Wasm(manifests[n]) -> <<"try_ensure", "take">>
                       [] Docker(manifests[n]) -> <<"docker_stop">>
                       [] OTHER -> <<>>
    OBVIOUS
  <2>2. PICK w : w = v \o <<"desire", "unlisten">> OBVIOUS
  <2>3. v \in Seq(S) /\ <<"desire", "unlisten">> \in Seq(S) BY <1>2, <2>1
  <2>4. w \in Seq(S) BY <2>2, <2>3, ConcatType
  <2>5. PICK t : t = [Idle EXCEPT !.op = "stop", !.name = n, !.todo = w] OBVIOUS
  <2>6. Begin(p, t) BY <1>5, <2>1, <2>2, <2>5 DEF StopBegin
  <2>7. t = [op |-> "stop", todo |-> w, name |-> n, man |-> NoManifest, prev |-> NoManifest,
             id |-> NoId, desired |-> "stopped", rest |-> {}, found |-> {}]
    BY <2>5 DEF Idle
  <2> QED BY <1>3, <2>4, <2>6, <2>7
<1>6. CASE RemoveBegin(p, n)
  <2>1. PICK v : v = CASE Wasm(manifests[n]) -> <<"take", "drop">>
                       [] Docker(manifests[n]) -> <<"docker_remove">>
                       [] OTHER -> <<>>
    OBVIOUS
  <2>2. PICK w : w = v \o <<"unpublish", "forget", "unlisten">> OBVIOUS
  <2>3. v \in Seq(S) /\ <<"unpublish", "forget", "unlisten">> \in Seq(S) BY <1>2, <2>1
  <2>4. w \in Seq(S) BY <2>2, <2>3, ConcatType
  <2>5. PICK m : m = manifests[n] OBVIOUS
  <2>6. PICK t : t = [Idle EXCEPT !.op = "remove", !.name = n, !.prev = m, !.todo = w] OBVIOUS
  <2>7. Begin(p, t) BY <1>6, <2>1, <2>2, <2>5, <2>6 DEF RemoveBegin
  <2>8. t = [op |-> "remove", todo |-> w, name |-> n, man |-> NoManifest, prev |-> m,
             id |-> NoId, desired |-> "stopped", rest |-> {}, found |-> {}]
    BY <2>6 DEF Idle
  <2> QED BY <1>3, <2>4, <2>7, <2>8
<1>7. CASE InspectBegin(p, n)
  <2>1. PICK w : w = <<"try_ensure">> OBVIOUS
  <2>2. w \in Seq(S) BY <1>2, <2>1
  <2>3. PICK t : t = [Idle EXCEPT !.op = "inspect", !.name = n, !.todo = w] OBVIOUS
  <2>4. Begin(p, t) BY <1>7, <2>1, <2>3 DEF InspectBegin
  <2>5. t = [op |-> "inspect", todo |-> w, name |-> n, man |-> NoManifest, prev |-> NoManifest,
             id |-> NoId, desired |-> "stopped", rest |-> {}, found |-> {}]
    BY <2>3 DEF Idle
  <2> QED BY <1>3, <2>2, <2>4, <2>5
<1> QED BY <1>4, <1>5, <1>6, <1>7

\* The start turns to the next service.
LEMMA BootNextFits ==
  ASSUME OneCaller, DInv, TInv', NEW n \in Name, BootNext(n)
  PROVE  DInv'
<1>1. Boot \in Caller /\ At(Boot, "next") /\ n \in task[Boot].rest BY DEF Caller, BootNext
<1>2. PICK t \in Task : t = task[Boot] BY <1>1, AtFacts DEF DInv
<1>3. PICK s : s = store[n] OBVIOUS
<1>4. PICK S : S = StepName \ Installing OBVIOUS
<1>5. {"publish", "try_restore", "ensure", "spawn", "desire", "docker_start"} \subseteq S
  BY <1>4 DEF StepName, Installing
<1>6. PICK a : a = IF Wasm(s.man) THEN <<"try_restore">> ELSE <<>> OBVIOUS
<1>7. PICK b : b = IF s.desired = "running" THEN StartPlan(s.man) ELSE <<>> OBVIOUS
<1>8. PICK w : w = <<"publish">> \o a \o b OBVIOUS
<1>9. w \in Seq(S) BY <1>5, <1>6, <1>7, <1>8, StartPlanType, ConcatType
<1>10. PICK r, m, d : r = t.rest \ {n} /\ m = s.man /\ d = s.desired OBVIOUS
<1>11. PICK u : u = [t EXCEPT !.rest = r, !.name = n, !.man = m, !.desired = d, !.todo = w] OBVIOUS
<1>12. task' = [task EXCEPT ![Boot] = u] /\ UNCHANGED <<store, dirs>>
  BY <1>2, <1>3, <1>6, <1>7, <1>8, <1>10, <1>11 DEF BootNext, DInv, TInv
<1>13. u.todo = w /\ u.op = t.op BY <1>11 DEF Task
<1>14. t.op # "idle" BY <1>1, <1>2 DEF DInv, TInv, BootInv
<1>15. BootFits(u) BY <1>4, <1>9, <1>13, <1>14 DEF BootFits
<1>16. RecordsFit' BY <1>12 DEF DInv, RecordsFit
<1> QED BY <1>1, <1>12, <1>15, <1>16, RuntimeAssumption, StepFits

\* The start has restored all services, and looks for endpoints.
LEMMA BootRestoredFits ==
  ASSUME OneCaller, DInv, TInv', BootRestored
  PROVE  DInv'
<1>1. PICK w : w = <<"list_running", "list_desired">> OBVIOUS
<1>2. PICK u : u = [Idle EXCEPT !.todo = w] OBVIOUS
<1>3. u = [op |-> "idle", todo |-> w, name |-> NoName, man |-> NoManifest, prev |-> NoManifest,
           id |-> NoId, desired |-> "stopped", rest |-> {}, found |-> {}]
  BY <1>2 DEF Idle
<1>4. w \in Seq(StepName \ Installing) /\ w \in Seq(Looks) BY <1>1 DEF StepName, Looks, Installing
<1>5. BootFits(u) BY <1>3, <1>4 DEF BootFits
<1>6. task' = [task EXCEPT ![Boot] = u] /\ UNCHANGED <<store, dirs>> BY <1>1, <1>2 DEF BootRestored
<1>7. RecordsFit' /\ Boot \in Caller BY <1>6 DEF DInv, RecordsFit, Caller
<1> QED BY <1>5, <1>6, <1>7, RuntimeAssumption, StepFits

\* The start looks at services, or listens on an endpoint.
LEMMA LookFits ==
  ASSUME OneCaller, DInv, TInv', NEW f, NEW w,
         w = task[Boot].todo \/ (task[Boot].todo # <<>> /\ w = Tail(task[Boot].todo)),
         task' = [task EXCEPT ![Boot] = [task[Boot] EXCEPT !.todo = w, !.found = f]],
         UNCHANGED <<store, dirs>>
  PROVE  DInv'
<1>1. Boot \in Caller /\ RecordsFit' BY DEF Caller, DInv, RecordsFit
<1>2. PICK t \in Task : t = task[Boot] BY <1>1 DEF DInv, TInv
<1>3. PICK u : u = [t EXCEPT !.todo = w, !.found = f] OBVIOUS
<1>4. u.op = t.op /\ u.todo = w BY <1>3 DEF Task
<1>5. BootFits(t) BY <1>2 DEF DInv
<1>6. ASSUME NEW S, t.todo \in Seq(S) PROVE w \in Seq(S)
  <2>1. CASE w = t.todo BY <1>6, <2>1
  <2>2. CASE t.todo # <<>> /\ w = Tail(t.todo) BY <1>6, <2>2
  <2> QED BY <1>2, <2>1, <2>2
<1>7. BootFits(u) BY <1>4, <1>5, <1>6 DEF BootFits
<1>8. task' = [task EXCEPT ![Boot] = u] BY <1>2, <1>3
<1> QED BY <1>1, <1>7, <1>8, RuntimeAssumption, StepFits

\* The start lists services and listens on what it found.
LEMMA BootLooksFits ==
  ASSUME OneCaller, DInv, TInv', BootListRunning \/ BootListDesired \/ BootListen
  PROVE  DInv'
<1>1. UNCHANGED <<store, dirs>> BY DEF BootListRunning, BootListDesired, BootListen
<1>2. ASSUME BootListRunning \/ BootListDesired PROVE DInv'
  <2>1. task[Boot].todo # <<>> BY <1>2 DEF BootListRunning, BootListDesired, At
  <2>2. \E f : Find(f) BY <1>2 DEF BootListRunning, BootListDesired
  <2>3. PICK f : Find(f) BY <2>2
  <2>4. PICK w : w = Tail(task[Boot].todo) OBVIOUS
  <2>5. task' = [task EXCEPT ![Boot] = [task[Boot] EXCEPT !.todo = w, !.found = f]] BY <2>3, <2>4 DEF Find
  <2> QED BY <1>1, <2>1, <2>4, <2>5, LookFits
<1>3. ASSUME BootListen PROVE DInv'
  <2>1. PICK t \in Task : t = task[Boot] BY DEF DInv, TInv, Caller
  <2>2. PICK e \in t.found : task' = [task EXCEPT ![Boot].found = @ \ {e}] BY <1>3, <2>1 DEF BootListen
  <2>3. PICK f : f = t.found \ {e} OBVIOUS
  <2>4. PICK w : w = t.todo OBVIOUS
  <2>5. [t EXCEPT !.found = f] = [t EXCEPT !.todo = w, !.found = f] BY <2>4 DEF Task
  <2>6. task' = [task EXCEPT ![Boot] = [t EXCEPT !.found = f]] BY <2>1, <2>2, <2>3 DEF DInv, TInv
  <2> QED BY <1>1, <2>1, <2>4, <2>5, <2>6, LookFits
<1> QED BY <1>2, <1>3

\* The start reads records with identifiers of their own, each of the manifest
\* in its directory.
LEMMA RestartFits ==
  ASSUME DInv, TInv', Restart
  PROVE  DInv' /\ Kept
<1>1. PICK D \in CrashDirs :
        /\ Loadable(D) /\ dirs' = D /\ store' = Loaded(D)
        /\ task' = [p \in Caller |-> IF p # Boot THEN Idle ELSE
             [BootTask EXCEPT !.rest = {n \in Name : Loaded(D)[n] # NoService}]]
  BY DEF Restart
<1>2. D \in [Id -> Dir \cup {NoDir}] BY CrashType DEF DInv
<1>3. \A n \in Name : store'[n] # NoService =>
        \E i \in Id : dirs'[i] # NoDir /\ dirs'[i].name = n /\ store'[n].id = i /\ store'[n].man = dirs'[i].man
  BY <1>1, <1>2, LoadedFacts
<1>4. Kept BY <1>1, CrashFits DEF Kept
<1>5. \A k, m \in Name : store'[k] # NoService /\ store'[m] # NoService /\ store'[k].id = store'[m].id => k = m
  BY <1>3
<1>6. \A n \in Name : store'[n] # NoService => store'[n].man = dirs'[store'[n].id].man BY <1>3
<1>7. RecordsFit' BY <1>5, <1>6 DEF RecordsFit, Fits
<1>8. PICK w : w = <<"next">> OBVIOUS
<1>9. PICK R : R = {n \in Name : Loaded(D)[n] # NoService} OBVIOUS
<1>10. PICK u : u = [BootTask EXCEPT !.rest = R] OBVIOUS
<1>11. u = [op |-> "boot", todo |-> w, name |-> NoName, man |-> NoManifest, prev |-> NoManifest,
            id |-> NoId, desired |-> "stopped", rest |-> R, found |-> {}]
  BY <1>8, <1>10 DEF BootTask, Idle
<1>12. w \in Seq(StepName \ Installing) BY <1>8 DEF StepName, Installing
<1>13. BootFits(u) BY <1>11, <1>12 DEF BootFits
<1>14. task' = [p \in Caller |-> IF p # Boot THEN Idle ELSE u] BY <1>1, <1>9, <1>10
<1>15. task'[Boot] = u /\ \A p \in Proc : task'[p] = Idle BY <1>14, RuntimeAssumption DEF Caller
<1>16. Ordered(Idle.todo) /\ ~ Has(Idle.todo, Installing) /\ ~ Has(Idle.todo, {"persist"})
  <2>1. <<>> \in Seq(StepName \ Installing) /\ Idle.todo = <<>> BY IdleFacts
  <2> QED BY <2>1, NothingInstalled
<1>17. DInv' BY <1>7, <1>13, <1>15, <1>16 DEF DInv, CallFits
<1> QED BY <1>4, <1>17

\* The first start has nothing on record.
LEMMA InitFits == Init => DInv
<1> SUFFICES ASSUME Init PROVE DInv OBVIOUS
<1>1. TInv /\ RecordsFit BY InitInv DEF IInv, Init, RecordsFit
<1>2. PICK w : w = <<"next">> OBVIOUS
<1>3. PICK u : u = BootTask OBVIOUS
<1>4. u = [op |-> "boot", todo |-> w, name |-> NoName, man |-> NoManifest, prev |-> NoManifest,
           id |-> NoId, desired |-> "stopped", rest |-> {}, found |-> {}]
  BY <1>2, <1>3 DEF BootTask, Idle
<1>5. w \in Seq(StepName \ Installing) BY <1>2 DEF StepName, Installing
<1>6. BootFits(u) BY <1>4, <1>5 DEF BootFits
<1>7. task[Boot] = u /\ \A p \in Proc : task[p] = Idle BY <1>3, RuntimeAssumption DEF Init, Caller
<1>8. Ordered(Idle.todo) /\ ~ Has(Idle.todo, Installing) /\ ~ Has(Idle.todo, {"persist"})
  <2>1. <<>> \in Seq(StepName \ Installing) /\ Idle.todo = <<>> BY IdleFacts
  <2> QED BY <2>1, NothingInstalled
<1> QED BY <1>1, <1>6, <1>7, <1>8 DEF DInv, CallFits

\* Every step keeps what the saves rely on, and replaces directories only by
\* ones that fit.
LEMMA NextFits ==
  ASSUME OneCaller, DInv, [Next]_vars
  PROVE  DInv' /\ Kept
<1>1. TInv' BY NextInv DEF DInv
<1>2. ASSUME NEW p \in Proc, NEW n \in Name,
             \/ StartBegin(p, n) \/ StopBegin(p, n) \/ RemoveBegin(p, n) \/ InspectBegin(p, n)
             \/ \E m \in Manifest, i \in Id : ApplyBegin(p, n, m, i)
      PROVE  DInv' /\ Kept
  <2>1. UNCHANGED dirs BY <1>2 DEF StartBegin, StopBegin, RemoveBegin, InspectBegin, ApplyBegin, Begin
  <2> QED BY <1>1, <1>2, <2>1, ApplyBeginFits, CallBeginsFits, SameKept
<1>3. ASSUME NEW p \in Caller, Step(p) PROVE DInv' /\ Kept BY <1>1, <1>3, CallerFits
<1>4. ASSUME NEW n \in Name, BootNext(n) PROVE DInv' /\ Kept BY <1>4, <1>1, BootNextFits, SameKept DEF BootNext
<1>5. ASSUME BootRestored \/ BootListRunning \/ BootListDesired \/ BootListen PROVE DInv' /\ Kept
  <2>1. UNCHANGED dirs BY <1>5 DEF BootRestored, BootListRunning, BootListDesired, BootListen
  <2> QED BY <1>1, <1>5, <2>1, BootRestoredFits, BootLooksFits, SameKept
<1>6. ASSUME Restart PROVE DInv' /\ Kept BY <1>1, <1>6, RestartFits
<1>7. ASSUME UNCHANGED <<store, dirs, task>> PROVE DInv' /\ Kept
  BY <1>1, <1>7, SameKept DEF DInv, RecordsFit, CallFits, Unused, BootFits
<1>8. ASSUME NEW n \in Name, ChildExits(n) PROVE DInv' /\ Kept BY <1>7, <1>8 DEF ChildExits
<1>9. ASSUME NEW i \in Id, ContainerExits(i) \/ ContainerVanishes(i) PROVE DInv' /\ Kept
  BY <1>7, <1>9 DEF ContainerExits, ContainerVanishes
<1>10. CASE UNCHANGED vars BY <1>7, <1>10 DEF vars
<1> QED BY <1>2, <1>3, <1>4, <1>5, <1>6, <1>8, <1>9, <1>10 DEF Next

\* With one caller at a time no service is ever replaced on disk by one of
\* another definition, whatever fails and whenever the daemon crashes: an apply
\* compares its manifest with the record, and the record is never further from
\* the directory than a definition that fits (ensure_definition_id_compatible,
\* service_state.rs).
THEOREM DefinitionsKept ==
  ASSUME OneCaller
  PROVE  Spec => DefinitionKept
<1>1. DInv /\ [Next]_vars => DInv' BY NextFits
<1>2. DInv /\ [Next]_vars =>
        [\A i \in Id : dirs[i] # NoDir /\ dirs'[i] # NoDir =>
           LET was == DefinitionOf[dirs[i].man]
               is  == DefinitionOf[dirs'[i].man]
           IN was # NoDefinition => was = is]_vars
  BY NextFits DEF Kept, Fits
<1> QED BY <1>1, <1>2, InitFits, PTL DEF Spec, DefinitionKept

\* The first step of a plan and what is left of it when that step is done.
LEMMA TailFacts ==
  ASSUME NEW s \in Seq(StepName), s # <<>>
  PROVE  /\ Len(s) \in Nat \ {0} /\ Tail(s) \in Seq(StepName) /\ Len(Tail(s)) = Len(s) - 1
         /\ \A i \in 1..Len(Tail(s)) : i + 1 \in 1..Len(s) /\ Tail(s)[i] = s[i + 1]
         /\ Head(s) = s[1] /\ 1 \in 1..Len(s)
  OBVIOUS

\* What holds of a plan holds of what is left of it, but for an order that its first step
\* has fulfilled.
LEMMA PlanTail ==
  ASSUME NEW s \in Seq(StepName), s # <<>>
  PROVE  /\ \A S : Has(Tail(s), S) => Has(s, S)
         /\ \A S : Head(s) \in S => Has(s, S)
         /\ \A S : Has(s, S) /\ Head(s) \notin S => Has(Tail(s), S)
         /\ \A A, B : Precedes(s, A, B) => Head(s) \notin B
         /\ \A A, B : Precedes(s, A, B) /\ Head(s) \notin A => Precedes(Tail(s), A, B)
         /\ \A a, b : Followed(s, a, b) => Followed(Tail(s), a, b)
         /\ \A a, b : Followed(s, a, b) /\ Head(s) = a => Tail(s) # <<>> /\ Head(Tail(s)) = b
<1>1. PICK r : r = Tail(s) OBVIOUS
<1>2. /\ Len(s) \in Nat \ {0} /\ r \in Seq(StepName) /\ Len(r) = Len(s) - 1
      /\ \A i \in 1..Len(r) : i + 1 \in 1..Len(s) /\ r[i] = s[i + 1]
      /\ Head(s) = s[1] /\ 1 \in 1..Len(s)
  BY <1>1, TailFacts
<1>3. \A i \in 1..Len(s) : i # 1 => i - 1 \in 1..Len(r) /\ s[i] = r[i - 1]
  <2> SUFFICES ASSUME NEW i \in 1..Len(s), i # 1 PROVE i - 1 \in 1..Len(r) /\ s[i] = r[i - 1] OBVIOUS
  <2>1. i - 1 \in 1..Len(r) BY <1>2
  <2>2. r[i - 1] = s[i - 1 + 1] BY <1>2, <2>1
  <2> QED BY <2>1, <2>2
<1>4. ASSUME NEW S, Has(r, S) PROVE Has(s, S) BY <1>2, <1>4 DEF Has
<1>5. ASSUME NEW S, Head(s) \in S PROVE Has(s, S) BY <1>2, <1>5 DEF Has
<1>6. ASSUME NEW S, Has(s, S), Head(s) \notin S PROVE Has(r, S) BY <1>2, <1>3, <1>6 DEF Has
<1>7. ASSUME NEW A, NEW B, Precedes(s, A, B) PROVE Head(s) \notin B
  <2>1. PICK i \in 1..Len(s) : \A j \in 1..i : s[j] \notin B BY <1>7 DEF Precedes
  <2>2. 1 \in 1..i BY <1>2
  <2> QED BY <1>2, <2>1, <2>2
<1>8. ASSUME NEW A, NEW B, Precedes(s, A, B), Head(s) \notin A PROVE Precedes(r, A, B)
  <2>1. PICK i \in 1..Len(s) : s[i] \in A /\ \A j \in 1..i : s[j] \notin B BY <1>8 DEF Precedes
  <2>2. i # 1 /\ i - 1 \in 1..Len(r) /\ r[i - 1] \in A BY <1>2, <1>3, <1>8, <2>1
  <2>3. ASSUME NEW j \in 1..(i - 1) PROVE r[j] \notin B BY <2>2, <1>2, <2>1
  <2> QED BY <2>2, <2>3 DEF Precedes
<1>9. ASSUME NEW a, NEW b, Followed(s, a, b) PROVE Followed(r, a, b)
  <2> SUFFICES ASSUME NEW i \in 1..Len(r), r[i] = a PROVE i < Len(r) /\ r[i + 1] = b BY DEF Followed
  <2>1. i + 1 \in 1..Len(s) /\ s[i + 1] = a BY <1>2
  <2>2. i + 1 < Len(s) /\ s[i + 2] = b BY <1>9, <2>1 DEF Followed
  <2>3. i + 1 \in 1..Len(r) BY <1>2, <2>2
  <2> QED BY <1>2, <2>2, <2>3
<1>10. ASSUME NEW a, NEW b, Followed(s, a, b), Head(s) = a PROVE r # <<>> /\ Head(r) = b
  BY <1>2, <1>10, <1>3 DEF Followed
<1> QED BY <1>1, <1>4, <1>5, <1>6, <1>7, <1>8, <1>9, <1>10

\* A plan whose first step was replaced by another one.
LEMMA PlanInstead ==
  ASSUME NEW s \in Seq(StepName), s # <<>>, NEW h \in StepName, NEW r, r = <<h>> \o Tail(s)
  PROVE  /\ r \in Seq(StepName) /\ r # <<>> /\ Len(r) = Len(s) /\ \A i \in 2..Len(s) : r[i] = s[i]
         /\ \A S : Has(r, S) /\ h \notin S => Has(s, S)
         /\ \A S : Has(s, S) /\ Head(s) \notin S => Has(r, S)
         /\ \A A, B : Precedes(s, A, B) /\ h \notin B /\ (Head(s) \in A => h \in A) => Precedes(r, A, B)
         /\ \A a, b : Followed(s, a, b) /\ h # a => Followed(r, a, b)
<1>1. PICK q \in Seq(StepName) : q = Tail(s) BY TailFacts
<1>2. /\ Len(s) \in Nat \ {0} /\ Len(q) = Len(s) - 1
      /\ \A i \in 1..Len(q) : i + 1 \in 1..Len(s) /\ q[i] = s[i + 1]
      /\ Head(s) = s[1]
  BY <1>1, TailFacts
<1>3. PICK o : o = <<h>> OBVIOUS
<1>4. r = o \o q /\ o \in Seq(StepName) /\ Len(o) = 1 /\ o[1] = h BY <1>1, <1>3
<1>5. /\ r \in Seq(StepName) /\ Len(r) = Len(s)
      /\ \A i \in 1..Len(r) : r[i] = IF i <= 1 THEN h ELSE q[i - 1]
  BY <1>2, <1>4, ConcatFacts, ConcatType
<1>6. r[1] = h /\ \A i \in 1..Len(s) : i # 1 => r[i] = s[i]
  <2>1. r[1] = h BY <1>2, <1>5
  <2>2. ASSUME NEW i \in 1..Len(s), i # 1 PROVE r[i] = s[i] BY <1>2, <1>5, <2>2
  <2> QED BY <2>1, <2>2
<1>7. r # <<>> BY <1>2, <1>5
<1>8. ASSUME NEW S, Has(r, S), h \notin S PROVE Has(s, S) BY <1>5, <1>6, <1>8 DEF Has
<1>9. ASSUME NEW A, NEW B, Precedes(s, A, B), h \notin B, Head(s) \in A => h \in A PROVE Precedes(r, A, B)
  <2>1. PICK i \in 1..Len(s) : s[i] \in A /\ \A j \in 1..i : s[j] \notin B BY <1>9 DEF Precedes
  <2>2. r[i] \in A BY <1>2, <1>6, <1>9, <2>1
  <2>3. \A j \in 1..i : r[j] \notin B BY <1>6, <1>9, <2>1
  <2> QED BY <1>5, <2>2, <2>3 DEF Precedes
<1>10. ASSUME NEW a, NEW b, Followed(s, a, b), h # a PROVE Followed(r, a, b)
  <2> SUFFICES ASSUME NEW i \in 1..Len(r), r[i] = a PROVE i < Len(r) /\ r[i + 1] = b BY DEF Followed
  <2>1. i # 1 /\ i \in 1..Len(s) /\ s[i] = a BY <1>5, <1>6, <1>10
  <2>2. i < Len(s) /\ s[i + 1] = b BY <1>10, <2>1 DEF Followed
  <2>3. i + 1 \in 1..Len(s) /\ i + 1 # 1 BY <2>1, <2>2
  <2> QED BY <1>5, <1>6, <2>2, <2>3
<1>11. \A i \in 2..Len(s) : r[i] = s[i] BY <1>2, <1>6
<1>12. ASSUME NEW S, Has(s, S), Head(s) \notin S PROVE Has(r, S) BY <1>2, <1>5, <1>6, <1>12 DEF Has
<1> QED BY <1>5, <1>7, <1>8, <1>9, <1>10, <1>11, <1>12

\* A plan without certain steps.
LEMMA Lacks ==
  ASSUME NEW S, NEW s \in Seq(S), NEW T, S \cap T = {}
  PROVE  ~ Has(s, T)
BY DEF Has

\* A caller that is about no service has none of the steps of a call left to do, and knows
\* all that it has to.
LEMMA RestingFacts ==
  ASSUME NEW t, Resting(t)
  PROVE  /\ \A S : S \cap Looks = {} => ~ Has(t.todo, S)
         /\ CallShape(t)
         /\ t.todo # <<>> => Head(t.todo) \in Looks
<1>1. \A i \in 1..Len(t.todo) : t.todo[i] \in Looks BY DEF Resting
<1>2. \A S : S \cap Looks = {} => ~ Has(t.todo, S) BY <1>1 DEF Has
<1>3. /\ Starts \cap Looks = {} /\ {"forget"} \cap Looks = {} /\ {"desire"} \cap Looks = {}
      /\ {"persist", "resolve", "docker_create"} \cap Looks = {} /\ {"forget", "unpublish"} \cap Looks = {}
      /\ {"publish"} \cap Looks = {}
  BY DEF Starts, Looks
<1>4. /\ ~ Has(t.todo, Starts) /\ ~ Has(t.todo, {"forget"}) /\ ~ Has(t.todo, {"desire"})
      /\ ~ Has(t.todo, {"persist", "resolve", "docker_create"}) /\ ~ Has(t.todo, {"forget", "unpublish"})
      /\ ~ Has(t.todo, {"publish"})
  BY <1>2, <1>3
<1>5. \A a, b : a \notin Looks => Followed(t.todo, a, b) BY <1>1 DEF Followed
<1>6. "spawn" \notin Looks /\ "docker_start" \notin Looks /\ "publish" \notin Looks BY DEF Looks
<1>7. \A i \in 2..Len(t.todo) : t.todo[i] # "publish" BY <1>1, <1>6 DEF Resting
<1>8. t.todo # <<>> => Head(t.todo) \in Looks BY DEF Resting
<1>9. CallShape(t) BY <1>4, <1>5, <1>6, <1>7 DEF CallShape
<1> QED BY <1>2, <1>8, <1>9

\* ... whatever the state.
LEMMA RestingKnows ==
  ASSUME NEW t, \A S : S \cap Looks = {} => ~ Has(t.todo, S), t.op # "stop"
  PROVE  CallKnows(t) /\ CallKnows(t)'
<1>1. /\ {"persist"} \cap Looks = {} /\ Removes \cap Looks = {} /\ Starts \cap Looks = {}
      /\ {"publish"} \cap Looks = {} /\ {"desire"} \cap Looks = {} /\ {"forget"} \cap Looks = {}
  BY DEF Starts, Looks, Removes
<1>2. /\ ~ Has(t.todo, {"persist"}) /\ ~ Has(t.todo, Removes) /\ ~ Has(t.todo, Starts)
      /\ ~ Has(t.todo, {"publish"}) /\ ~ Has(t.todo, {"desire"}) /\ ~ Has(t.todo, {"forget"})
  BY <1>1
<1>3. SaveKnows(t) /\ SaveKnows(t)' BY <1>2 DEF SaveKnows
<1>4. ReplaceKnows(t) /\ ReplaceKnows(t)' BY <1>2 DEF ReplaceKnows
<1>5. StartKnows(t) /\ StartKnows(t)' BY <1>2 DEF StartKnows
<1>6. StopKnows(t) /\ StopKnows(t)' BY DEF StopKnows
<1>7. RemoveKnows(t) /\ RemoveKnows(t)' BY <1>2 DEF RemoveKnows
<1> QED BY <1>3, <1>4, <1>5, <1>6, <1>7 DEF CallKnows

\* A task whose call returns is about no service any more.
LEMMA EndedRests ==
  ASSUME NEW t \in Task
  PROVE  Resting(Ended(t)) /\ (Ended(t).op = "boot" => t.op = "boot")
<1>1. CASE t.op = "boot" BY <1>1 DEF Ended, Idle, Resting, Looks
<1>2. CASE t.op # "boot"
  <2>1. Ended(t).todo = <<>> /\ Ended(t).op = "idle" BY <1>2, IdleFacts DEF Ended
  <2> QED BY <1>2, <2>1 DEF Resting
<1> QED BY <1>1, <1>2

\* While one caller takes the steps of a call, or the start restores services, all others
\* are about no service.
LEMMA OthersRest ==
  ASSUME OneCaller, DInv, NEW p \in Caller, ~ Resting(task[p]), NEW q \in Caller, q # p
  PROVE  Resting(task[q])
<1>1. /\ \A r \in Proc : task[r].op # "boot" /\ (task[r].op = "idle" => task[r] = Idle)
      /\ task[Boot].op = "boot" => \A r \in Proc : task[r] = Idle
      /\ task[Boot].op \in {"idle", "boot"}
      /\ task[Boot].op = "idle" => task[Boot].todo \in Seq(Looks)
  BY DEF DInv, TInv, BootInv, BootFits
<1>2. Resting(Idle) BY IdleFacts DEF Resting
<1>3. CASE p = Boot BY <1>1, <1>3, <1>2 DEF Resting, Caller
<1>4. CASE p \in Proc BY <1>4, <1>1, <1>2 DEF OneCaller, Caller, Resting
<1> QED BY <1>3, <1>4 DEF Caller

\* A caller that is about a service leaves the others at rest, whatever becomes of it.
LEMMA OneActs ==
  ASSUME OneCaller, DInv, NEW p \in Caller, ~ Resting(task[p]), NEW u, task' = [task EXCEPT ![p] = u],
         CallShape(u), CallKnows(u)'
  PROVE  /\ \A q \in Caller : (CallShape(task[q]) /\ CallKnows(task[q]))'
         /\ task'[p] = u
         /\ \A q \in Caller \ {p}, s \in StepName \ Looks : ~ At(q, s) /\ ~ At(q, s)'
<1>1. task'[p] = u /\ \A q \in Caller \ {p} : task'[q] = task[q] BY DEF DInv, TInv
<1>2. ASSUME NEW q \in Caller \ {p} PROVE Resting(task[q]) BY <1>2, OthersRest
<1>3. ASSUME NEW q \in Caller \ {p} PROVE (CallShape(task[q]) /\ CallKnows(task[q]))'
  <2>1. PICK t : t = task[q] /\ t = task'[q] BY <1>1
  <2>2. Resting(t) BY <1>2, <2>1
  <2>3. CallShape(t) /\ \A S : S \cap Looks = {} => ~ Has(t.todo, S) BY <2>2, RestingFacts
  <2>4. t.op # "stop" BY <2>2 DEF Resting
  <2>5. CallKnows(t)' BY <2>3, <2>4, RestingKnows
  <2> QED BY <2>1, <2>3, <2>5
<1>4. (CallShape(task[p]) /\ CallKnows(task[p]))' BY <1>1
<1>5. ASSUME NEW q \in Caller \ {p}, NEW s \in StepName \ Looks PROVE ~ At(q, s) /\ ~ At(q, s)'
  BY <1>2, <1>1, RestingFacts DEF At
<1> QED BY <1>1, <1>3, <1>4, <1>5

\* What is left of a call has the shape of a call.
LEMMA ShapeTail ==
  ASSUME NEW t \in Task, t.todo # <<>>, CallShape(t), NEW u, u = [t EXCEPT !.todo = Tail(@)]
  PROVE  CallShape(u)
<1>1. PICK d \in Seq(StepName) : d = t.todo /\ d # <<>> BY DEF Task
<1>2. PICK e : e = Tail(d) OBVIOUS
<1>3. u.todo = e /\ u.op = t.op /\ u.desired = t.desired BY <1>1, <1>2 DEF Task
<1>4. /\ \A S : Has(e, S) => Has(d, S)
      /\ \A a, b : Followed(d, a, b) => Followed(e, a, b)
  BY <1>1, <1>2, PlanTail
<1>5. ASSUME \A i \in 2..Len(d) : d[i] # "publish" PROVE \A i \in 2..Len(e) : e[i] # "publish"
  BY <1>1, <1>2, <1>5, TailFacts
<1> QED BY <1>1, <1>3, <1>4, <1>5 DEF CallShape

\* A call that does another step first that changes no table and starts nothing.
LEMMA ShapeInstead ==
  ASSUME NEW t \in Task, t.todo # <<>>, CallShape(t), NEW h \in {"reap", "restore", "try_restore"}, NEW m,
         NEW u, u = [t EXCEPT !.man = m, !.todo = <<h>> \o Tail(@)]
  PROVE  CallShape(u)
<1>1. PICK d \in Seq(StepName) : d = t.todo /\ d # <<>> BY DEF Task
<1>2. PICK e : e = <<h>> \o Tail(d) OBVIOUS
<1>3. u.todo = e /\ u.op = t.op /\ u.desired = t.desired BY <1>1, <1>2 DEF Task
<1>4. PICK k \in StepName : k = h BY DEF StepName
<1>5. /\ Len(e) = Len(d) /\ \A i \in 2..Len(d) : e[i] = d[i]
      /\ \A S : Has(e, S) /\ h \notin S => Has(d, S)
      /\ \A a, b : Followed(d, a, b) /\ h # a => Followed(e, a, b)
  <2>1. e = <<k>> \o Tail(d) BY <1>2, <1>4
  <2>2. Len(e) = Len(d) /\ \A i \in 2..Len(d) : e[i] = d[i] BY <1>1, <2>1, PlanInstead
  <2>3. \A S : Has(e, S) /\ k \notin S => Has(d, S) BY <1>1, <2>1, PlanInstead
  <2>4. \A a, b : Followed(d, a, b) /\ k # a => Followed(e, a, b) BY <1>1, <2>1, PlanInstead, Zenon
  <2> QED BY <1>4, <2>2, <2>3, <2>4
<1>6. h \notin Starts BY DEF Starts
<1> QED BY <1>1, <1>3, <1>5, <1>6 DEF CallShape

\* A call that goes on knows what it knew, if nothing got worse.
LEMMA KnowsTail ==
  ASSUME NEW t \in Task, t.todo # <<>>, CallShape(t), CallKnows(t), Data,
         NEW n \in Name, t.name = n, Has(t.todo, {"persist"}) => t.id \in Id,
         NEW u, u = [t EXCEPT !.todo = Tail(@)],
         Calm(t), Discharged(t)', Head(t.todo) \notin Installing,
         Has(t.todo, {"persist"}) => manifests'[n] = IF Head(t.todo) = "publish" THEN t.man ELSE manifests[n],
         Has(t.todo, {"forget"}) => manifests'[n] = NoManifest \/ (manifests'[n] = manifests[n] /\ Head(t.todo) # "unpublish"),
         t.op = "stop" /\ Head(t.todo) = "desire" => IsDown(n)',
         n \in stopped' => n \in stopped \/ t.op = "stop"
  PROVE  CallKnows(u)'
<1>1. PICK d \in Seq(StepName) : d = t.todo /\ d # <<>> BY DEF Task
<1>2. PICK e \in Seq(StepName) : e = Tail(d) BY <1>1, TailFacts
<1>3. /\ u.todo = e /\ u.op = t.op /\ u.desired = t.desired /\ u.name = n /\ u.man = t.man /\ u.id = t.id
  BY <1>1, <1>2 DEF Task
<1>4. /\ \A S : Has(e, S) => Has(d, S)
      /\ \A S : Has(d, S) /\ Head(d) \notin S => Has(e, S)
      /\ \A A, B : Precedes(d, A, B) => Head(d) \notin B
      /\ \A A, B : Precedes(d, A, B) /\ Head(d) \notin A => Precedes(e, A, B)
  BY <1>1, <1>2, PlanTail
<1>5. PICK s, r : /\ s = store[n] /\ r = store'[n] /\ (r = NoService <=> s = NoService)
                  /\ s # NoService => r.id = s.id /\ r.man = s.man
                  /\ Has(t.todo, {"persist"}) => r = s
  BY DEF Calm
<1>6. s # NoService => s.id \in Id BY <1>5 DEF Data, Service
<1>7. PICK h : h = Head(d) /\ h = Head(t.todo) BY <1>1
<1>8. SaveKnows(u)'
  <2> SUFFICES ASSUME Has(e, {"persist"}) PROVE SaveKnows(u)' BY <1>3 DEF SaveKnows
  <2>1. Has(d, {"persist"}) /\ t.id \in Id BY <1>1, <1>4
  <2>2. /\ Has(d, {"spawn"}) => Wasm(t.man)
        /\ Has(d, {"docker_start"}) => Docker(t.man)
        /\ t.desired = IF s # NoService THEN s.desired ELSE "stopped"
        /\ Precedes(d, {"publish"}, {"persist"}) \/ manifests[n] = t.man
        /\ Docker(t.man) => Precedes(d, {"docker_create"}, {"persist"}) \/ ~ Runs(t.id)
    BY <1>1, <1>5, <2>1 DEF CallKnows, SaveKnows
  <2>3. Precedes(e, {"publish"}, {"persist"}) \/ manifests'[n] = t.man BY <1>1, <1>7, <2>1, <1>4, <2>2
  <2>4. Docker(t.man) => Precedes(e, {"docker_create"}, {"persist"}) \/ ~ Runs(t.id)'
    <3>1. Runs(t.id)' => Runs(t.id) BY <1>1, <2>1 DEF Has, Removes, Calm
    <3>2. h = "docker_create" => ~ Runs(t.id)' BY <1>7 DEF Discharged
    <3> QED BY <1>4, <1>7, <2>2, <3>1, <3>2
  <2> QED BY <1>1, <1>3, <1>4, <1>5, <2>1, <2>2, <2>3, <2>4 DEF SaveKnows, Runs
<1>9. ReplaceKnows(u)'
  <2> SUFFICES ASSUME Has(e, Removes), s # NoService PROVE ReplaceKnows(u)' BY <1>3, <1>5 DEF ReplaceKnows
  <2>1. /\ Wasm(s.man) => Precedes(d, {"drop"}, Removes) \/ ~ Child(n)
        /\ Docker(s.man) => Precedes(d, {"docker_remove"}, Removes) \/ ~ Runs(s.id)
    BY <1>1, <1>4, <1>5 DEF CallKnows, ReplaceKnows
  <2>2. /\ Child(n)' => Child(n)
        /\ Runs(s.id)' => Runs(s.id)
    BY <1>1, <1>4, <1>6 DEF Calm
  <2>3. /\ h = "drop" => ~ Child(n)'
        /\ h = "docker_remove" => ~ Runs(s.id)'
    BY <1>1, <1>4, <1>5, <1>7 DEF Discharged, Runs
  <2>4. /\ Wasm(s.man) => Precedes(e, {"drop"}, Removes) \/ ~ Child(n)'
        /\ Docker(s.man) => Precedes(e, {"docker_remove"}, Removes) \/ ~ Runs(s.id)'
    BY <1>4, <1>7, <2>1, <2>2, <2>3
  <2> QED BY <1>3, <1>5, <2>4 DEF ReplaceKnows, Runs
<1>10. StartKnows(u)'
  <2>1. Has(e, Starts) /\ ~ Has(e, Installing) =>
          /\ s # NoService
          /\ Has(e, {"spawn"}) => Wasm(s.man)
          /\ Has(e, {"docker_start"}) => Docker(s.man)
    BY <1>4, <1>7, <1>1, <1>5 DEF CallKnows, StartKnows
  <2>2. t.op = "boot" => ~ Has(e, {"publish"}) BY <1>1, <1>2, TailFacts DEF CallShape, Has
  <2>3. Has(e, {"desire"}) /\ t.desired = "running" => n \notin stopped'
    BY <1>1, <1>4 DEF CallKnows, StartKnows, CallShape
  <2> QED BY <1>3, <1>5, <2>1, <2>2, <2>3 DEF StartKnows
<1>11. StopKnows(u)'
  <2> SUFFICES ASSUME t.op = "stop" PROVE StopKnows(u)' BY <1>3 DEF StopKnows
  <2>1. ASSUME Has(e, {"desire"}), s # NoService
        PROVE  /\ Wasm(s.man) => Precedes(e, {"take", "reap"}, {"desire"}) \/ ~ Child(n)'
               /\ Docker(s.man) => Precedes(e, {"docker_stop"}, {"desire"}) \/ ~ Runs(s.id)'
    BY <1>1, <1>4, <1>5, <2>1, <1>6, <1>7 DEF CallKnows, StopKnows, Calm, Discharged, Runs
  <2>2. ASSUME Has(e, {"unlisten"})
        PROVE  Precedes(e, {"desire"}, {"unlisten"}) \/ IsDown(n)'
    BY <1>1, <1>4, <2>2, <1>7 DEF CallKnows, StopKnows, Calm
  <2> QED BY <1>3, <1>5, <2>1, <2>2 DEF StopKnows, Runs
<1>12. RemoveKnows(u)'
  <2> SUFFICES ASSUME Has(e, {"forget"})
               PROVE  Precedes(e, {"unpublish"}, {"forget"}) \/ manifests'[n] = NoManifest
    BY <1>3 DEF RemoveKnows
  <2>1. Precedes(d, {"unpublish"}, {"forget"}) \/ manifests[n] = NoManifest BY <1>1, <1>4 DEF CallKnows, RemoveKnows
  <2>2. manifests'[n] = NoManifest \/ (manifests'[n] = manifests[n] /\ h # "unpublish") BY <1>1, <1>4, <1>7
  <2> QED BY <1>4, <1>7, <2>1, <2>2
<1> QED BY <1>8, <1>9, <1>10, <1>11, <1>12 DEF CallKnows

\* A step of which records and directories are no part keeps what runs wanted, if it starts
\* nothing.
LEMMA WantedStays ==
  ASSUME Data, Wanted, Agreed', UNCHANGED <<store, dirs>>,
         \A n \in Name : Child(n)' => Child(n),
         \A i \in Id : Runs(i)' => Runs(i) /\ (i \in errored => i \in errored'),
         \A n \in stopped' : n \in stopped \/ (n \in Name /\ IsDown(n)),
         \A n \in Name : Awaited(n) => store[n] = NoService
  PROVE  Wanted'
<1>1. ChildWanted'
  <2> SUFFICES ASSUME NEW n \in Name, Child(n)'
               PROVE  store'[n] # NoService /\ Wasm(store'[n].man) /\ store'[n].desired = "running"
    BY DEF ChildWanted
  <2> QED BY DEF Wanted, ChildWanted
<1>2. ContainerWanted'
  <2> SUFFICES ASSUME NEW i \in Id, Runs(i)', i \notin errored'
               PROVE  \E n \in Name : /\ store'[n] # NoService /\ store'[n].id = i /\ Docker(store'[n].man)
                                      /\ Settled(n)'
    BY DEF ContainerWanted
  <2>1. PICK n \in Name : store[n] # NoService /\ store[n].id = i /\ Docker(store[n].man) /\ Settled(n)
    BY DEF Wanted, ContainerWanted
  <2>2. Settled(n)' BY <2>1 DEF Settled
  <2> QED BY <2>1, <2>2
<1>3. ASSUME NEW n \in Name, IsDown(n) PROVE IsDown(n)' BY <1>3 DEF IsDown, Data, Service
<1>4. StoppedDown'
  <2> SUFFICES ASSUME NEW n \in stopped' PROVE IsDown(n)' BY DEF StoppedDown
  <2>1. n \in Name /\ IsDown(n) BY DEF Wanted, StoppedDown, Data
  <2> QED BY <1>3, <2>1
<1> QED BY <1>1, <1>2, <1>4 DEF Wanted

\* ... and publishes nothing.
LEMMA WantedKept ==
  ASSUME Data, Wanted, UNCHANGED <<store, dirs>>,
         \A n \in Name : manifests'[n] \in {manifests[n], NoManifest},
         \A n \in Name : Child(n)' => Child(n),
         \A i \in Id : Runs(i)' => Runs(i) /\ (i \in errored => i \in errored'),
         \A n \in stopped' : n \in stopped \/ (n \in Name /\ IsDown(n)),
         \A q \in Caller : ~ At(q, "persist") /\ ~ At(q, "desire")
  PROVE  Wanted'
BY WantedStays DEF Wanted, Agreed, Awaited

\* A caller at a step of a call is about a service.
LEMMA Active ==
  ASSUME OneCaller, PInv, NEW p \in Caller, NEW t \in Task, t = task[p], t.todo # <<>>, Head(t.todo) \notin Looks
  PROVE  /\ ~ Resting(t) /\ Data /\ CallShape(t) /\ CallKnows(t)
         /\ t.name \in Name
         /\ Has(t.todo, {"persist"}) => t.id \in Id
         /\ \A q \in Caller, s \in StepName \ Looks : At(q, s) => q = p /\ Head(t.todo) = s
<1>1. ~ Resting(t) BY RestingFacts
<1>2. Data /\ CallShape(t) /\ CallKnows(t) BY DEF PInv, DInv, TInv, Variables
<1>3. t.name \in Name
  <2>1. PICK s : s = Head(t.todo) OBVIOUS
  <2>2. At(p, s) /\ TInv BY <2>1 DEF At, PInv, DInv
  <2> QED BY <2>1, <2>2, AtFacts DEF Looks, Loose
<1>4. Has(t.todo, {"persist"}) => t.id \in Id
  <2>1. CASE p = Boot BY <2>1, Lacks DEF PInv, DInv, BootFits, Installing
  <2>2. CASE p \in Proc BY <2>2 DEF PInv, DInv, Has, Installing, CallFits
  <2> QED BY <2>1, <2>2 DEF Caller
<1>5. ASSUME NEW q \in Caller, NEW s \in StepName \ Looks, At(q, s) PROVE q = p /\ Head(t.todo) = s
  BY <1>5, <1>1, RestingFacts, OthersRest DEF At, PInv
<1> QED BY <1>1, <1>2, <1>3, <1>4, <1>5

\* What a step has to show for PInv when it goes on or returns.
LEMMA StepKnows ==
  ASSUME OneCaller, PInv, DInv', NEW p \in Caller, NEW t \in Task, t = task[p], t.todo # <<>>,
         Head(t.todo) \notin Looks, Moves(p), Wanted',
         ASSUME NEW u, u = [t EXCEPT !.todo = Tail(@)], u = Advanced(t), task' = [task EXCEPT ![p] = u]
         PROVE  CallKnows(u)'
  PROVE  PInv'
<1>1. /\ ~ Resting(t) /\ CallShape(t) BY Active
<1>2. PICK u \in {Advanced(t), Ended(t)} : task' = [task EXCEPT ![p] = u] BY MovesTo
<1>3. CASE u = Ended(t)
  <2>1. Resting(u) BY <1>3, EndedRests
  <2>2. CallShape(u) /\ \A S : S \cap Looks = {} => ~ Has(u.todo, S) BY <2>1, RestingFacts
  <2>3. u.op # "stop" BY <2>1 DEF Resting
  <2>4. CallKnows(u)' BY <2>2, <2>3, RestingKnows
  <2>5. \A q \in Caller : (CallShape(task[q]) /\ CallKnows(task[q]))' BY <1>1, <1>2, <2>2, <2>4, OneActs DEF PInv
  <2> QED BY <2>5 DEF PInv
<1>4. CASE u # Ended(t)
  <2>1. u = [t EXCEPT !.todo = Tail(@)] /\ u = Advanced(t) BY <1>2, <1>4 DEF Advanced
  <2>2. CallShape(u) BY <1>1, <2>1, ShapeTail
  <2>3. CallKnows(u)' BY <1>2, <2>1
  <2>4. \A q \in Caller : (CallShape(task[q]) /\ CallKnows(task[q]))' BY <1>1, <1>2, <2>2, <2>3, OneActs DEF PInv
  <2> QED BY <2>4 DEF PInv
<1> QED BY <1>3, <1>4

\* A step that leaves the records alone and starts nothing keeps what the call knows.
LEMMA CalmStep ==
  ASSUME OneCaller, PInv, DInv', NEW p \in Caller, NEW t \in Task, t = task[p], t.todo # <<>>,
         Head(t.todo) \in CalmSteps, Moves(p), UNCHANGED <<store, dirs>>,
         manifests' = IF Head(t.todo) = "unpublish" THEN [manifests EXCEPT ![t.name] = NoManifest] ELSE manifests,
         \A n \in Name : Child(n)' => Child(n),
         \A i \in Id : Runs(i)' => Runs(i) /\ (i \in errored => i \in errored'),
         stopped' = stopped \/
           (t.op = "stop" /\ Head(t.todo) = "unlisten" /\ stopped' = stopped \cup {t.name}),
         task' # [task EXCEPT ![p] = Ended(t)] => Discharged(t)'
  PROVE  PInv'
<1>1. /\ ~ Resting(t) /\ Data /\ CallShape(t) /\ CallKnows(t)
      /\ Head(t.todo) \notin Looks \cup Installing \cup {"desire", "publish"}
      /\ Head(t.todo) \notin Looks
  BY Active DEF CalmSteps
<1>2. PICK n \in Name : n = t.name /\ t.name = n BY <1>1, Active
<1>3. Has(t.todo, {"persist"}) => t.id \in Id BY <1>1, Active
<1>4. PICK d \in Seq(StepName) : d = t.todo /\ d # <<>> BY DEF Task
<1>5. "persist" \in StepName \ Looks /\ "desire" \in StepName \ Looks BY DEF StepName, Looks
<1>6. \A q \in Caller : ~ At(q, "persist") /\ ~ At(q, "desire") BY <1>1, <1>5, Active DEF Installing
<1>7. stopped' # stopped => IsDown(n)
  <2> SUFFICES ASSUME t.op = "stop", Head(d) = "unlisten" PROVE IsDown(n) BY <1>4
  <2>1. Has(d, {"unlisten"}) BY <1>4, PlanTail
  <2>2. ~ Precedes(d, {"desire"}, {"unlisten"}) BY <1>4, PlanTail
  <2> QED BY <1>1, <1>2, <1>4, <2>1, <2>2 DEF CallKnows, StopKnows
<1>8. Wanted' BY <1>1, <1>2, <1>7, <1>6, WantedKept DEF PInv, Data
<1>9. ASSUME NEW u, u = [t EXCEPT !.todo = Tail(@)], u = Advanced(t), task' = [task EXCEPT ![p] = u]
      PROVE  CallKnows(u)'
  <2>1. CASE u = Ended(t) BY <2>1, EndedRests, RestingFacts, RestingKnows DEF Resting
  <2>2. CASE u # Ended(t)
    <3>1. task'[p] = u /\ [task EXCEPT ![p] = Ended(t)][p] = Ended(t) BY <1>9 DEF PInv, DInv, TInv
    <3>2. Discharged(t)' BY <2>2, <3>1
    <3>3. Calm(t)
      <4>1. IsDown(n) => IsDown(n)'
        <5> SUFFICES ASSUME IsDown(n) PROVE IsDown(n)' OBVIOUS
        <5>1. store[n].id \in Id BY <1>1 DEF IsDown, Data, Service
        <5> QED BY <5>1 DEF IsDown
      <4> QED BY <1>2, <4>1 DEF Calm
    <3>4. Has(t.todo, {"persist"}) => manifests'[n] = IF Head(t.todo) = "publish" THEN t.man ELSE manifests[n]
      <4> SUFFICES ASSUME Has(d, {"persist"}) PROVE manifests' = manifests BY <1>1, <1>4
      <4>1. Has(d, {"persist", "resolve", "docker_create"}) BY DEF Has
      <4>2. t.op = "apply" BY <1>1, <1>4, <4>1 DEF CallShape
      <4>3. Head(d) = "unpublish" => Has(d, {"forget", "unpublish"}) BY <1>4, PlanTail
      <4>4. Head(d) # "unpublish" BY <1>1, <1>4, <4>2, <4>3 DEF CallShape
      <4> QED BY <1>4, <4>4
    <3>5. manifests'[n] = NoManifest \/ (manifests'[n] = manifests[n] /\ Head(t.todo) # "unpublish")
      BY <1>1, <1>2 DEF Data
    <3>6. n \in stopped' => n \in stopped \/ t.op = "stop" OBVIOUS
    <3> QED BY <1>1, <1>2, <1>3, <1>9, <3>2, <3>3, <3>4, <3>5, <3>6, KnowsTail
  <2> QED BY <2>1, <2>2
<1> QED BY <1>1, <1>8, <1>9, StepKnows

\* A step of the provider by which no process starts.
LEMMA EntryStep ==
  ASSUME OneCaller, PInv, DInv', NEW p \in Caller, NEW t \in Task, t = task[p], t.todo # <<>>,
         Head(t.todo) \in CalmSteps \ {"unpublish", "docker_stop", "docker_remove", "docker_create"}, Moves(p),
         UNCHANGED <<store, dirs, manifests, containers, stopped>>,
         \A n \in Name : Child(n)' => Child(n),
         \A i \in Id : Runs(i) /\ i \in errored => i \in errored',
         Head(t.todo) \in {"take", "reap", "drop"} => ~ Child(t.name)'
  PROVE  PInv'
BY CalmStep DEF Runs, Discharged

\* A call that goes on leaves the doubts about containers, and one that returns adds to them.
LEMMA DoubtsStay ==
  ASSUME NEW p \in Caller, Continue(p) \/ Abort(p)
  PROVE  Moves(p) /\ errored \subseteq errored'
  BY DEF Continue, Abort, Moves

\* An entry is restored, or not.
LEMMA RestoreKnows ==
  ASSUME OneCaller, PInv, DInv', NEW p \in Caller, Restore(p)
  PROVE  PInv'
<1>1. PICK t \in Task : t = task[p] /\ t.todo # <<>> /\ Head(t.todo) \in {"restore", "try_restore"}
  BY AtFacts DEF Restore, PInv, DInv
<1>2. Moves(p) /\ errored \subseteq errored' BY DoubtsStay DEF Restore
<1>3. Head(t.todo) \in CalmSteps \ {"unpublish", "docker_stop", "docker_remove", "docker_create"}
  BY <1>1 DEF CalmSteps, StepName, Looks, Installing
<1>4. UNCHANGED <<store, dirs, manifests, containers, stopped>> BY DEF Restore
<1>5. ASSUME NEW n \in Name, Child(n)' PROVE Child(n)
  <2>1. prov \in [Name -> Entry \cup {NoEntry}] BY DEF PInv, DInv, TInv, Variables, Data
  <2>2. prov' = prov \/ prov' = [prov EXCEPT ![task[p].name] = [man |-> task[p].man, child |-> FALSE]] BY DEF Restore
  <2>3. prov'[n] = prov[n] \/ prov'[n] = [man |-> task[p].man, child |-> FALSE] BY <2>1, <2>2
  <2>4. ~ [man |-> task[p].man, child |-> FALSE].child OBVIOUS
  <2> QED BY <1>5, <2>3, <2>4 DEF Child
<1> QED BY <1>1, <1>2, <1>3, <1>4, <1>5, EntryStep

\* A component is staged, or not.
LEMMA BuildKnows ==
  ASSUME OneCaller, PInv, DInv', NEW p \in Caller, Build(p)
  PROVE  PInv'
<1>1. PICK t \in Task : t = task[p] /\ t.todo # <<>> /\ Head(t.todo) = "build" BY AtFacts DEF Build, PInv, DInv
<1>2. Moves(p) /\ errored \subseteq errored' BY DoubtsStay DEF Build
<1>3. Head(t.todo) \in CalmSteps \ {"unpublish", "docker_stop", "docker_remove", "docker_create"}
  BY <1>1 DEF CalmSteps, StepName, Looks, Installing
<1>4. UNCHANGED <<store, dirs, manifests, containers, stopped>> BY DEF Build
<1>5. ASSUME NEW n \in Name, Child(n)' PROVE Child(n)
  <2>1. prov \in [Name -> Entry \cup {NoEntry}] BY DEF PInv, DInv, TInv, Variables, Data
  <2>2. prov' = prov \/ prov' = [prov EXCEPT ![task[p].name] = [man |-> task[p].man, child |-> FALSE]] BY DEF Build
  <2>3. prov'[n] = prov[n] \/ prov'[n] = [man |-> task[p].man, child |-> FALSE] BY <2>1, <2>2
  <2>4. ~ [man |-> task[p].man, child |-> FALSE].child OBVIOUS
  <2> QED BY <1>5, <2>3, <2>4 DEF Child
<1> QED BY <1>1, <1>2, <1>3, <1>4, <1>5, EntryStep

\* A process that is taken down does not run, and no other one is touched.
LEMMA TakenDown ==
  ASSUME Data, NEW n \in Name, prov[n] # NoEntry,
         prov' = [prov EXCEPT ![n].child = FALSE]
  PROVE  ~ Child(n)' /\ \A m \in Name : Child(m)' => Child(m)
<1>1. prov[n] \in Entry BY DEF Data
<1>2. prov'[n] = [prov[n] EXCEPT !.child = FALSE] /\ \A m \in Name \ {n} : prov'[m] = prov[m] BY DEF Data
<1>3. ~ [prov[n] EXCEPT !.child = FALSE].child BY <1>1 DEF Entry
<1>4. ~ Child(n)' BY <1>2, <1>3 DEF Child
<1>5. \A m \in Name \ {n} : Child(m)' => Child(m) BY <1>2 DEF Child
<1> QED BY <1>4, <1>5

\* The process of a service is reaped, or its entry goes with it.
LEMMA ReapKnows ==
  ASSUME OneCaller, PInv, DInv', NEW p \in Caller, Reap(p) \/ Drop(p)
  PROVE  PInv'
<1>1. PICK t \in Task : t = task[p] /\ t.todo # <<>> /\ Head(t.todo) \in {"reap", "drop"}
  BY AtFacts DEF Reap, Drop, PInv, DInv
<1>2. Moves(p) /\ errored \subseteq errored' BY DoubtsStay DEF Reap, Drop
<1>3. /\ Head(t.todo) \in CalmSteps \ {"unpublish", "docker_stop", "docker_remove", "docker_create"}
      /\ Head(t.todo) \notin Looks
  BY <1>1 DEF CalmSteps, StepName, Looks, Installing
<1>4. UNCHANGED <<store, dirs, manifests, containers, stopped>> BY DEF Reap, Drop
<1>5. Data /\ t.name \in Name BY <1>1, <1>3, Active
<1>6. PICK n \in Name : n = t.name BY <1>5
<1>7. ~ Child(n)' /\ \A m \in Name : Child(m)' => Child(m)
  <2>1. CASE prov[n] # NoEntry /\ prov' = [prov EXCEPT ![n].child = FALSE] BY <1>5, <2>1, TakenDown
  <2>2. CASE prov[n] = NoEntry /\ prov' = prov BY <2>2 DEF Child
  <2>3. CASE prov' = [prov EXCEPT ![n] = NoEntry] BY <1>5, <2>3 DEF Child, Data
  <2> QED BY <1>1, <1>6, <2>1, <2>2, <2>3 DEF Reap, Drop
<1> QED BY <1>1, <1>2, <1>3, <1>4, <1>6, <1>7, EntryStep

\* Steps that only read, or change listeners.
LEMMA ReadKnows ==
  ASSUME OneCaller, PInv, DInv', NEW p \in Caller, Listen(p) \/ DockerInspect(p)
  PROVE  PInv'
<1>1. PICK t \in Task : t = task[p] /\ t.todo # <<>> /\ Head(t.todo) \in {"listen", "docker_inspect"}
  BY AtFacts DEF Listen, DockerInspect, PInv, DInv
<1>2. Moves(p) /\ errored \subseteq errored' BY DoubtsStay DEF Listen, DockerInspect
<1>3. Head(t.todo) \in CalmSteps \ {"unpublish", "docker_stop", "docker_remove", "docker_create"}
  BY <1>1 DEF CalmSteps, StepName, Looks, Installing
<1>4. UNCHANGED <<store, dirs, manifests, containers, stopped, prov>> BY DEF Listen, DockerInspect
<1>5. \A n \in Name : Child(n)' => Child(n) BY <1>4 DEF Child
<1> QED BY <1>1, <1>2, <1>3, <1>4, <1>5, EntryStep

\* A manifest is withdrawn, or listeners are closed: with that a stop has succeeded.
LEMMA WithdrawKnows ==
  ASSUME OneCaller, PInv, DInv', NEW p \in Caller, Unpublish(p) \/ Unlisten(p)
  PROVE  PInv'
<1>1. PICK t \in Task : t = task[p] /\ t.todo # <<>> /\ Head(t.todo) \in {"unpublish", "unlisten"}
  BY AtFacts DEF Unpublish, Unlisten, PInv, DInv
<1>2. Moves(p) /\ errored \subseteq errored' BY DoubtsStay DEF Unpublish, Unlisten
<1>3. Head(t.todo) \in CalmSteps BY <1>1 DEF CalmSteps, StepName, Looks, Installing
<1>4. UNCHANGED <<store, dirs, containers, prov>> BY DEF Unpublish, Unlisten
<1>5. \A n \in Name : Child(n)' => Child(n) BY <1>4 DEF Child
<1>6. \A i \in Id : Runs(i)' => Runs(i) /\ (i \in errored => i \in errored') BY <1>2, <1>4 DEF Runs
<1>7. Discharged(t)' BY <1>1 DEF Discharged
<1>8. manifests' = IF Head(t.todo) = "unpublish" THEN [manifests EXCEPT ![t.name] = NoManifest] ELSE manifests
  BY <1>1 DEF Unpublish, Unlisten, At
<1>9. stopped' = stopped \/
        (t.op = "stop" /\ Head(t.todo) = "unlisten" /\ stopped' = stopped \cup {t.name})
  BY <1>1 DEF Unpublish, Unlisten, At
<1> QED BY <1>1, <1>2, <1>3, <1>4, <1>5, <1>6, <1>7, <1>8, <1>9, CalmStep

\* A call that does another step first knows what it knew.
LEMMA KnowsInstead ==
  ASSUME NEW t \in Task, t.todo # <<>>, CallShape(t), CallKnows(t), Data, NEW n \in Name, t.name = n,
         NEW h \in StepName, NEW m,
         \/ h = "reap" /\ Head(t.todo) = "take" /\ m = t.man
         \/ /\ h \in {"restore", "try_restore"} /\ Head(t.todo) \in {"ensure", "try_ensure"}
            /\ ~ Has(t.todo, {"persist"}),
         NEW u, u = [t EXCEPT !.man = m, !.todo = <<h>> \o Tail(@)],
         UNCHANGED <<store, dirs, manifests, containers, stopped>>, Child(n)' => Child(n)
  PROVE  CallKnows(u)'
<1>1. PICK d \in Seq(StepName) : d = t.todo /\ d # <<>> BY DEF Task
<1>2. PICK e : e = <<h>> \o Tail(d) OBVIOUS
<1>3. /\ u.todo = e /\ u.op = t.op /\ u.desired = t.desired /\ u.name = n /\ u.man = m /\ u.id = t.id
  BY <1>1, <1>2 DEF Task
<1>4. \A S : Has(e, S) /\ h \notin S => Has(d, S) BY <1>1, <1>2, PlanInstead
<1>5. \A S : Has(d, S) /\ Head(d) \notin S => Has(e, S) BY <1>1, <1>2, PlanInstead
<1>6. \A A, B : Precedes(d, A, B) /\ h \notin B /\ (Head(d) \in A => h \in A) => Precedes(e, A, B)
  BY <1>1, <1>2, PlanInstead, Zenon
<1>7. Len(e) = Len(d) /\ \A i \in 2..Len(d) : e[i] = d[i] BY <1>1, <1>2, PlanInstead
<1>8. PICK s : s = store[n] /\ s = store'[n] OBVIOUS
<1>9. PICK g : g = Head(d) /\ g = Head(t.todo) BY <1>1
<1>10. h \in {"reap", "restore", "try_restore"} /\ g \in {"take", "ensure", "try_ensure"} BY <1>9
<1>11. SaveKnows(u)'
  <2> SUFFICES ASSUME Has(e, {"persist"}) PROVE SaveKnows(u)' BY <1>3 DEF SaveKnows
  <2>1. Has(d, {"persist"}) BY <1>4, <1>10
  <2>2. m = t.man BY <1>1, <2>1
  <2>3. /\ Has(d, {"spawn"}) => Wasm(m)
        /\ Has(d, {"docker_start"}) => Docker(m)
        /\ t.desired = IF s # NoService THEN s.desired ELSE "stopped"
        /\ Precedes(d, {"publish"}, {"persist"}) \/ manifests[n] = m
        /\ Docker(m) => Precedes(d, {"docker_create"}, {"persist"}) \/ ~ Runs(t.id)
    BY <1>1, <1>8, <2>1, <2>2 DEF CallKnows, SaveKnows
  <2>4. /\ Precedes(d, {"publish"}, {"persist"}) => Precedes(e, {"publish"}, {"persist"})
        /\ Precedes(d, {"docker_create"}, {"persist"}) => Precedes(e, {"docker_create"}, {"persist"})
    BY <1>6, <1>9, <1>10
  <2>5. /\ Has(e, {"spawn"}) => Wasm(m)
        /\ Has(e, {"docker_start"}) => Docker(m)
    BY <1>4, <1>10, <2>3
  <2> QED BY <1>3, <1>8, <2>3, <2>4, <2>5 DEF SaveKnows, Runs
<1>12. ReplaceKnows(u)'
  <2> SUFFICES ASSUME Has(e, Removes), s # NoService PROVE ReplaceKnows(u)' BY <1>3, <1>8 DEF ReplaceKnows
  <2>1. h \notin Removes BY <1>10 DEF Removes
  <2>2. /\ Wasm(s.man) => Precedes(d, {"drop"}, Removes) \/ ~ Child(n)
        /\ Docker(s.man) => Precedes(d, {"docker_remove"}, Removes) \/ ~ Runs(s.id)
    BY <1>1, <1>4, <1>8, <2>1 DEF CallKnows, ReplaceKnows
  <2>3. /\ Precedes(d, {"drop"}, Removes) => Precedes(e, {"drop"}, Removes)
        /\ Precedes(d, {"docker_remove"}, Removes) => Precedes(e, {"docker_remove"}, Removes)
    BY <1>6, <1>9, <1>10, <2>1
  <2> QED BY <1>3, <1>8, <2>2, <2>3 DEF ReplaceKnows, Runs
<1>13. StartKnows(u)'
  <2>1. h \notin Starts /\ g \notin Installing BY <1>10 DEF Starts, Installing
  <2>2. Has(e, Starts) /\ ~ Has(e, Installing) => Has(d, Starts) /\ ~ Has(d, Installing) BY <1>4, <1>5, <1>9, <2>1
  <2>3. /\ Has(e, {"spawn"}) => Has(d, {"spawn"})
        /\ Has(e, {"docker_start"}) => Has(d, {"docker_start"})
        /\ Has(e, {"desire"}) => Has(d, {"desire"})
    BY <1>4, <1>10
  <2>4. t.op = "boot" => ~ Has(e, {"publish"})
    <3> SUFFICES ASSUME t.op = "boot", NEW i \in 1..Len(e), e[i] = "publish" PROVE FALSE BY DEF Has
    <3>1. \A j \in 2..Len(d) : d[j] # "publish" BY <1>1 DEF CallShape
    <3>2. i = 1 BY <1>1, <1>7, <3>1
    <3>3. e[1] = h
      <4>1. PICK q \in Seq(StepName) : q = Tail(d) BY <1>1, TailFacts
      <4>2. e = <<h>> \o q BY <1>2, <4>1
      <4> QED BY <4>1, <4>2
    <3> QED BY <1>10, <3>2, <3>3
  <2>5. /\ Has(d, Starts) /\ ~ Has(d, Installing) =>
             /\ s # NoService
             /\ Has(d, {"spawn"}) => Wasm(s.man)
             /\ Has(d, {"docker_start"}) => Docker(s.man)
        /\ Has(d, {"desire"}) /\ t.desired = "running" => n \notin stopped
    BY <1>1, <1>8 DEF CallKnows, StartKnows
  <2>6. stopped' = stopped OBVIOUS
  <2> QED BY <1>3, <1>8, <2>2, <2>3, <2>4, <2>5, <2>6 DEF StartKnows
<1>14. StopKnows(u)'
  <2> SUFFICES ASSUME t.op = "stop" PROVE StopKnows(u)' BY <1>3 DEF StopKnows
  <2>1. /\ Precedes(d, {"take", "reap"}, {"desire"}) => Precedes(e, {"take", "reap"}, {"desire"})
        /\ Precedes(d, {"docker_stop"}, {"desire"}) => Precedes(e, {"docker_stop"}, {"desire"})
        /\ Precedes(d, {"desire"}, {"unlisten"}) => Precedes(e, {"desire"}, {"unlisten"})
    BY <1>6, <1>9, <1>10
  <2>2. /\ Has(e, {"desire"}) => Has(d, {"desire"})
        /\ Has(e, {"unlisten"}) => Has(d, {"unlisten"})
    BY <1>4, <1>10
  <2>3. ASSUME Has(e, {"desire"}), s # NoService
        PROVE  /\ Wasm(s.man) => Precedes(e, {"take", "reap"}, {"desire"}) \/ ~ Child(n)
               /\ Docker(s.man) => Precedes(e, {"docker_stop"}, {"desire"}) \/ ~ Runs(s.id)
    BY <1>1, <1>8, <2>1, <2>2, <2>3 DEF CallKnows, StopKnows
  <2>4. Has(e, {"unlisten"}) => Precedes(e, {"desire"}, {"unlisten"}) \/ IsDown(n)
    BY <1>1, <2>1, <2>2 DEF CallKnows, StopKnows
  <2>5. IsDown(n) => IsDown(n)' BY DEF IsDown, Runs
  <2> QED BY <1>3, <1>8, <2>3, <2>4, <2>5 DEF StopKnows, Runs
<1>15. RemoveKnows(u)' BY <1>1, <1>4, <1>10, <1>6, <1>9, <1>3 DEF CallKnows, RemoveKnows
<1> QED BY <1>11, <1>12, <1>13, <1>14, <1>15 DEF CallKnows

\* A step that takes another one's place and by which nothing starts.
LEMMA InsteadStep ==
  ASSUME OneCaller, PInv, DInv', NEW p \in Caller, NEW t \in Task, t = task[p], t.todo # <<>>,
         NEW h \in {"reap", "restore", "try_restore"}, NEW m,
         \/ h = "reap" /\ Head(t.todo) = "take" /\ m = t.man
         \/ h \in {"restore", "try_restore"} /\ Head(t.todo) \in {"ensure", "try_ensure"},
         NEW u, u = [t EXCEPT !.man = m, !.todo = <<h>> \o Tail(@)], task' = [task EXCEPT ![p] = u],
         UNCHANGED <<store, dirs, manifests, containers, stopped, errored>>, \A n \in Name : Child(n)' => Child(n)
  PROVE  PInv'
<1>1. Head(t.todo) \notin Looks /\ Head(t.todo) \notin Installing \cup {"desire"} /\ h \in StepName
  BY DEF Looks, Installing, StepName
<1>2. ~ Resting(t) /\ Data /\ CallShape(t) /\ CallKnows(t) /\ t.name \in Name BY <1>1, Active
<1>3. PICK n \in Name : n = t.name /\ t.name = n BY <1>2
<1>4. Head(t.todo) \in {"ensure", "try_ensure"} => ~ Has(t.todo, {"persist"})
  <2> SUFFICES ASSUME Head(t.todo) \in {"ensure", "try_ensure"}, Has(t.todo, {"persist"}) PROVE FALSE OBVIOUS
  <2>1. Has(t.todo, Installing) BY DEF Has, Installing
  <2>2. CASE p = Boot BY <2>2, <2>1, Lacks DEF PInv, DInv, BootFits
  <2>3. CASE p \in Proc BY <2>3, <2>1, OrderedTail DEF PInv, DInv, CallFits, Before, Installing, Task
  <2> QED BY <2>2, <2>3 DEF Caller
<1>5. CallShape(u) BY <1>2, ShapeInstead
<1>6. CallKnows(u)' BY <1>1, <1>2, <1>3, <1>4, KnowsInstead
<1>7. \A q \in Caller : (CallShape(task[q]) /\ CallKnows(task[q]))' BY <1>2, <1>5, <1>6, OneActs DEF PInv
<1>8. \A q \in Caller : ~ At(q, "persist") /\ ~ At(q, "desire") BY <1>1, Active DEF StepName, Looks, Installing
<1>9. Wanted' BY <1>2, <1>8, WantedKept DEF PInv, Runs
<1> QED BY <1>7, <1>9 DEF PInv

\* An entry that is missing is restored from the record first.
LEMMA EnsureKnows ==
  ASSUME OneCaller, PInv, DInv', NEW p \in Caller, Ensure(p)
  PROVE  PInv'
<1>1. PICK t \in Task : t = task[p] /\ t.todo # <<>> /\ Head(t.todo) \in {"ensure", "try_ensure"}
  BY AtFacts DEF Ensure, PInv, DInv
<1>2. UNCHANGED <<store, dirs, manifests, prov, containers, stopped>> BY DEF Ensure
<1>3. \A n \in Name : Child(n)' => Child(n) BY <1>2 DEF Child
<1>4. CASE Continue(p) \/ Abort(p)
  BY <1>4, <1>1, <1>2, <1>3, DoubtsStay, EntryStep DEF CalmSteps, StepName, Looks, Installing
<1>5. CASE ~ (Continue(p) \/ Abort(p))
  <2>1. PICK h \in {"reap", "restore", "try_restore"} :
          /\ h \in {"restore", "try_restore"}
          /\ task' = [task EXCEPT ![p] = [t EXCEPT !.man = manifests[t.name], !.todo = <<h>> \o Tail(t.todo)]]
          /\ UNCHANGED errored
    <3>1. PICK h : h = IF At(p, "ensure") THEN "restore" ELSE "try_restore" OBVIOUS
    <3> QED BY <1>1, <1>5, <3>1 DEF Ensure
  <2>2. PICK m : m = manifests[t.name] OBVIOUS
  <2>3. PICK u : u = [t EXCEPT !.man = m, !.todo = <<h>> \o Tail(@)] /\ task' = [task EXCEPT ![p] = u] BY <2>1, <2>2
  <2>4. UNCHANGED <<store, dirs, manifests, containers, stopped, errored>> BY <1>2, <2>1
  <2>5. h \in {"restore", "try_restore"} /\ Head(t.todo) \in {"ensure", "try_ensure"} BY <1>1, <2>1
  <2> QED BY <1>1, <1>3, <2>3, <2>4, <2>5, InsteadStep
<1> QED BY <1>4, <1>5

\* A process is taken out of its entry.
LEMMA TakeKnows ==
  ASSUME OneCaller, PInv, DInv', NEW p \in Caller, Take(p)
  PROVE  PInv'
<1>1. PICK t \in Task : t = task[p] /\ t.todo # <<>> /\ Head(t.todo) = "take" BY AtFacts DEF Take, PInv, DInv
<1>2. UNCHANGED <<store, dirs, manifests, containers, stopped>> BY DEF Take
<1>3. Data /\ t.name \in Name BY <1>1, Active DEF Looks
<1>4. PICK n \in Name : n = t.name BY <1>3
<1>5. CASE prov[n] # NoEntry /\ prov[n].child
  <2>1. prov' = [prov EXCEPT ![n].child = FALSE] /\ Instead(p, "reap") BY <1>1, <1>4, <1>5 DEF Take
  <2>2. \A m \in Name : Child(m)' => Child(m) BY <1>3, <1>5, <2>1, TakenDown
  <2>3. PICK m : m = t.man OBVIOUS
  <2>4. PICK h \in {"reap", "restore", "try_restore"} : h = "reap" OBVIOUS
  <2>5. PICK u : u = [t EXCEPT !.man = m, !.todo = <<h>> \o Tail(@)] OBVIOUS
  <2>6. PICK r : r = <<h>> \o Tail(t.todo) OBVIOUS
  <2>7. u = [t EXCEPT !.todo = r] BY <2>3, <2>5, <2>6 DEF Task
  <2>8. task' = [task EXCEPT ![p] = u] /\ UNCHANGED errored
    BY <2>4, <2>6, <1>1, <2>1, <2>7 DEF PInv, DInv, TInv, Instead
  <2> QED BY <1>1, <1>2, <2>2, <2>3, <2>4, <2>5, <2>8, InsteadStep
<1>6. CASE ~ (prov[n] # NoEntry /\ prov[n].child)
  <2>1. UNCHANGED prov /\ (Continue(p) \/ Abort(p)) BY <1>1, <1>4, <1>6 DEF Take
  <2>2. ~ Child(n)' /\ \A m \in Name : Child(m)' => Child(m) BY <1>6, <2>1 DEF Child
  <2>3. Moves(p) /\ errored \subseteq errored' BY <2>1, DoubtsStay
  <2>4. Head(t.todo) \in CalmSteps \ {"unpublish", "docker_stop", "docker_remove", "docker_create"}
    BY <1>1 DEF CalmSteps, StepName, Looks, Installing
  <2> QED BY <1>1, <1>2, <1>4, <2>2, <2>3, <2>4, EntryStep
<1> QED BY <1>5, <1>6

\* What a call that is about to start a process or a container knows.
LEMMA StartFacts ==
  ASSUME OneCaller, PInv, NEW p \in Caller, NEW t \in Task, t = task[p], t.todo # <<>>, Head(t.todo) \in Starts
  PROVE  /\ ~ Has(t.todo, Removes) /\ t.op # "stop" /\ t.desired = "running"
         /\ Tail(t.todo) # <<>> /\ Head(Tail(t.todo)) = "desire"
         /\ t.name \in Name /\ t.name \notin stopped /\ store[t.name] # NoService
         /\ Head(t.todo) = "spawn" => Wasm(store[t.name].man)
         /\ Head(t.todo) = "docker_start" => Docker(store[t.name].man)
<1>1. Head(t.todo) \notin Looks BY DEF Starts, Looks
<1>2. CallShape(t) /\ CallKnows(t) /\ t.name \in Name BY <1>1, Active
<1>3. PICK d \in Seq(StepName) : d = t.todo /\ d # <<>> BY DEF Task
<1>4. /\ Has(d, Starts)
      /\ Head(d) = "spawn" => Has(d, {"spawn"})
      /\ Head(d) = "docker_start" => Has(d, {"docker_start"})
  BY <1>3, PlanTail
<1>5. Tail(d) # <<>> /\ Head(Tail(d)) = "desire" BY <1>2, <1>3, PlanTail DEF CallShape, Starts
<1>6. Has(d, {"desire"}) BY <1>3, <1>5, TailFacts, PlanTail
<1>7. t.desired = "running" /\ ~ Has(d, {"forget"}) /\ t.op # "stop" BY <1>2, <1>3, <1>4, <1>6 DEF CallShape
<1>8. ~ Has(d, Installing)
  <2>1. CASE p = Boot BY <2>1, <1>3, Lacks DEF PInv, DInv, BootFits
  <2>2. CASE p \in Proc BY <1>3, <2>2, OrderedTail DEF PInv, DInv, CallFits, Before, Installing, Starts
  <2> QED BY <2>1, <2>2 DEF Caller
<1>9. ~ Has(d, Removes) BY <1>7, <1>8 DEF Has, Removes, Installing
<1>10. /\ store[t.name] # NoService
       /\ Has(d, {"spawn"}) => Wasm(store[t.name].man)
       /\ Has(d, {"docker_start"}) => Docker(store[t.name].man)
       /\ t.name \notin stopped
  BY <1>2, <1>3, <1>4, <1>6, <1>7, <1>8 DEF CallKnows, StartKnows
<1> QED BY <1>2, <1>3, <1>4, <1>5, <1>7, <1>9, <1>10

\* A call that has started something goes on to put it on record.
LEMMA StartedKnows ==
  ASSUME OneCaller, PInv, DInv', NEW p \in Caller, NEW t \in Task, t = task[p], t.todo # <<>>,
         Head(t.todo) \in Starts, Moves(p), Wanted', UNCHANGED <<store, dirs, manifests, stopped>>
  PROVE  PInv'
<1>1. Head(t.todo) \notin Looks \cup Installing \cup {"desire", "publish"} /\ Head(t.todo) \notin Looks
  BY DEF Starts, Looks, Installing
<1>2. /\ Data /\ CallShape(t) /\ CallKnows(t) /\ t.name \in Name
      /\ Has(t.todo, {"persist"}) => t.id \in Id
  BY <1>1, Active
<1>3. PICK n \in Name : n = t.name /\ t.name = n BY <1>2
<1>4. Calm(t) /\ Discharged(t)' BY StartFacts DEF Calm, Discharged, Starts
<1>5. /\ ~ Has(t.todo, {"persist"}) /\ ~ Has(t.todo, {"forget"})
      /\ n \in stopped' => n \in stopped \/ t.op = "stop"
  BY StartFacts DEF Has, Removes
<1>6. ASSUME NEW u, u = [t EXCEPT !.todo = Tail(@)], u = Advanced(t), task' = [task EXCEPT ![p] = u]
      PROVE  CallKnows(u)'
  BY <1>1, <1>2, <1>3, <1>4, <1>5, <1>6, KnowsTail
<1> QED BY <1>1, <1>6, StepKnows

\* A plan of which something is left after its first step.
LEMMA LongPlan ==
  ASSUME NEW s \in Seq(StepName), s # <<>>, Tail(s) # <<>>
  PROVE  Len(s) > 1
<1>1. Len(s) \in Nat \ {0} OBVIOUS
<1>2. PICK r \in Seq(StepName) : r # <<>> /\ Len(r) = Len(s) - 1 BY TailFacts
<1>3. Len(r) \in Nat \ {0} BY <1>2
<1> QED BY <1>1, <1>2, <1>3

\* A call that goes on after it has started something is about to put it on record.
LEMMA ThenAwaited ==
  ASSUME OneCaller, PInv, NEW p \in Caller, NEW t \in Task, t = task[p], t.todo # <<>>,
         Head(t.todo) \in Starts, task' = [task EXCEPT ![p] = Advanced(@)], NEW n \in Name, n = t.name
  PROVE  Awaited(n)'
<1>1. Tail(t.todo) # <<>> /\ Head(Tail(t.todo)) = "desire" /\ t.desired = "running" BY StartFacts
<1>2. PICK d \in Seq(StepName) : d = t.todo /\ d # <<>> BY DEF Task
<1>3. Tail(d) # <<>> BY <1>1, <1>2
<1>4. Len(t.todo) > 1 BY <1>2, <1>3, LongPlan
<1>5. Advanced(t) = [t EXCEPT !.todo = Tail(@)] BY <1>4 DEF Advanced
<1>6. task'[p] = [t EXCEPT !.todo = Tail(@)] BY <1>5 DEF PInv, DInv, TInv
<1>7. task'[p].todo = Tail(t.todo) /\ task'[p].name = n /\ task'[p].desired = "running"
  <2>1. PICK w : w = Tail(t.todo) OBVIOUS
  <2>2. PICK u : u = [t EXCEPT !.todo = w] /\ u = task'[p] BY <1>6, <2>1
  <2>3. u.todo = w /\ u.name = t.name /\ u.desired = t.desired BY <2>2 DEF Task
  <2> QED BY <1>1, <2>1, <2>2, <2>3
<1> QED BY <1>1, <1>7 DEF Awaited, At

\* The containers a call is in doubt about when it returns an error: that of the record of
\* its service, and that of the identifier it uses itself.
LEMMA InDoubt ==
  ASSUME Data, NEW t, NEW i \in Id, ~ Missing(i),
         \/ t.name \in Name /\ store[t.name] # NoService /\ store[t.name].id = i
         \/ t.id = i
  PROVE  i \in ContainersOf(t)
BY DEF Missing, ContainersOf

\* A process of a Wasmtime service starts, and its call is about to put that on record.
LEMMA SpawnWanted ==
  ASSUME OneCaller, PInv, NEW p \in Caller, NEW t \in Task, t = task[p], t.todo # <<>>, Head(t.todo) = "spawn",
         NEW n \in Name, n = t.name, prov[n] # NoEntry, prov' = [prov EXCEPT ![n].child = TRUE], Awaited(n)',
         UNCHANGED <<store, dirs, manifests, containers, stopped>>, errored \subseteq errored'
  PROVE  Wanted'
<1>1. Data /\ Wanted /\ \A q \in Caller : ~ At(q, "persist") /\ ~ At(q, "desire") BY Active DEF StepName, Looks, PInv
<1>2. \A m \in Name : ~ Awaited(m) BY <1>1 DEF Awaited
<1>3. store[n] # NoService /\ Wasm(store[n].man) BY StartFacts DEF Starts
<1>4. Agreed' BY <1>1 DEF Wanted, Agreed
<1>5. ChildWanted'
  <2> SUFFICES ASSUME NEW m \in Name, Child(m)'
               PROVE  store[m] # NoService /\ Wasm(store[m].man) /\ (store[m].desired = "running" \/ Awaited(m)')
    BY DEF ChildWanted
  <2>1. CASE m = n BY <1>3, <2>1
  <2>2. CASE m # n BY <1>1, <2>2, <1>2 DEF Child, Data, Wanted, ChildWanted
  <2> QED BY <2>1, <2>2
<1>6. ContainerWanted'
  <2> SUFFICES ASSUME NEW i \in Id, Runs(i)', i \notin errored'
               PROVE  \E m \in Name : store[m] # NoService /\ store[m].id = i /\ Docker(store[m].man) /\ Settled(m)'
    BY DEF ContainerWanted
  <2>1. Runs(i) /\ i \notin errored BY DEF Runs
  <2>2. PICK m \in Name : store[m] # NoService /\ store[m].id = i /\ Docker(store[m].man) /\ Settled(m)
    BY <1>1, <1>2, <2>1 DEF Wanted, ContainerWanted
  <2>3. Settled(m)' BY <2>2 DEF Settled
  <2> QED BY <2>2, <2>3
<1>7. StoppedDown'
  <2> SUFFICES ASSUME NEW m \in stopped PROVE IsDown(m)' BY DEF StoppedDown
  <2>1. IsDown(m) BY <1>1 DEF Wanted, StoppedDown
  <2> QED BY <2>1 DEF IsDown, Runs
<1> QED BY <1>4, <1>5, <1>6, <1>7 DEF Wanted

\* A process is started, or not.
LEMMA SpawnKnows ==
  ASSUME OneCaller, PInv, DInv', NEW p \in Caller, Spawn(p)
  PROVE  PInv'
<1>1. PICK t \in Task : t = task[p] /\ t.todo # <<>> /\ Head(t.todo) = "spawn" BY AtFacts DEF Spawn, PInv, DInv
<1>2. UNCHANGED <<store, dirs, manifests, containers, stopped>> BY DEF Spawn
<1>3. Head(t.todo) \in Starts BY <1>1 DEF Starts
<1>4. PICK n \in Name : n = t.name BY <1>1, <1>3, StartFacts
<1>5. Moves(p) /\ errored \subseteq errored' BY DoubtsStay DEF Spawn
<1>6. CASE prov[n] # NoEntry /\ prov' = [prov EXCEPT ![n].child = TRUE] /\ Continue(p)
  BY <1>1, <1>3, <1>4, <1>6, <1>2, <1>5, ThenAwaited, SpawnWanted, StartedKnows DEF Continue
<1>7. CASE UNCHANGED prov BY <1>7, <1>1, <1>2, <1>5, EntryStep DEF Child, CalmSteps, StepName, Looks, Installing
<1> QED BY <1>1, <1>4, <1>6, <1>7 DEF Spawn

\* A container of a Docker service starts, and its call is about to put that on record, or
\* is in doubt about it.
LEMMA ContainerStarts ==
  ASSUME OneCaller, PInv, NEW p \in Caller, NEW t \in Task, t = task[p], t.todo # <<>>, Head(t.todo) = "docker_start",
         NEW n \in Name, n = t.name, NEW i \in Id, i = store[n].id, containers' = [containers EXCEPT ![i] = "running"],
         Awaited(n)' \/ i \in errored',
         UNCHANGED <<store, dirs, manifests, prov, stopped>>, errored \subseteq errored'
  PROVE  Wanted'
<1>1. Data /\ Wanted /\ RecordsFit /\ \A q \in Caller : ~ At(q, "persist") /\ ~ At(q, "desire")
  BY Active DEF StepName, Looks, PInv, DInv
<1>2. \A m \in Name : ~ Awaited(m) BY <1>1 DEF Awaited
<1>3. store[n] # NoService /\ Docker(store[n].man) /\ n \notin stopped BY StartFacts DEF Starts
<1>4. Agreed' BY <1>1 DEF Wanted, Agreed
<1>5. ChildWanted'
  <2> SUFFICES ASSUME NEW m \in Name, Child(m)'
               PROVE  store[m] # NoService /\ Wasm(store[m].man) /\ store[m].desired = "running"
    BY DEF ChildWanted
  <2>1. Child(m) BY DEF Child
  <2> QED BY <1>1, <1>2, <2>1 DEF Wanted, ChildWanted
<1>6. \A j \in Id \ {i} : Runs(j)' => Runs(j) BY <1>1 DEF Data, Runs
<1>7. ContainerWanted'
  <2> SUFFICES ASSUME NEW j \in Id, Runs(j)', j \notin errored'
               PROVE  \E m \in Name : /\ store[m] # NoService /\ store[m].id = j /\ Docker(store[m].man)
                                      /\ Settled(m)' \/ Awaited(m)'
    BY DEF ContainerWanted
  <2>1. CASE j = i BY <1>3, <2>1
  <2>2. CASE j # i
    <3>1. Runs(j) /\ j \notin errored BY <1>6, <2>2
    <3>2. PICK m \in Name : store[m] # NoService /\ store[m].id = j /\ Docker(store[m].man) /\ Settled(m)
      BY <1>1, <1>2, <3>1 DEF Wanted, ContainerWanted
    <3>3. Settled(m)' BY <3>2 DEF Settled
    <3> QED BY <3>2, <3>3
  <2> QED BY <2>1, <2>2
<1>8. StoppedDown'
  <2> SUFFICES ASSUME NEW m \in stopped PROVE IsDown(m)' BY DEF StoppedDown
  <2>1. IsDown(m) /\ m \in Name /\ m # n BY <1>1, <1>3 DEF Wanted, StoppedDown, Data
  <2>2. store[m] # NoService /\ store[m].id \in Id /\ store[m].id # i
    BY <1>1, <1>3, <2>1 DEF IsDown, RecordsFit, Data, Service
  <2>3. Runs(store[m].id)' => Runs(store[m].id) BY <1>6, <2>2
  <2> QED BY <2>1, <2>3 DEF IsDown, Runs
<1> QED BY <1>4, <1>5, <1>7, <1>8 DEF Wanted

\* A container is started, or not.
LEMMA DockerStartKnows ==
  ASSUME OneCaller, PInv, DInv', NEW p \in Caller, DockerStart(p)
  PROVE  PInv'
<1>1. PICK t \in Task : t = task[p] /\ t.todo # <<>> /\ Head(t.todo) = "docker_start"
  BY AtFacts DEF DockerStart, PInv, DInv
<1>2. UNCHANGED <<store, dirs, manifests, prov, stopped>> BY DEF DockerStart, Request
<1>3. Head(t.todo) \in Starts BY <1>1 DEF Starts
<1>4. PICK n \in Name : n = t.name BY <1>1, <1>3, StartFacts
<1>5. Data /\ store[n] # NoService BY <1>1, <1>3, <1>4, StartFacts DEF PInv, DInv, TInv, Variables
<1>6. PICK i \in Id : i = store[n].id BY <1>5 DEF Data, Service
<1>7. Handle(t) = i BY <1>1, <1>4, <1>5, <1>6 DEF Handle
<1>8. Moves(p) /\ errored \subseteq errored' BY <1>1, DoubtsStay DEF DockerStart, Request, Moves, Abort
<1>9. CASE ~ Missing(i) /\ containers' = [containers EXCEPT ![i] = "running"]
  <2>1. \/ task' = [task EXCEPT ![p] = Advanced(@)]
        \/ Abort(p)
    BY <1>8 DEF Moves
  <2>2. Awaited(n)' \/ i \in errored'
    <3>1. CASE task' = [task EXCEPT ![p] = Advanced(@)] BY <1>1, <1>3, <1>4, <3>1, ThenAwaited
    <3>2. CASE Abort(p) BY <1>4, <1>5, <1>6, <1>9, <1>1, <3>2, InDoubt DEF Abort
    <3> QED BY <2>1, <3>1, <3>2
  <2>3. Wanted' BY <1>1, <1>2, <1>4, <1>6, <1>8, <1>9, <2>2, ContainerStarts
  <2> QED BY <1>1, <1>2, <1>3, <1>8, <2>3, StartedKnows
<1>10. CASE UNCHANGED containers
  BY <1>2, <1>1, <1>8, <1>10, EntryStep DEF Child, CalmSteps, StepName, Looks, Installing
<1>11. \/ ~ Missing(i) /\ containers' = [containers EXCEPT ![i] = "running"]
       \/ UNCHANGED containers
  BY <1>1, <1>7 DEF DockerStart, Request
<1> QED BY <1>9, <1>10, <1>11

\* The container a call stops or removes is that of the record of its service.
LEMMA HandleFacts ==
  ASSUME OneCaller, PInv, NEW p \in Caller, NEW t \in Task, t = task[p], t.todo # <<>>,
         Head(t.todo) \in {"docker_stop", "docker_remove", "docker_create"}
  PROVE  /\ Handle(t) \in Id \cup {NoId}
         /\ Head(t.todo) = "docker_stop" /\ store[t.name] # NoService => Handle(t) = store[t.name].id
         /\ Head(t.todo) = "docker_remove" /\ Has(t.todo, Removes) /\ store[t.name] # NoService
              => Handle(t) = store[t.name].id
         /\ Head(t.todo) = "docker_create" => Handle(t) = t.id
<1>1. Head(t.todo) \notin Looks BY DEF Looks
<1>2. Data /\ CallShape(t) /\ t.name \in Name BY <1>1, Active
<1>3. PICK n \in Name : n = t.name BY <1>2
<1>4. t.id \in Id \cup {NoId} /\ (store[n] # NoService => store[n].id \in Id) BY <1>2 DEF Task, Data, Service
<1>5. Handle(t) \in Id \cup {NoId} BY <1>3, <1>4 DEF Handle
<1>6. PICK d \in Seq(StepName) : d = t.todo /\ d # <<>> BY DEF Task
<1>7. Head(d) = "docker_create" => t.op = "apply" BY <1>6, <1>2, PlanTail DEF CallShape
<1>8. ASSUME Head(d) = "docker_remove", Has(d, Removes), store[n] # NoService, t.op = "apply"
      PROVE  t.id = store[n].id
  <2>1. Has(d, {"forget"}) => Has(d, {"forget", "unpublish"}) BY DEF Has
  <2>2. ~ Has(d, {"forget"}) BY <1>2, <1>6, <1>8, <2>1 DEF CallShape
  <2>3. Has(d, Installing) BY <1>8, <2>2 DEF Has, Removes, Installing
  <2>4. p # Boot
    <3> SUFFICES ASSUME p = Boot PROVE FALSE OBVIOUS
    <3>1. d \in Seq(StepName \ Installing) /\ (StepName \ Installing) \cap Installing = {}
      BY <1>6 DEF PInv, DInv, BootFits
    <3> QED BY <2>3, <3>1, Lacks
  <2>5. CallFits(t) BY <2>4 DEF PInv, DInv, Caller
  <2> QED BY <1>3, <1>6, <1>8, <2>3, <2>5 DEF CallFits
<1>9. Head(d) = "docker_create" => Handle(t) = t.id BY <1>6, <1>7 DEF Handle
<1>10. Head(d) = "docker_stop" /\ store[n] # NoService => Handle(t) = store[n].id BY <1>3, <1>6 DEF Handle
<1>11. Head(d) = "docker_remove" /\ Has(d, Removes) /\ store[n] # NoService => Handle(t) = store[n].id
  BY <1>3, <1>6, <1>8 DEF Handle
<1> QED BY <1>3, <1>5, <1>6, <1>9, <1>10, <1>11

\* What a call has done to the container it handles, if it goes on.
LEMMA HandleDischarged ==
  ASSUME OneCaller, PInv, NEW p \in Caller, NEW t \in Task, t = task[p], t.todo # <<>>,
         Head(t.todo) \in {"docker_stop", "docker_remove", "docker_create"}, UNCHANGED store,
         NEW h, h = Handle(t), h \in Id \/ Head(t.todo) = "docker_create" => containers'[h] # "running"
  PROVE  Discharged(t)'
<1>1. Data /\ t.name \in Name BY Active DEF Looks
<1>2. PICK n \in Name : n = t.name BY <1>1
<1>3. store[n] # NoService => store[n].id \in Id BY <1>1 DEF Data, Service
<1>6. /\ Head(t.todo) = "docker_stop" /\ store[n] # NoService => h = store[n].id
      /\ Head(t.todo) = "docker_remove" /\ Has(t.todo, Removes) /\ store[n] # NoService => h = store[n].id
      /\ Head(t.todo) = "docker_create" => h = t.id
  BY <1>2, HandleFacts
<1> QED BY <1>2, <1>3, <1>6 DEF Discharged, Runs

\* A container is created, stopped or removed, or is not there.
LEMMA ContainerKnows ==
  ASSUME OneCaller, PInv, DInv', NEW p \in Caller, DockerCreate(p) \/ DockerStop(p) \/ DockerRemove(p)
  PROVE  PInv'
<1>1. PICK t \in Task :
        t = task[p] /\ t.todo # <<>> /\ Head(t.todo) \in {"docker_stop", "docker_remove", "docker_create"}
  BY AtFacts DEF DockerCreate, DockerStop, DockerRemove, PInv, DInv
<1>2. UNCHANGED <<store, dirs, manifests, prov, stopped>>
  BY DEF DockerCreate, DockerStop, DockerRemove, Request, Tolerate
<1>3. Head(t.todo) \in CalmSteps /\ Head(t.todo) \notin Looks BY <1>1 DEF CalmSteps, StepName, Looks, Installing
<1>4. Data BY <1>1, <1>3, Active
<1>5. PICK i \in Id \cup {NoId} : i = Handle(t) BY <1>1, HandleFacts
<1>6. PICK next \in {"created", "none"} :
        \/ /\ containers' = [containers EXCEPT ![i] = next]
           /\ \/ task' = [task EXCEPT ![p] = Advanced(@)] /\ (errored' = errored \/ errored' = errored \ {i})
              \/ Abort(p)
           /\ Head(t.todo) = "docker_create" => containers[i] # "running"
        \/ /\ UNCHANGED containers
           /\ Abort(p) \/ (Head(t.todo) # "docker_create" /\ Missing(i) /\ Continue(p))
  <2>1. CASE DockerCreate(p) BY <1>1, <1>5, <2>1 DEF DockerCreate, Continue
  <2>2. CASE DockerStop(p) BY <2>2, <1>1, <1>5 DEF DockerStop, At, Request, Tolerate
  <2>3. CASE DockerRemove(p) BY <2>3, <1>1, <1>5 DEF DockerRemove, At, Request, Tolerate
  <2> QED BY <2>1, <2>2, <2>3
<1>7. Moves(p) BY <1>6, DoubtsStay DEF Moves
<1>8. \A j \in Id : Runs(j)' => Runs(j) /\ (j \in errored => j \in errored')
  <2> SUFFICES ASSUME NEW j \in Id, Runs(j)' PROVE Runs(j) /\ (j \in errored => j \in errored') OBVIOUS
  <2>1. CASE /\ containers' = [containers EXCEPT ![i] = next]
             /\ \/ errored' = errored \/ errored' = errored \ {i}
                \/ Abort(p)
    BY <1>4, <2>1, DoubtsStay DEF Runs, Data
  <2>2. CASE UNCHANGED containers /\ (Abort(p) \/ Continue(p)) BY <2>2, DoubtsStay DEF Runs
  <2> QED BY <1>6, <2>1, <2>2
<1>9. ASSUME task' # [task EXCEPT ![p] = Ended(t)] PROVE Discharged(t)'
  <2>1. ~ Abort(p) BY <1>1, <1>9 DEF Abort
  <2>2. i \in Id \/ Head(t.todo) = "docker_create" => containers'[i] # "running"
    <3>1. CASE containers' = [containers EXCEPT ![i] = next] /\ (Head(t.todo) = "docker_create" => ~ Runs(i))
      BY <1>4, <3>1 DEF Data, Runs
    <3>2. CASE UNCHANGED containers /\ Missing(i) /\ Head(t.todo) # "docker_create"
      BY <3>2, RuntimeAssumption DEF Missing, Runs
    <3> QED BY <1>6, <2>1, <3>1, <3>2 DEF Runs
  <2> QED BY <1>1, <1>2, <1>5, <2>2, HandleDischarged
<1>10. \A n \in Name : Child(n)' => Child(n) BY <1>2 DEF Child
<1> QED BY <1>1, <1>2, <1>3, <1>7, <1>8, <1>9, <1>10, CalmStep

\* A call that goes on to its next step.
LEMMA ThenGoes ==
  ASSUME PInv, NEW p \in Caller, NEW t \in Task, t = task[p], t.todo # <<>>, Tail(t.todo) # <<>>,
         task' = [task EXCEPT ![p] = Advanced(@)]
  PROVE  /\ At(p, Head(Tail(t.todo)))'
         /\ task'[p].name = t.name /\ task'[p].man = t.man /\ task'[p].id = t.id /\ task'[p].desired = t.desired
<1>1. PICK d \in Seq(StepName) : d = t.todo /\ d # <<>> BY DEF Task
<1>2. Tail(d) # <<>> BY <1>1
<1>3. Len(t.todo) > 1 BY <1>1, <1>2, LongPlan
<1>4. Advanced(t) = [t EXCEPT !.todo = Tail(@)] BY <1>3 DEF Advanced
<1>5. task'[p] = [t EXCEPT !.todo = Tail(@)] BY <1>4 DEF PInv, DInv, TInv
<1>6. PICK w : w = Tail(t.todo) OBVIOUS
<1>7. PICK u : u = [t EXCEPT !.todo = w] /\ u = task'[p] BY <1>5, <1>6
<1>8. u.todo = w /\ u.name = t.name /\ u.desired = t.desired /\ u.man = t.man /\ u.id = t.id BY <1>7 DEF Task
<1> QED BY <1>6, <1>7, <1>8 DEF At

\* A manifest is published: it is that on record, or will be with the next step.
LEMMA PublishKnows ==
  ASSUME OneCaller, PInv, DInv', NEW p \in Caller, Publish(p)
  PROVE  PInv'
<1>1. PICK t \in Task : t = task[p] /\ t.todo # <<>> /\ Head(t.todo) = "publish" /\ t.man \in Manifest
  BY AtFacts DEF Publish, PInv, DInv, Installs
<1>2. /\ manifests' = [manifests EXCEPT ![t.name] = t.man]
      /\ task' = [task EXCEPT ![p] = Advanced(@)]
      /\ UNCHANGED <<store, dirs, prov, containers, stopped, errored>>
  BY <1>1 DEF Publish, Continue
<1>3. Head(t.todo) \notin Looks /\ Head(t.todo) \notin Installing /\ "persist" \in StepName \ Looks
      /\ "desire" \in StepName \ Looks
  BY <1>1 DEF Looks, Installing, StepName
<1>4. /\ Data /\ CallShape(t) /\ CallKnows(t)
      /\ Has(t.todo, {"persist"}) => t.id \in Id
  BY <1>1, <1>3, Active
<1>5. PICK n \in Name : n = t.name /\ t.name = n BY <1>1, <1>3, Active
<1>6. \A q \in Caller : ~ At(q, "persist") /\ ~ At(q, "desire") BY <1>1, <1>3, Active
<1>7. PICK d \in Seq(StepName) : d = t.todo /\ d # <<>> /\ Head(d) = "publish" BY <1>1 DEF Task
<1>8. Has(d, {"publish"}) BY <1>7, PlanTail
<1>9. manifests'[n] = t.man /\ \A m \in Name \ {n} : manifests'[m] = manifests[m] BY <1>2, <1>4, <1>5 DEF Data
<1>10. \/ store[n] # NoService /\ store[n].man = t.man
       \/ At(p, "persist")' /\ task'[p].name = n
  <2>1. CASE t.op = "apply"
    <3>1. Followed(d, "publish", "persist") BY <1>4, <1>7, <2>1 DEF CallShape
    <3>2. Tail(d) # <<>> /\ Head(Tail(d)) = "persist" BY <1>7, <3>1, PlanTail
    <3>3. Tail(t.todo) # <<>> /\ Head(Tail(t.todo)) = "persist" BY <1>7, <3>2
    <3> QED BY <1>1, <1>2, <1>5, <3>3, ThenGoes
  <2>2. CASE t.op = "boot" BY <1>4, <1>5, <1>7, <1>8, <2>2 DEF CallKnows, StartKnows
  <2> QED BY <1>4, <1>7, <1>8, <2>1, <2>2 DEF CallShape
<1>11. Wanted'
  <2>1. Agreed'
    <3> SUFFICES ASSUME NEW m \in Name, manifests'[m] # NoManifest
                 PROVE  \/ store'[m] # NoService /\ store'[m].man = manifests'[m]
                        \/ \E q \in Caller : At(q, "persist")' /\ task'[q].name = m
      BY DEF Agreed
    <3>1. CASE m = n BY <1>2, <1>9, <1>10, <3>1
    <3>2. CASE m # n BY <1>2, <1>6, <1>9, <3>2 DEF PInv, Wanted, Agreed
    <3> QED BY <3>1, <3>2
  <2>2. /\ \A m \in Name : Child(m)' => Child(m)
        /\ \A i \in Id : Runs(i)' => Runs(i) /\ (i \in errored => i \in errored')
    BY <1>2 DEF Child, Runs
  <2>3. \A m \in Name : ~ Awaited(m) BY <1>6 DEF Awaited
  <2> QED BY <1>2, <1>4, <2>1, <2>2, <2>3, WantedStays DEF PInv
<1>12. ASSUME NEW u, u = [t EXCEPT !.todo = Tail(@)], u = Advanced(t), task' = [task EXCEPT ![p] = u]
      PROVE  CallKnows(u)'
  <2>1. Calm(t) BY <1>2 DEF Calm, Child, Runs, IsDown
  <2>2. Discharged(t)' BY <1>1 DEF Discharged
  <2>3. /\ manifests'[n] = IF Head(t.todo) = "publish" THEN t.man ELSE manifests[n]
        /\ t.op = "stop" /\ Head(t.todo) = "desire" => IsDown(n)'
        /\ n \in stopped' => n \in stopped \/ t.op = "stop"
    BY <1>1, <1>2, <1>9
  <2>4. ~ Has(t.todo, {"forget"}) BY <1>4, <1>7, <1>8 DEF Has, CallShape
  <2> QED BY <1>1, <1>3, <1>4, <1>5, <1>12, <2>1, <2>2, <2>3, <2>4, KnowsTail
<1>13. Moves(p) BY <1>2 DEF Moves
<1> QED BY <1>1, <1>3, <1>11, <1>12, <1>13, StepKnows

\* What is said of a service stays true as long as its record, its directory and its container stay.
LEMMA OtherStays ==
  ASSUME NEW m \in Name, store'[m] = store[m], NEW i, i = store[m].id,
         dirs'[i] = dirs[i], Runs(i)' => Runs(i)
  PROVE  (Settled(m) => Settled(m)') /\ (IsDown(m) => IsDown(m)')
BY DEF Settled, Runs, IsDown

\* What a call that is about to put the desired state on record knows of the service.
LEMMA DesireFacts ==
  ASSUME OneCaller, PInv, NEW p \in Caller, NEW t \in Task, t = task[p], t.todo # <<>>, Head(t.todo) = "desire",
         NEW n \in Name, n = t.name, NEW s, s = store[n], s # NoService
  PROVE  /\ t.desired = IF t.op = "stop" THEN "stopped" ELSE "running"
         /\ t.desired = "stopped" => (Wasm(s.man) => ~ Child(n)) /\ (Docker(s.man) => ~ Runs(s.id))
         /\ t.desired = "running" => n \notin stopped
<1>1. CallShape(t) /\ CallKnows(t) BY DEF PInv
<1>2. PICK d \in Seq(StepName) : d = t.todo /\ d # <<>> /\ Head(d) = "desire" BY DEF Task
<1>3. Has(d, {"desire"}) /\ \A A : ~ Precedes(d, A, {"desire"}) BY <1>2, PlanTail
<1>4. t.desired = IF t.op = "stop" THEN "stopped" ELSE "running" BY <1>1, <1>2, <1>3 DEF CallShape
<1>5. t.desired = "running" => n \notin stopped BY <1>1, <1>2, <1>3 DEF CallKnows, StartKnows
<1>6. t.op = "stop" => (Wasm(s.man) => ~ Child(n)) /\ (Docker(s.man) => ~ Runs(s.id))
  BY <1>1, <1>2, <1>3 DEF CallKnows, StopKnows
<1> QED BY <1>4, <1>5, <1>6

\* The record of n and its directory, once the desired state has been saved or the save has
\* failed.
LEMMA DesireWanted ==
  ASSUME OneCaller, PInv, NEW p \in Caller, NEW t \in Task, t = task[p], t.todo # <<>>, Head(t.todo) = "desire",
         NEW n \in Name, n = t.name, NEW s \in Service, s = store[n], NEW i \in Id, i = s.id,
         NEW r \in Service, r.id = i, r.man = s.man, r.desired = t.desired,
         store'[n] = r, \A m \in Name \ {n} : store'[m] = store[m],
         \A j \in Id \ {i} : dirs'[j] = dirs[j],
         DesireSaved(n, i, s.man, t.desired),
         errored \subseteq errored', UNCHANGED <<manifests, prov, containers, stopped>>
  PROVE  Wanted' /\ (t.desired = "stopped" /\ dirs'[i] # NoDir /\ dirs'[i].name = n
                     /\ dirs'[i].man = s.man /\ dirs'[i].desired = "stopped" => IsDown(n)')
<1>1. Data /\ RecordsFit /\ Wanted /\ s # NoService BY RuntimeAssumption DEF PInv, DInv, TInv, Variables
<1>2. /\ t.desired = IF t.op = "stop" THEN "stopped" ELSE "running"
      /\ t.desired = "stopped" => (Wasm(s.man) => ~ Child(n)) /\ (Docker(s.man) => ~ Runs(i))
      /\ t.desired = "running" => n \notin stopped
  BY <1>1, DesireFacts
<1>3. /\ store'[n] = r /\ r # NoService /\ \A m \in Name \ {n} : store'[m] = store[m]
      /\ \A j \in Id : Runs(j)' => Runs(j)
      /\ \A m \in Name : Child(m)' => Child(m)
  BY <1>1, RuntimeAssumption DEF Data, Runs, Child
<1>4. \A m \in Name \ {n} : ~ Awaited(m) BY Active DEF Looks, StepName, Awaited
<1>5. \A q \in Caller : ~ At(q, "persist") BY Active DEF Looks, StepName
<1>6. ASSUME NEW m \in Name \ {n}, store[m] # NoService
      PROVE  store[m].id # i /\ (Settled(m) => Settled(m)') /\ (IsDown(m) => IsDown(m)')
  <2>1. PICK j \in Id : j = store[m].id BY <1>1, <1>6 DEF Data, Service
  <2>2. j # i BY <1>1, <1>6, <2>1 DEF RecordsFit
  <2> QED BY <1>3, <2>1, <2>2, OtherStays
<1>7. Agreed' BY <1>1, <1>3, <1>5 DEF Wanted, Agreed
<1>8. ChildWanted'
  <2> SUFFICES ASSUME NEW m \in Name, Child(m)'
               PROVE  store'[m] # NoService /\ Wasm(store'[m].man) /\ store'[m].desired = "running"
    BY DEF ChildWanted
  <2>1. Child(m) BY <1>3
  <2>2. store[m] # NoService /\ Wasm(store[m].man) /\ (store[m].desired = "running" \/ Awaited(m))
    BY <1>1, <2>1 DEF Wanted, ChildWanted
  <2>3. CASE m # n BY <1>3, <1>4, <2>2, <2>3
  <2>4. CASE m = n BY <1>2, <1>3, <2>1, <2>2, <2>4
  <2> QED BY <2>3, <2>4
<1>9. ContainerWanted'
  <2> SUFFICES ASSUME NEW j \in Id, Runs(j)', j \notin errored'
               PROVE  \E m \in Name : /\ store'[m] # NoService /\ store'[m].id = j /\ Docker(store'[m].man)
                                      /\ Settled(m)'
    BY DEF ContainerWanted
  <2>1. Runs(j) /\ j \notin errored BY <1>3
  <2>2. PICK m \in Name : /\ store[m] # NoService /\ store[m].id = j /\ Docker(store[m].man)
                          /\ Settled(m) \/ Awaited(m)
    BY <1>1, <2>1 DEF Wanted, ContainerWanted
  <2>3. CASE m # n BY <1>4, <1>6, <2>2, <2>3, <1>3
  <2>4. CASE m = n
    <3>1. t.desired = "running" /\ j = i BY <1>2, <2>1, <2>2, <2>4
    <3>2. /\ dirs'[i] # NoDir /\ dirs'[i].name = n /\ dirs'[i].man = s.man /\ dirs'[i].desired = "running"
      BY <2>1, <3>1 DEF DesireSaved
    <3>3. Settled(n)' BY <1>3, <2>2, <2>4, <3>1, <3>2 DEF Settled
    <3> QED BY <1>3, <2>2, <2>4, <3>1, <3>3
  <2> QED BY <2>3, <2>4
<1>10. ASSUME t.desired = "stopped", dirs'[i] # NoDir, dirs'[i].name = n, dirs'[i].desired = "stopped",
              dirs'[i].man = s.man \/ (IsDown(n) /\ dirs'[i].man = dirs[i].man)
       PROVE  IsDown(n)'
  BY <1>2, <1>10, <1>3 DEF IsDown, Runs
<1>11. StoppedDown'
  <2> SUFFICES ASSUME NEW m \in stopped PROVE IsDown(m)' BY DEF StoppedDown
  <2>1. m \in Name /\ IsDown(m) BY <1>1 DEF Wanted, StoppedDown, Data
  <2>2. CASE m # n BY <1>6, <2>1, <2>2 DEF IsDown
  <2>3. CASE m = n BY <1>2, <1>10, <2>1, <2>3 DEF DesireSaved, IsDown
  <2> QED BY <2>2, <2>3
<1> QED BY <1>7, <1>8, <1>9, <1>10, <1>11 DEF Wanted

\* A call that returns an error knows nothing any more.
LEMMA AbortKnows ==
  ASSUME OneCaller, PInv, DInv', NEW p \in Caller, NEW t \in Task, t = task[p], t.todo # <<>>,
         Head(t.todo) \notin Looks, Abort(p), Wanted'
  PROVE  PInv'
<1>1. ASSUME NEW u, u = Advanced(t), task' = [task EXCEPT ![p] = u] PROVE u = Ended(t)
  BY <1>1 DEF PInv, DInv, TInv, Abort
<1>2. ASSUME NEW u, u = [t EXCEPT !.todo = Tail(@)], u = Advanced(t), task' = [task EXCEPT ![p] = u]
      PROVE  CallKnows(u)'
  BY <1>1, <1>2, EndedRests, RestingFacts, RestingKnows DEF Resting
<1> QED BY <1>2, DoubtsStay, StepKnows

\* The desired state is put on record, or not.
LEMMA DesireKnows ==
  ASSUME OneCaller, PInv, DInv', NEW p \in Caller, Desire(p)
  PROVE  PInv'
<1>1. PICK t \in Task : t = task[p] /\ t.todo # <<>> /\ Head(t.todo) = "desire" BY AtFacts DEF Desire, PInv, DInv
<1>2. UNCHANGED <<manifests, prov, containers, stopped>> BY DEF Desire
<1>3. Head(t.todo) \notin Looks /\ Head(t.todo) \notin Installing /\ "desire" \in StepName \ Looks
      /\ "persist" \in StepName \ Looks
  BY <1>1 DEF Looks, Installing, StepName
<1>4. /\ Data /\ CallShape(t) /\ CallKnows(t) /\ t.name \in Name
      /\ Has(t.todo, {"persist"}) => t.id \in Id
      /\ \A q \in Caller : (At(q, "desire") => q = p) /\ ~ At(q, "persist")
  BY <1>1, <1>3, Active
<1>5. PICK n \in Name : n = t.name /\ t.name = n BY <1>4
<1>6. CASE store[n] = NoService
  <2>1. Abort(p) /\ UNCHANGED <<store, dirs>> BY <1>1, <1>5, <1>6 DEF Desire
  <2>2. Moves(p) /\ errored \subseteq errored' BY <2>1, DoubtsStay
  <2>3. Wanted'
    BY <1>2, <1>4, <2>1, <1>1, <1>5, <1>6, <2>2, WantedStays DEF PInv, Wanted, Agreed, Awaited, Child, Runs
  <2> QED BY <1>1, <1>3, <2>1, <2>3, AbortKnows
<1>7. CASE store[n] # NoService
  <2>1. PICK s \in Service : s = store[n] BY <1>4, <1>7 DEF Data
  <2>2. PICK i \in Id : i = s.id /\ s.id = i BY DEF Service
  <2>3. PICK r \in Service : r = Desired(t) /\ r.id = i /\ r.man = s.man /\ r.desired = t.desired
    <3>1. [s EXCEPT !.desired = t.desired] \in Service /\ [s EXCEPT !.desired = t.desired].id = i
          /\ [s EXCEPT !.desired = t.desired].man = s.man
          /\ [s EXCEPT !.desired = t.desired].desired = t.desired
      BY <2>2 DEF Service, Task
    <3> QED BY <1>5, <2>1, <3>1 DEF Desired
  <2>4. Save(p, n, r) BY <1>1, <1>5, <1>7, <2>3 DEF Desire
  <2>5. store'[n] = r /\ \A m \in Name \ {n} : store'[m] = store[m] BY <1>4, <2>4 DEF Save, Data
  <2>6. Moves(p) /\ errored \subseteq errored' BY <2>4, DoubtsStay DEF Save
  <2>7. /\ Written(n, r)[i] = [name |-> n, man |-> s.man, desired |-> t.desired]
        /\ YamlWritten(n, r)[i] = [name |-> n, man |-> s.man,
                                   desired |-> IF dirs[i] = NoDir THEN "stopped" ELSE dirs[i].desired]
        /\ \A j \in Id \ {i} : Written(n, r)[j] = dirs[j] /\ YamlWritten(n, r)[j] = dirs[j]
    BY <1>4, <2>3 DEF Written, YamlWritten, Data
  <2>8. \A x \in Manifest, y \in DesiredState : [name |-> n, man |-> x, desired |-> y] # NoDir
    BY RuntimeAssumption DEF Dir
  <2>9. s.man \in Manifest /\ t.desired \in DesiredState /\ s # NoService BY <1>7, <2>1 DEF Service, Task
  <2>10. CASE dirs' = Written(n, r) /\ Continue(p)
    <3>1. /\ dirs'[i] # NoDir /\ dirs'[i].name = n /\ dirs'[i].man = s.man /\ dirs'[i].desired = t.desired
          /\ \A j \in Id \ {i} : dirs'[j] = dirs[j]
      BY <2>7, <2>8, <2>9, <2>10
    <3>2. Wanted' /\ (t.desired = "stopped" => IsDown(n)')
      BY <3>1, <1>1, <1>2, <1>5, <2>1, <2>2, <2>3, <2>5, <2>6, DesireWanted DEF DesireSaved
    <3>3. t.op = "stop" => t.desired = "stopped" BY <1>1, <1>5, <2>1, <2>9, DesireFacts
    <3>4. Calm(t)
      <4>1. store'[n] = r /\ r # NoService BY <1>4, <2>5, RuntimeAssumption DEF Data
      <4>2. ~ Has(t.todo, {"persist"})
        <5>1. CASE p = Boot BY <1>1, <5>1, Lacks DEF PInv, DInv, BootFits, Installing
        <5>2. CASE p \in Proc BY <1>1, <5>2, OrderedTail DEF PInv, DInv, CallFits, Before, Installing, Task, Has
        <5> QED BY <5>1, <5>2 DEF Caller
      <4>3. (Child(n)' => Child(n)) /\ \A j \in Id : Runs(j)' => Runs(j) BY <1>2 DEF Child, Runs
      <4> QED BY <1>5, <1>7, <2>1, <2>2, <2>3, <3>2, <3>3, <4>1, <4>2, <4>3 DEF Calm
    <3>5. Discharged(t)' BY <1>1 DEF Discharged
    <3>6. /\ t.op = "stop" /\ Head(t.todo) = "desire" => IsDown(n)'
          /\ n \in stopped' => n \in stopped \/ t.op = "stop"
          /\ Has(t.todo, {"persist"}) => manifests'[n] = IF Head(t.todo) = "publish" THEN t.man ELSE manifests[n]
      BY <1>1, <1>2, <3>2, <3>3
    <3>7. manifests'[n] = manifests[n] /\ Head(t.todo) # "unpublish" BY <1>1, <1>2
    <3>8. ASSUME NEW u, u = [t EXCEPT !.todo = Tail(@)], u = Advanced(t), task' = [task EXCEPT ![p] = u]
          PROVE  CallKnows(u)'
      BY <1>1, <1>3, <1>4, <1>5, <3>4, <3>5, <3>6, <3>7, <3>8, KnowsTail
    <3> QED BY <1>1, <1>3, <2>6, <3>2, <3>8, StepKnows
  <2>11. CASE dirs' \in {dirs, YamlWritten(n, r)} /\ Abort(p)
    <3>1. \A j \in Id \ {i} : dirs'[j] = dirs[j] BY <2>7, <2>11
    <3>2. Runs(i) => i \in errored'
      <4> SUFFICES ASSUME Runs(i) PROVE i \in errored' OBVIOUS
      <4>1. ~ Missing(i) BY RuntimeAssumption DEF Runs, Missing
      <4>2. i \in ContainersOf(t) BY <1>4, <1>5, <2>1, <2>2, <2>9, <4>1, InDoubt
      <4> QED BY <1>1, <2>11, <4>2 DEF Abort
    <3>3. IsDown(n) => /\ dirs'[i] # NoDir /\ dirs'[i].name = n /\ dirs'[i].desired = "stopped"
                       /\ dirs'[i].man \in {s.man, dirs[i].man}
      <4> SUFFICES ASSUME IsDown(n)
                   PROVE  /\ dirs'[i] # NoDir /\ dirs'[i].name = n /\ dirs'[i].desired = "stopped"
                          /\ dirs'[i].man \in {s.man, dirs[i].man}
        OBVIOUS
      <4>1. dirs[i] # NoDir /\ dirs[i].name = n /\ dirs[i].desired = "stopped" BY <2>1, <2>2 DEF IsDown
      <4>2. CASE dirs' = dirs BY <4>1, <4>2
      <4>3. CASE dirs' = YamlWritten(n, r) BY <2>7, <4>1, <4>3, <2>8, <2>9 DEF DesiredState
      <4> QED BY <2>11, <4>2, <4>3
    <3>4. Wanted' BY <3>2, <3>3, <1>1, <1>2, <1>5, <2>1, <2>2, <2>3, <2>5, <2>6, <3>1, DesireWanted DEF DesireSaved
    <3> QED BY <1>1, <1>3, <2>11, <3>4, AbortKnows
  <2> QED BY <2>4, <2>10, <2>11 DEF Save
<1> QED BY <1>6, <1>7

\* What an apply that is about to save its record knows of the service.
LEMMA PersistFacts ==
  ASSUME OneCaller, PInv, NEW p \in Caller, NEW t \in Task, t = task[p], t.todo # <<>>, Head(t.todo) = "persist",
         NEW n \in Name, n = t.name
  PROVE  /\ t.op = "apply" /\ t.man \in Manifest /\ t.id \in Id
         /\ store[n] # NoService => store[n].id = t.id
         /\ ~ Child(n)
         /\ \A m \in Name : store[m] # NoService /\ Docker(store[m].man) /\ Runs(store[m].id) => m # n
         /\ Docker(t.man) => ~ Runs(t.id)
         /\ manifests[n] = t.man
         /\ t.desired = IF store[n] # NoService THEN store[n].desired ELSE "stopped"
<1>1. CallShape(t) /\ CallKnows(t) /\ Wanted /\ TInv BY DEF PInv, DInv
<1>2. PICK d \in Seq(StepName) : d = t.todo /\ d # <<>> /\ Head(d) = "persist" BY DEF Task
<1>3. /\ Has(d, {"persist"}) /\ Has(d, Removes) /\ Has(d, Installing)
      /\ Has(d, {"persist", "resolve", "docker_create"})
      /\ \A A : ~ Precedes(d, A, {"persist"}) /\ ~ Precedes(d, A, Removes)
  BY <1>2, PlanTail DEF Removes, Installing
<1>4. t.op = "apply" BY <1>1, <1>2, <1>3 DEF CallShape
<1>5. At(p, "persist") BY DEF At
<1>6. t.man \in Manifest /\ t.id \in Id BY <1>1, <1>5, AtFacts DEF Installs
<1>7. p # Boot BY <1>1, <1>4 DEF TInv, BootInv
<1>8. store[n] # NoService => store[n].id = t.id BY <1>7, <1>2, <1>3 DEF PInv, DInv, Caller, CallFits
<1>9. /\ manifests[n] = t.man
      /\ t.desired = IF store[n] # NoService THEN store[n].desired ELSE "stopped"
      /\ Docker(t.man) => ~ Runs(t.id)
  BY <1>1, <1>2, <1>3 DEF CallKnows, SaveKnows
<1>10. store[n] # NoService =>
         (Wasm(store[n].man) => ~ Child(n)) /\ (Docker(store[n].man) => ~ Runs(store[n].id))
  BY <1>1, <1>2, <1>3 DEF CallKnows, ReplaceKnows
<1>11. ~ Child(n) BY <1>1, <1>10 DEF Wanted, ChildWanted
<1> QED BY <1>4, <1>6, <1>8, <1>9, <1>10, <1>11

\* A call that has saved its record knows what it installed.
LEMMA PersistedKnows ==
  ASSUME OneCaller, PInv, NEW p \in Caller, NEW t \in Task, t = task[p], t.todo # <<>>, Head(t.todo) = "persist",
         NEW n \in Name, n = t.name, NEW r \in Service, r.id = t.id, r.man = t.man, r.desired = t.desired,
         store'[n] = r, UNCHANGED <<manifests, prov, containers, stopped>>,
         NEW u, u = [t EXCEPT !.todo = Tail(@)]
  PROVE  CallKnows(u)'
<1>1. /\ t.op = "apply" /\ t.id \in Id /\ ~ Child(n) /\ (Docker(t.man) => ~ Runs(t.id)) /\ manifests[n] = t.man
  BY PersistFacts
<1>2. PICK d \in Seq(StepName) : d = t.todo /\ d # <<>> BY DEF Task
<1>3. PICK e \in Seq(StepName) : e = Tail(d) BY <1>2, TailFacts
<1>4. /\ u.todo = e /\ u.op = t.op /\ u.desired = t.desired /\ u.name = n /\ u.man = t.man /\ u.id = t.id
  BY <1>2, <1>3 DEF Task
<1>5. \A S : Has(e, S) => Has(d, S) BY <1>2, <1>3, PlanTail
<1>6. Has(d, {"persist"}) /\ r # NoService BY <1>2, PlanTail, RuntimeAssumption
<1>7. CallKnows(t) BY DEF PInv
<1>8. /\ Has(d, {"spawn"}) => Wasm(t.man)
      /\ Has(d, {"docker_start"}) => Docker(t.man)
      /\ Has(d, {"desire"}) /\ t.desired = "running" => n \notin stopped
  BY <1>2, <1>6, <1>7 DEF CallKnows, SaveKnows, StartKnows
<1>9. SaveKnows(u)' BY <1>1, <1>4, <1>5, <1>6, <1>8 DEF SaveKnows, Runs
<1>10. ReplaceKnows(u)' BY <1>1, <1>4 DEF ReplaceKnows, Runs, Child
<1>11. StartKnows(u)'
  <2>1. /\ Has(e, {"spawn"}) => Wasm(r.man)
        /\ Has(e, {"docker_start"}) => Docker(r.man)
        /\ Has(e, {"desire"}) /\ t.desired = "running" => n \notin stopped'
    BY <1>5, <1>8
  <2> QED BY <1>1, <1>4, <1>6, <2>1 DEF StartKnows
<1>12. StopKnows(u)' BY <1>1, <1>4 DEF StopKnows
<1>13. RemoveKnows(u)' BY <1>5, <1>1, <1>2, <1>4 DEF Has, CallShape, PInv, RemoveKnows
<1> QED BY <1>9, <1>10, <1>11, <1>12, <1>13 DEF CallKnows

\* An apply replaces a record while neither the former instance nor the new one runs.
LEMMA PersistWanted ==
  ASSUME OneCaller, PInv, NEW p \in Caller, NEW t \in Task, t = task[p], t.todo # <<>>, Head(t.todo) = "persist",
         NEW n \in Name, n = t.name, NEW i \in Id, i = t.id,
         NEW r \in Service, r.id = i, r.man = t.man, r.desired = t.desired,
         store'[n] = r, \A m \in Name \ {n} : store'[m] = store[m],
         \A j \in Id \ {i} : dirs'[j] = dirs[j],
         IsDown(n) => /\ dirs'[i] # NoDir /\ dirs'[i].name = n /\ dirs'[i].desired = "stopped"
                      /\ dirs'[i].man \in {t.man, dirs[i].man},
         store[n] = NoService => Unused(i),
         errored \subseteq errored', UNCHANGED <<manifests, prov, containers, stopped>>
  PROVE  Wanted'
<1>1. Data /\ RecordsFit /\ Wanted /\ r # NoService BY RuntimeAssumption DEF PInv, DInv, TInv, Variables
<1>2. /\ store[n] # NoService => store[n].id = i
      /\ ~ Child(n)
      /\ \A m \in Name : store[m] # NoService /\ Docker(store[m].man) /\ Runs(store[m].id) => m # n
      /\ Docker(t.man) => ~ Runs(i)
      /\ manifests[n] = t.man
      /\ t.desired = IF store[n] # NoService THEN store[n].desired ELSE "stopped"
  BY PersistFacts
<1>3. (\A j \in Id : Runs(j)' <=> Runs(j)) /\ (\A m \in Name : Child(m)' <=> Child(m)) BY DEF Runs, Child
<1>4. \A q \in Caller : At(q, "persist") => task[q].name = n BY Active DEF Looks, StepName
<1>5. \A m \in Name : ~ Awaited(m) BY Active DEF Looks, StepName, Awaited
<1>6. ASSUME NEW m \in Name \ {n}, store[m] # NoService
      PROVE  (Settled(m) => Settled(m)') /\ (IsDown(m) => IsDown(m)')
  <2>1. PICK j \in Id : j = store[m].id BY <1>1, <1>6 DEF Data, Service
  <2>2. j # i BY <1>1, <1>2, <1>6, <2>1 DEF RecordsFit, Unused
  <2> QED BY <1>3, <2>1, <2>2, OtherStays
<1>7. Agreed'
  <2> SUFFICES ASSUME NEW m \in Name, manifests[m] # NoManifest
               PROVE  store'[m] # NoService /\ store'[m].man = manifests[m]
    BY DEF Agreed
  <2>1. CASE m = n BY <1>1, <1>2, <2>1
  <2>2. CASE m # n BY <1>1, <1>4, <2>2 DEF Wanted, Agreed
  <2> QED BY <2>1, <2>2
<1>8. ChildWanted'
  <2> SUFFICES ASSUME NEW m \in Name, Child(m)'
               PROVE  store'[m] # NoService /\ Wasm(store'[m].man) /\ store'[m].desired = "running"
    BY DEF ChildWanted
  <2>1. Child(m) /\ m # n BY <1>2, <1>3
  <2> QED BY <1>1, <1>5, <2>1 DEF Wanted, ChildWanted
<1>9. ContainerWanted'
  <2> SUFFICES ASSUME NEW j \in Id, Runs(j)', j \notin errored'
               PROVE  \E m \in Name : /\ store'[m] # NoService /\ store'[m].id = j /\ Docker(store'[m].man)
                                      /\ Settled(m)'
    BY DEF ContainerWanted
  <2>1. Runs(j) /\ j \notin errored BY <1>3
  <2>2. PICK m \in Name : store[m] # NoService /\ store[m].id = j /\ Docker(store[m].man) /\ Settled(m)
    BY <1>1, <1>5, <2>1 DEF Wanted, ContainerWanted
  <2>3. m # n BY <1>2, <2>1, <2>2
  <2>4. Settled(m)' BY <1>6, <2>2, <2>3
  <2> QED BY <2>2, <2>3, <2>4
<1>10. ASSUME IsDown(n) PROVE IsDown(n)' BY <1>2, <1>10, <1>1 DEF IsDown, Runs
<1>11. StoppedDown'
  <2> SUFFICES ASSUME NEW m \in stopped PROVE IsDown(m)' BY DEF StoppedDown
  <2>1. m \in Name /\ IsDown(m) BY <1>1 DEF Wanted, StoppedDown, Data
  <2> QED BY <1>6, <1>10, <2>1 DEF IsDown
<1> QED BY <1>7, <1>8, <1>9, <1>11 DEF Wanted

\* An apply saves its record, or fails to.
LEMMA PersistKnows ==
  ASSUME OneCaller, PInv, DInv', NEW p \in Caller, Persist(p)
  PROVE  PInv'
<1>1. PICK t \in Task : t = task[p] /\ t.todo # <<>> /\ Head(t.todo) = "persist" BY AtFacts DEF Persist, PInv, DInv
<1>2. UNCHANGED <<manifests, prov, containers, stopped>> BY DEF Persist
<1>3. Head(t.todo) \notin Looks BY <1>1 DEF Looks
<1>4. Data /\ t.name \in Name BY <1>1, <1>3, Active
<1>5. PICK n \in Name : n = t.name BY <1>4
<1>6. t.man \in Manifest /\ t.id \in Id /\ (store[n] # NoService => store[n].id = t.id) BY <1>1, <1>5, PersistFacts
<1>7. PICK i \in Id : i = t.id BY <1>6
<1>8. PICK r \in Service : r = Persisted(t) /\ r.id = i /\ r.man = t.man /\ r.desired = t.desired
  <2>1. t.desired \in DesiredState BY DEF Task
  <2>2. PICK r : r = [id |-> t.id, man |-> t.man, desired |-> t.desired] OBVIOUS
  <2>3. r \in Service /\ r.id = i /\ r.man = t.man /\ r.desired = t.desired BY <1>6, <1>7, <2>1, <2>2 DEF Service
  <2> QED BY <2>2, <2>3 DEF Persisted
<1>9. Save(p, n, r) /\ (store[n] = NoService => Unused(i))
  BY <1>1, <1>5, <1>6, <1>8, PersistSavable DEF Persist, PInv, Savable
<1>10. store'[n] = r /\ \A m \in Name \ {n} : store'[m] = store[m] BY <1>4, <1>9 DEF Save, Data
<1>11. Moves(p) /\ errored \subseteq errored' BY <1>9, DoubtsStay DEF Save
<1>12. /\ Written(n, r)[i] = [name |-> n, man |-> t.man, desired |-> t.desired]
       /\ YamlWritten(n, r)[i] = [name |-> n, man |-> t.man,
                                  desired |-> IF dirs[i] = NoDir THEN "stopped" ELSE dirs[i].desired]
       /\ \A j \in Id \ {i} : Written(n, r)[j] = dirs[j] /\ YamlWritten(n, r)[j] = dirs[j]
  BY <1>4, <1>8 DEF Written, YamlWritten, Data
<1>13. \A j \in Id \ {i} : dirs'[j] = dirs[j] BY <1>9, <1>12 DEF Save
<1>14. \A x \in DesiredState : [name |-> n, man |-> t.man, desired |-> x] # NoDir BY <1>6, RuntimeAssumption DEF Dir
<1>15. IsDown(n) => /\ dirs'[i] # NoDir /\ dirs'[i].name = n /\ dirs'[i].desired = "stopped"
                    /\ dirs'[i].man \in {t.man, dirs[i].man}
  <2> SUFFICES ASSUME IsDown(n)
               PROVE  /\ dirs'[i] # NoDir /\ dirs'[i].name = n /\ dirs'[i].desired = "stopped"
                      /\ dirs'[i].man \in {t.man, dirs[i].man}
    OBVIOUS
  <2>1. store[n] # NoService /\ store[n].id = i /\ store[n].desired = "stopped"
        /\ dirs[i] # NoDir /\ dirs[i].name = n /\ dirs[i].desired = "stopped"
    BY <1>6, <1>7 DEF IsDown
  <2>2. t.desired = "stopped" BY <1>1, <1>5, <2>1, PersistFacts
  <2>3. CASE dirs' = dirs BY <2>1, <2>3
  <2>4. CASE dirs' \in {Written(n, r), YamlWritten(n, r)} BY <1>12, <2>1, <2>2, <2>4, <1>14 DEF DesiredState
  <2> QED BY <1>9, <2>3, <2>4 DEF Save
<1>16. Wanted' BY <1>1, <1>2, <1>5, <1>7, <1>8, <1>9, <1>10, <1>11, <1>13, <1>15, PersistWanted
<1>17. ASSUME NEW u, u = [t EXCEPT !.todo = Tail(@)], u = Advanced(t), task' = [task EXCEPT ![p] = u]
       PROVE  CallKnows(u)'
  <2>1. r.id = t.id /\ r.man = t.man /\ r.desired = t.desired /\ store'[n] = r BY <1>7, <1>8, <1>10
  <2>2. UNCHANGED <<manifests, prov, containers, stopped>> BY <1>2
  <2>3. u = [t EXCEPT !.todo = Tail(@)] BY <1>17
  <2> QED BY <1>1, <1>5, <2>1, <2>2, <2>3, PersistedKnows
<1> QED BY <1>1, <1>3, <1>11, <1>16, <1>17, StepKnows

\* A removal drops the record of a service that does not run any more.
LEMMA ForgetKnows ==
  ASSUME OneCaller, PInv, DInv', NEW p \in Caller, Forget(p)
  PROVE  PInv'
<1>1. PICK t \in Task : t = task[p] /\ t.todo # <<>> /\ Head(t.todo) = "forget" BY AtFacts DEF Forget, PInv, DInv
<1>2. UNCHANGED <<manifests, prov, containers>> BY DEF Forget
<1>3. Head(t.todo) \notin Looks /\ "desire" \in StepName \ Looks /\ "persist" \in StepName \ Looks
  BY <1>1 DEF Looks, StepName
<1>4. /\ Data /\ RecordsFit /\ Wanted /\ CallShape(t) /\ CallKnows(t) /\ t.name \in Name
      /\ \A q \in Caller : ~ At(q, "desire") /\ ~ At(q, "persist")
  BY <1>1, <1>3, Active DEF PInv, DInv
<1>5. PICK n \in Name : n = t.name BY <1>4
<1>6. /\ store'[n] = NoService /\ \A m \in Name \ {n} : store'[m] = store[m]
      /\ stopped' = stopped \ {n}
  BY <1>1, <1>4, <1>5 DEF Forget, Data
<1>7. Moves(p) /\ errored \subseteq errored' BY DoubtsStay DEF Forget
<1>8. PICK d \in Seq(StepName) : d = t.todo /\ d # <<>> /\ Head(d) = "forget" BY <1>1 DEF Task
<1>9. Has(d, {"forget", "unpublish"}) /\ Has(d, {"forget"}) /\ Has(d, Removes)
      /\ \A A : ~ Precedes(d, A, Removes) /\ ~ Precedes(d, A, {"forget"})
  BY <1>8, PlanTail DEF Removes
<1>10. t.op = "remove" /\ ~ Has(d, Starts) BY <1>4, <1>8, <1>9 DEF CallShape
<1>11. store[n] # NoService => (Wasm(store[n].man) => ~ Child(n)) /\ (Docker(store[n].man) => ~ Runs(store[n].id))
  BY <1>4, <1>5, <1>8, <1>9 DEF CallKnows, ReplaceKnows
<1>12. ~ Child(n) BY <1>4, <1>11 DEF Wanted, ChildWanted
<1>13. \A m \in Name : ~ Awaited(m) BY <1>4 DEF Awaited
<1>14. ASSUME NEW m \in Name \ {n}, store[m] # NoService
       PROVE  (Settled(m) => Settled(m)') /\ (IsDown(m) => IsDown(m)')
  <2>1. PICK j \in Id : j = store[m].id BY <1>4, <1>14 DEF Data, Service
  <2>2. dirs'[j] = dirs[j]
    <3>1. CASE store[n] = NoService BY <1>1, <1>5, <3>1 DEF Forget
    <3>2. CASE store[n] # NoService
      <4>1. store[n].id # j BY <1>4, <1>14, <2>1, <3>2 DEF RecordsFit
      <4>2. PICK i \in Id : i = store[n].id BY <1>4, <3>2 DEF Data, Service
      <4>3. \A D \in Stateless(i) : D[j] = dirs[j] BY <1>4, <4>1, <4>2 DEF Stateless, Data
      <4>4. [dirs EXCEPT ![i] = NoDir][j] = dirs[j] BY <1>4, <4>1, <4>2 DEF Data
      <4>5. dirs' \in {[dirs EXCEPT ![i] = NoDir], dirs} \cup Stateless(i) BY <1>1, <1>5, <3>2, <4>2 DEF Forget
      <4> QED BY <4>3, <4>4, <4>5
    <3> QED BY <3>1, <3>2
  <2> QED BY <1>2, <1>6, <2>1, <2>2, OtherStays DEF Runs
<1>15. Agreed'
  <2> SUFFICES ASSUME NEW m \in Name, manifests[m] # NoManifest
               PROVE  store'[m] # NoService /\ store'[m].man = manifests[m]
    BY <1>2 DEF Agreed
  <2>1. manifests[n] = NoManifest BY <1>4, <1>5, <1>8, <1>9 DEF CallKnows, RemoveKnows
  <2> QED BY <1>4, <1>6, <2>1 DEF Wanted, Agreed
<1>16. ChildWanted'
  <2> SUFFICES ASSUME NEW m \in Name, Child(m)'
               PROVE  store'[m] # NoService /\ Wasm(store'[m].man) /\ store'[m].desired = "running"
    BY DEF ChildWanted
  <2>1. Child(m) /\ m # n BY <1>2, <1>12 DEF Child
  <2> QED BY <1>4, <1>6, <1>13, <2>1 DEF Wanted, ChildWanted
<1>17. ContainerWanted'
  <2> SUFFICES ASSUME NEW j \in Id, Runs(j)', j \notin errored'
               PROVE  \E m \in Name : /\ store'[m] # NoService /\ store'[m].id = j /\ Docker(store'[m].man)
                                      /\ Settled(m)'
    BY DEF ContainerWanted
  <2>1. Runs(j) /\ j \notin errored BY <1>2, <1>7 DEF Runs
  <2>2. PICK m \in Name : store[m] # NoService /\ store[m].id = j /\ Docker(store[m].man) /\ Settled(m)
    BY <1>4, <1>13, <2>1 DEF Wanted, ContainerWanted
  <2>3. m # n BY <1>11, <2>1, <2>2
  <2>4. Settled(m)' BY <1>14, <2>2, <2>3
  <2> QED BY <1>6, <2>2, <2>3, <2>4
<1>18. StoppedDown'
  <2> SUFFICES ASSUME NEW m \in stopped' PROVE IsDown(m)' BY DEF StoppedDown
  <2>1. m \in Name \ {n} /\ IsDown(m) BY <1>4, <1>6 DEF Wanted, StoppedDown, Data
  <2> QED BY <1>14, <2>1 DEF IsDown
<1>19. Wanted' BY <1>15, <1>16, <1>17, <1>18 DEF Wanted
<1>20. ASSUME NEW u, u = [t EXCEPT !.todo = Tail(@)], u = Advanced(t), task' = [task EXCEPT ![p] = u]
       PROVE  CallKnows(u)'
  <2>1. PICK e \in Seq(StepName) : e = Tail(d) BY <1>8, TailFacts
  <2>2. /\ u.todo = e /\ u.op = t.op /\ u.desired = t.desired /\ u.name = n /\ u.man = t.man /\ u.id = t.id
    BY <1>5, <1>8, <1>20, <2>1 DEF Task
  <2>3. ~ Has(e, {"persist"}) /\ ~ Has(e, Starts) BY <1>4, <1>8, <1>10, <2>1, PlanTail DEF Has, CallShape
  <2>4. manifests[n] = NoManifest BY <1>4, <1>5, <1>8, <1>9 DEF CallKnows, RemoveKnows
  <2>5. SaveKnows(u)' /\ ReplaceKnows(u)' BY <1>6, <2>2, <2>3 DEF SaveKnows, ReplaceKnows
  <2>6. StartKnows(u)' BY <1>6, <1>10, <2>2, <2>3 DEF StartKnows
  <2>7. StopKnows(u)' /\ RemoveKnows(u)' BY <1>2, <1>10, <2>2, <2>4 DEF StopKnows, RemoveKnows
  <2> QED BY <2>5, <2>6, <2>7 DEF CallKnows
<1> QED BY <1>1, <1>3, <1>7, <1>19, <1>20, StepKnows

-----------------------------------------------------------------------------
(* What the plans of the calls promise.                                    *)

\* A plan of steps from a set without others.
LEMMA PlanOf ==
  ASSUME NEW S, NEW s \in Seq(S)
  PROVE  /\ \A T : S \cap T = {} => ~ Has(s, T)
         /\ \A a, b : a \notin S => Followed(s, a, b)
         /\ \A A, B : S \cap B = {} /\ Has(s, A) => Precedes(s, A, B)
<1>1. Len(s) \in Nat /\ \A i \in 1..Len(s) : s[i] \in S OBVIOUS
<1>2. \A T : S \cap T = {} => ~ Has(s, T) BY <1>1 DEF Has
<1>3. \A a, b : a \notin S => Followed(s, a, b) BY <1>1 DEF Followed
<1>4. ASSUME NEW A, NEW B, S \cap B = {}, Has(s, A) PROVE Precedes(s, A, B)
  <2>1. PICK i \in 1..Len(s) : s[i] \in A BY <1>4 DEF Has
  <2>2. \A j \in 1..i : s[j] \notin B BY <1>1, <1>4
  <2> QED BY <2>1, <2>2 DEF Precedes
<1> QED BY <1>2, <1>3, <1>4

\* Two plans one after the other.
LEMMA PlanConcat ==
  ASSUME NEW a \in Seq(StepName), NEW b \in Seq(StepName), NEW s, s = a \o b
  PROVE  /\ s \in Seq(StepName)
         /\ \A S : Has(s, S) <=> Has(a, S) \/ Has(b, S)
         /\ \A A, B : Precedes(a, A, B) => Precedes(s, A, B)
         /\ \A A, B : ~ Has(a, B) /\ Precedes(b, A, B) => Precedes(s, A, B)
         /\ \A x, y : Followed(a, x, y) /\ Followed(b, x, y) => Followed(s, x, y)
<1>1. PICK k \in Nat, l \in Nat : k = Len(a) /\ l = Len(b) OBVIOUS
<1>2. /\ s \in Seq(StepName) /\ Len(s) = k + l
      /\ \A i \in 1..k : s[i] = a[i] /\ i \in 1..Len(s)
      /\ \A i \in 1..l : s[k + i] = b[i] /\ k + i \in 1..Len(s)
      /\ \A i \in 1..Len(s) : i \in 1..k \/ (i - k \in 1..l /\ s[i] = b[i - k])
  BY <1>1, ConcatFacts
<1>3. \A S : Has(s, S) <=> Has(a, S) \/ Has(b, S) BY <1>1, <1>2 DEF Has
<1>4. ASSUME NEW A, NEW B, Precedes(a, A, B) PROVE Precedes(s, A, B)
  <2>1. PICK i \in 1..k : a[i] \in A /\ \A j \in 1..i : a[j] \notin B BY <1>1, <1>4 DEF Precedes
  <2>2. \A j \in 1..i : s[j] \notin B BY <1>2, <2>1
  <2> QED BY <1>2, <2>1, <2>2 DEF Precedes
<1>5. ASSUME NEW A, NEW B, ~ Has(a, B), Precedes(b, A, B) PROVE Precedes(s, A, B)
  <2>1. PICK i \in 1..l : b[i] \in A /\ \A j \in 1..i : b[j] \notin B BY <1>1, <1>5 DEF Precedes
  <2>2. \A j \in 1..k : s[j] \notin B BY <1>1, <1>2, <1>5 DEF Has
  <2>3. ASSUME NEW j \in 1..(k + i) PROVE s[j] \notin B
    <3>1. CASE j \in 1..k BY <2>2, <3>1
    <3>2. CASE j \notin 1..k
      <4>1. j - k \in 1..i /\ s[j] = b[j - k] BY <1>2, <2>1, <3>2
      <4> QED BY <2>1, <4>1
    <3> QED BY <3>1, <3>2
  <2> QED BY <1>2, <2>1, <2>3 DEF Precedes
<1>6. ASSUME NEW x, NEW y, Followed(a, x, y), Followed(b, x, y) PROVE Followed(s, x, y)
  <2> SUFFICES ASSUME NEW i \in 1..Len(s), s[i] = x PROVE i < Len(s) /\ s[i + 1] = y BY DEF Followed
  <2>1. CASE i \in 1..k
    <3>1. i < k /\ a[i + 1] = y BY <1>1, <1>2, <1>6, <2>1 DEF Followed
    <3>2. PICK j \in 1..k : j = i + 1 BY <2>1, <3>1
    <3>3. s[j] = a[j] /\ j \in 1..Len(s) BY <1>2
    <3>4. s[i + 1] = a[i + 1] BY <3>2, <3>3
    <3>5. i < Len(s) BY <1>2, <3>1
    <3> QED BY <3>1, <3>4, <3>5, Zenon
  <2>2. CASE i \notin 1..k
    <3>1. i - k \in 1..l /\ b[i - k] = x BY <1>2, <2>2
    <3>2. i - k < l /\ b[(i - k) + 1] = y BY <1>1, <1>6, <3>1 DEF Followed
    <3>3. (i - k) + 1 \in 1..l /\ k + ((i - k) + 1) = i + 1 /\ i < Len(s) BY <1>2, <3>1, <3>2
    <3>4. PICK j \in 1..l : j = (i - k) + 1 BY <3>3
    <3>5. s[k + j] = b[j] BY <1>2
    <3>6. s[i + 1] = b[(i - k) + 1] BY <3>3, <3>4, <3>5
    <3>7. i < Len(s) BY <3>3
    <3> QED BY <3>2, <3>6, <3>7, Zenon
  <2> QED BY <2>1, <2>2
<1> QED BY <1>2, <1>3, <1>4, <1>5, <1>6

\* What is started is put on record at once, and as it is to be started.
LEMMA StartPlanFacts ==
  ASSUME NEW m
  PROVE  /\ StartPlan(m) \in Seq({"ensure", "spawn", "desire", "docker_start"})
         /\ StartPlan(m) \in Seq(StepName)
         /\ Followed(StartPlan(m), "spawn", "desire") /\ Followed(StartPlan(m), "docker_start", "desire")
         /\ Has(StartPlan(m), {"spawn"}) => Wasm(m)
         /\ Has(StartPlan(m), {"docker_start"}) => Docker(m)
<1>1. StartPlan(m) \in Seq({"ensure", "spawn", "desire", "docker_start"}) BY StartPlanType
<1>2. {"ensure", "spawn", "desire", "docker_start"} \subseteq StepName BY DEF StepName
<1>3. StartPlan(m) \in Seq(StepName) BY <1>2, StartPlanType
<1>4. CASE Wasm(m)
  <2>0. StartPlan(m) = <<"ensure", "spawn", "desire">> BY <1>4 DEF Wasm, Docker, StartPlan
  <2>1. PICK s : s = <<"ensure", "spawn", "desire">> OBVIOUS
  <2>2. Len(s) = 3 /\ s[1] = "ensure" /\ s[2] = "spawn" /\ s[3] = "desire" /\ \A i \in 1..3 : i = 1 \/ i = 2 \/ i = 3
    BY <2>1
  <2>3. Followed(s, "spawn", "desire") /\ Followed(s, "docker_start", "desire") /\ ~ Has(s, {"docker_start"})
    BY <2>2 DEF Followed, Has
  <2> QED BY <1>1, <1>3, <1>4, <2>0, <2>1, <2>3
<1>5. CASE ~ Wasm(m) /\ Docker(m)
  <2>0. StartPlan(m) = <<"docker_start", "desire">> BY <1>5 DEF StartPlan
  <2>1. PICK s : s = <<"docker_start", "desire">> OBVIOUS
  <2>2. Len(s) = 2 /\ s[1] = "docker_start" /\ s[2] = "desire" /\ \A i \in 1..2 : i = 1 \/ i = 2 BY <2>1
  <2>3. Followed(s, "spawn", "desire") /\ Followed(s, "docker_start", "desire") /\ ~ Has(s, {"spawn"})
    BY <2>2 DEF Followed, Has
  <2> QED BY <1>1, <1>3, <1>5, <2>0, <2>1, <2>3
<1>6. CASE ~ Wasm(m) /\ ~ Docker(m)
  <2>0. StartPlan(m) = <<"desire">> BY <1>6 DEF StartPlan
  <2>1. PICK s : s = <<"desire">> OBVIOUS
  <2>2. Len(s) = 1 /\ s[1] = "desire" BY <2>1
  <2>3. Followed(s, "spawn", "desire") /\ Followed(s, "docker_start", "desire")
        /\ ~ Has(s, {"spawn"}) /\ ~ Has(s, {"docker_start"})
    BY <2>2 DEF Followed, Has
  <2> QED BY <1>1, <1>3, <2>0, <2>1, <2>3
<1> QED BY <1>4, <1>5, <1>6

\* A plan of steps of a set is one of steps of a larger set.
LEMMA WiderPlan ==
  ASSUME NEW S, NEW T, S \subseteq T, NEW q \in Seq(S)
  PROVE  q \in Seq(T)
OBVIOUS

\* What is there is taken down before it is removed.
LEMMA ReplacePlanFacts ==
  ASSUME NEW m, NEW d
  PROVE  /\ ReplacePlan(m, d) \in Seq({"take", "drop", "docker_stop", "docker_remove"})
         /\ Wasm(m) => Has(ReplacePlan(m, d), {"drop"})
         /\ Docker(m) => Has(ReplacePlan(m, d), {"docker_remove"})
<1>1. PICK a : a = IF d = "running" THEN <<"take">> ELSE <<>> OBVIOUS
<1>2. PICK b : b = IF d = "running" THEN <<"docker_stop">> ELSE <<>> OBVIOUS
<1>3. PICK c : c = <<"take", "drop">> OBVIOUS
<1>4. PICK e : e = <<"docker_remove">> OBVIOUS
<1>5. /\ a \in Seq(StepName) /\ b \in Seq(StepName) /\ c \in Seq(StepName) /\ e \in Seq(StepName)
  BY <1>1, <1>2, <1>3, <1>4 DEF StepName
<1>6. Has(c, {"drop"}) /\ Has(e, {"docker_remove"}) BY <1>3, <1>4 DEF Has
<1>7. Has(a \o c, {"drop"}) /\ Has(b \o e, {"docker_remove"}) BY <1>5, <1>6, PlanConcat
<1>8. Wasm(m) => ReplacePlan(m, d) = a \o c
  <2> SUFFICES ASSUME Wasm(m) PROVE ReplacePlan(m, d) = a \o c OBVIOUS
  <2>1. ~ Docker(m) BY DEF Wasm, Docker
  <2> QED BY <1>1, <1>3, <2>1 DEF ReplacePlan
<1>9. Docker(m) => ReplacePlan(m, d) = b \o e
  <2> SUFFICES ASSUME Docker(m) PROVE ReplacePlan(m, d) = b \o e OBVIOUS
  <2>1. ~ Wasm(m) BY DEF Wasm, Docker
  <2> QED BY <1>2, <1>4, <2>1 DEF ReplacePlan
<1> QED BY <1>7, <1>8, <1>9, ReplacePlanType

\* What is installed is built, or created, and nothing else.
LEMMA InstallFacts ==
  ASSUME NEW b \in Seq({"take", "drop"}), NEW m,
         NEW e, e = CASE Wasm(m) -> b \o <<"build">> [] Docker(m) -> <<"docker_create">> [] OTHER -> <<>>
  PROVE  /\ e \in Seq({"take", "drop", "build", "docker_create"})
         /\ Docker(m) => Has(e, {"docker_create"})
<1>1. PICK c : c = <<"docker_create">> OBVIOUS
<1>2. PICK S : S = {"take", "drop", "build", "docker_create"} OBVIOUS
<1>3. b \in Seq(S) /\ <<"build">> \in Seq(S) /\ c \in Seq(S) /\ <<>> \in Seq(S) BY <1>1, <1>2
<1>4. b \o <<"build">> \in Seq(S) BY <1>3, ConcatType
<1>5. e \in Seq(S) BY <1>1, <1>3, <1>4
<1>6. Has(c, {"docker_create"}) BY <1>1 DEF Has
<1>7. Docker(m) => e = c BY <1>1 DEF Docker, Wasm
<1> QED BY <1>2, <1>5, <1>6, <1>7

\* What an apply starts again is put on record as desired.
LEMMA StartUpFacts ==
  ASSUME NEW m, NEW d, NEW T, T = {"try_ensure", "docker_inspect"}, NEW f \in Seq(T),
         NEW g, g = IF d = "running" THEN StartPlan(m) \o f \o <<"unlisten", "listen">> ELSE <<>>,
         NEW S, S = {"ensure", "spawn", "desire", "docker_start", "try_ensure", "docker_inspect", "unlisten", "listen"}
  PROVE  /\ g \in Seq(S)
         /\ PutOnRecord(g)
         /\ Has(g, {"spawn"}) => Wasm(m)
         /\ Has(g, {"docker_start"}) => Docker(m)
         /\ d # "running" => \A U : ~ Has(g, U)
<1>2. PICK a : a = StartPlan(m) OBVIOUS
<1>4. PICK U : U = {"unlisten", "listen"} OBVIOUS
<1>5. PICK b : b = <<"unlisten", "listen">> OBVIOUS
<1>6. f \in Seq(T) /\ b \in Seq(U) /\ a \in Seq(S) /\ f \in Seq(S) /\ b \in Seq(S) /\ S \subseteq StepName
  BY <1>2, <1>4, <1>5, StartPlanFacts DEF StepName
<1>7. PICK x : x = a \o f OBVIOUS
<1>8. PICK y : y = x \o b OBVIOUS
<1>9. x \in Seq(S) /\ y \in Seq(S) BY <1>6, <1>7, <1>8, ConcatType
<1>10. /\ Followed(a, "spawn", "desire") /\ Followed(a, "docker_start", "desire")
       /\ Has(a, {"spawn"}) => Wasm(m)
       /\ Has(a, {"docker_start"}) => Docker(m)
  BY <1>2, StartPlanFacts
<1>11. /\ Followed(f, "spawn", "desire") /\ Followed(f, "docker_start", "desire")
       /\ ~ Has(f, {"spawn"}) /\ ~ Has(f, {"docker_start"})
  <2>1. T \cap {"spawn"} = {} /\ T \cap {"docker_start"} = {} /\ "spawn" \notin T /\ "docker_start" \notin T OBVIOUS
  <2> QED BY <1>6, <2>1, PlanOf
<1>12. /\ Followed(b, "spawn", "desire") /\ Followed(b, "docker_start", "desire")
       /\ ~ Has(b, {"spawn"}) /\ ~ Has(b, {"docker_start"})
  <2>1. U \cap {"spawn"} = {} /\ U \cap {"docker_start"} = {} /\ "spawn" \notin U /\ "docker_start" \notin U BY <1>4
  <2> QED BY <1>6, <2>1, PlanOf
<1>13. a \in Seq(StepName) /\ f \in Seq(StepName) /\ b \in Seq(StepName) /\ x \in Seq(StepName)
  BY <1>6, <1>9, WiderPlan
<1>14. /\ Followed(x, "spawn", "desire") /\ Followed(x, "docker_start", "desire")
       /\ Has(x, {"spawn"}) => Wasm(m)
       /\ Has(x, {"docker_start"}) => Docker(m)
  BY <1>7, <1>10, <1>11, <1>13, PlanConcat
<1>15. /\ Followed(y, "spawn", "desire") /\ Followed(y, "docker_start", "desire")
       /\ Has(y, {"spawn"}) => Wasm(m)
       /\ Has(y, {"docker_start"}) => Docker(m)
  BY <1>8, <1>12, <1>13, <1>14, PlanConcat
<1>16. CASE d = "running"
  <2>1. g = y BY <1>2, <1>5, <1>7, <1>8, <1>16
  <2> QED BY <1>9, <1>15, <1>16, <2>1 DEF PutOnRecord
<1>17. CASE d # "running" BY <1>17 DEF Followed, Has, PutOnRecord
<1> QED BY <1>16, <1>17

\* What an apply plans: it takes the former instance down before it saves the record, publishes
\* the manifest directly before that, and starts a service only if that is desired.
LEMMA ApplyPlanFacts ==
  ASSUME NEW prev, NEW m, NEW d, NEW s, s = ApplyPlan(prev, m, d)
  PROVE  /\ s \in Seq(StepName) /\ Has(s, {"persist"})
         /\ Followed(s, "spawn", "desire") /\ Followed(s, "docker_start", "desire") /\ Followed(s, "publish", "persist")
         /\ ~ Has(s, {"forget"}) /\ ~ Has(s, {"unpublish"})
         /\ d # "running" => ~ Has(s, {"spawn"}) /\ ~ Has(s, {"docker_start"}) /\ ~ Has(s, {"desire"})
         /\ Has(s, {"spawn"}) => Wasm(m)
         /\ Has(s, {"docker_start"}) => Docker(m)
         /\ Precedes(s, {"publish"}, {"persist"})
         /\ Docker(m) => Precedes(s, {"docker_create"}, {"persist"})
         /\ prev # NoManifest /\ Wasm(prev) => Precedes(s, {"drop"}, Removes)
         /\ prev # NoManifest /\ Docker(prev) => Precedes(s, {"docker_remove"}, Removes)
<1>1. PICK a : a = IF prev # NoManifest THEN ReplacePlan(prev, d) ELSE <<>> OBVIOUS
<1>2. PICK b : b = IF prev # NoManifest THEN <<"take", "drop">> ELSE <<>> OBVIOUS
<1>3. PICK e : e = CASE Wasm(m) -> b \o <<"build">> [] Docker(m) -> <<"docker_create">> [] OTHER -> <<>> OBVIOUS
<1>4. PICK f : f = CASE Wasm(m) -> <<"try_ensure">> [] Docker(m) -> <<"docker_inspect">> [] OTHER -> <<>> OBVIOUS
<1>5. PICK g : g = IF d = "running" THEN StartPlan(m) \o f \o <<"unlisten", "listen">> ELSE <<>> OBVIOUS
<1>6. PICK c : c = <<"publish", "persist">> OBVIOUS
<1>7. PICK x : x = a \o e OBVIOUS
<1>8. PICK y : y = x \o c OBVIOUS
<1>9. s = y \o g BY <1>1, <1>2, <1>3, <1>4, <1>5, <1>6, <1>7, <1>8 DEF ApplyPlan
<1>10. PICK Sa : Sa = {"take", "drop", "docker_stop", "docker_remove"} OBVIOUS
<1>11. PICK Se : Se = {"take", "drop", "build", "docker_create"} OBVIOUS
<1>12. PICK Sg : Sg = {"ensure", "spawn", "desire", "docker_start", "try_ensure", "docker_inspect", "unlisten", "listen"}
  OBVIOUS
<1>13. Sa \subseteq StepName /\ Se \subseteq StepName /\ Sg \subseteq StepName BY <1>10, <1>11, <1>12 DEF StepName
<1>14. /\ a \in Seq(Sa)
       /\ prev # NoManifest /\ Wasm(prev) => Has(a, {"drop"})
       /\ prev # NoManifest /\ Docker(prev) => Has(a, {"docker_remove"})
  BY <1>1, <1>10, ReplacePlanFacts
<1>15. e \in Seq(Se) /\ (Docker(m) => Has(e, {"docker_create"}))
  <2>1. b \in Seq({"take", "drop"})
    <3>1. PICK T : T = {"take", "drop"} OBVIOUS
    <3>2. "take" \in T /\ "drop" \in T BY <3>1
    <3>3. <<"take", "drop">> \in Seq(T) /\ <<>> \in Seq(T) BY <3>2
    <3>4. b \in Seq(T) BY <1>2, <3>3
    <3> QED BY <3>1, <3>4
  <2> QED BY <1>3, <1>11, <2>1, InstallFacts
<1>16. /\ g \in Seq(Sg)
       /\ Followed(g, "spawn", "desire") /\ Followed(g, "docker_start", "desire")
       /\ Has(g, {"spawn"}) => Wasm(m)
       /\ Has(g, {"docker_start"}) => Docker(m)
       /\ d # "running" => \A U : ~ Has(g, U)
  <2>1. PICK T : T = {"try_ensure", "docker_inspect"} OBVIOUS
  <2>2. <<"try_ensure">> \in Seq(T) /\ <<"docker_inspect">> \in Seq(T) /\ <<>> \in Seq(T) BY <2>1
  <2>3. f \in Seq(T) BY <1>4, <2>2
  <2>4. g \in Seq(Sg) BY <1>5, <1>12, <2>1, <2>3, StartUpFacts
  <2>5. PutOnRecord(g) BY <1>5, <1>12, <2>1, <2>3, StartUpFacts
  <2>8. Followed(g, "spawn", "desire") /\ Followed(g, "docker_start", "desire") BY <2>5 DEF PutOnRecord
  <2>6. (Has(g, {"spawn"}) => Wasm(m)) /\ (Has(g, {"docker_start"}) => Docker(m))
    BY <1>5, <1>12, <2>1, <2>3, StartUpFacts
  <2>7. d # "running" => \A U : ~ Has(g, U) BY <1>5, <1>12, <2>1, <2>3, StartUpFacts
  <2> QED BY <2>4, <2>5, <2>6, <2>7, <2>8
<1>17. /\ c \in Seq(StepName) /\ Followed(c, "spawn", "desire") /\ Followed(c, "docker_start", "desire")
       /\ Followed(c, "publish", "persist") /\ Has(c, {"persist"}) /\ Has(c, {"publish"})
       /\ Precedes(c, {"publish"}, {"persist"})
       /\ \A S : S \cap {"publish", "persist"} = {} => ~ Has(c, S)
  <2>1. c \in Seq(StepName) /\ Len(c) = 2 /\ c[1] = "publish" /\ c[2] = "persist" /\ 1..2 = {1, 2} /\ 1..1 = {1}
    BY <1>6 DEF StepName
  <2>2. Followed(c, "spawn", "desire") /\ Followed(c, "docker_start", "desire") /\ Followed(c, "publish", "persist")
    BY <2>1 DEF Followed
  <2>3. Has(c, {"persist"}) /\ Has(c, {"publish"}) /\ \A S : S \cap {"publish", "persist"} = {} => ~ Has(c, S)
    BY <2>1 DEF Has
  <2>4. Precedes(c, {"publish"}, {"persist"}) BY <2>1 DEF Precedes
  <2> QED BY <2>1, <2>2, <2>3, <2>4
<1>18. a \in Seq(StepName) /\ e \in Seq(StepName) /\ g \in Seq(StepName) /\ c \in Seq(StepName)
  BY <1>13, <1>14, <1>15, <1>16, <1>17
<1>19. x \in Seq(StepName) /\ y \in Seq(StepName) /\ s \in Seq(StepName) BY <1>7, <1>8, <1>9, <1>18, PlanConcat
<1>20. \A S : Has(x, S) <=> Has(a, S) \/ Has(e, S) BY <1>7, <1>18, PlanConcat
<1>21. \A S : Has(y, S) <=> Has(x, S) \/ Has(c, S) BY <1>8, <1>18, <1>19, PlanConcat
<1>22. \A S : Has(s, S) <=> Has(y, S) \/ Has(g, S) BY <1>9, <1>18, <1>19, PlanConcat
<1>23. \A T : Sa \cap T = {} => ~ Has(a, T) BY <1>14, PlanOf
<1>24. \A T : Se \cap T = {} => ~ Has(e, T) BY <1>15, PlanOf
<1>25. \A T : Sg \cap T = {} => ~ Has(g, T) BY <1>16, PlanOf
<1>26. Has(s, {"persist"}) BY <1>17, <1>21, <1>22
<1>27. \A h \in {"forget", "unpublish", "spawn", "docker_start", "desire", "publish", "persist"} :
         ~ Has(a, {h}) /\ ~ Has(e, {h})
  BY <1>10, <1>11, <1>23, <1>24
<1>28. \A h \in {"forget", "unpublish", "spawn", "docker_start", "desire"} : ~ Has(c, {h}) BY <1>17
<1>29. \A h \in {"forget", "unpublish", "publish", "persist"} : ~ Has(g, {h}) BY <1>12, <1>25
<1>30. ~ Has(s, {"forget"}) /\ ~ Has(s, {"unpublish"}) BY <1>20, <1>21, <1>22, <1>27, <1>28, <1>29
<1>31. d # "running" => ~ Has(s, {"spawn"}) /\ ~ Has(s, {"docker_start"}) /\ ~ Has(s, {"desire"})
  BY <1>16, <1>20, <1>21, <1>22, <1>27, <1>28
<1>32. (Has(s, {"spawn"}) => Wasm(m)) /\ (Has(s, {"docker_start"}) => Docker(m))
  BY <1>16, <1>20, <1>21, <1>22, <1>27, <1>28
<1>33. \A k \in {"spawn", "docker_start", "publish"} : \A n : Followed(a, k, n) /\ Followed(e, k, n)
  <2>1. \A k \in {"spawn", "docker_start", "publish"} : k \notin Sa /\ k \notin Se BY <1>10, <1>11
  <2>2. \A k, n : k \notin Sa => Followed(a, k, n) BY <1>14, PlanOf
  <2>3. \A k, n : k \notin Se => Followed(e, k, n) BY <1>15, PlanOf
  <2> QED BY <2>1, <2>2, <2>3, Zenon
<1>34. /\ \A k, n : Followed(a, k, n) /\ Followed(e, k, n) => Followed(x, k, n)
       /\ \A k, n : Followed(x, k, n) /\ Followed(c, k, n) => Followed(y, k, n)
       /\ \A k, n : Followed(y, k, n) /\ Followed(g, k, n) => Followed(s, k, n)
  <2>1. \A k, n : Followed(a, k, n) /\ Followed(e, k, n) => Followed(x, k, n) BY <1>7, <1>18, PlanConcat
  <2>2. \A k, n : Followed(x, k, n) /\ Followed(c, k, n) => Followed(y, k, n) BY <1>8, <1>18, <1>19, PlanConcat
  <2>3. \A k, n : Followed(y, k, n) /\ Followed(g, k, n) => Followed(s, k, n) BY <1>9, <1>18, <1>19, PlanConcat
  <2> QED BY <2>1, <2>2, <2>3
<1>35. Followed(g, "publish", "persist") BY <1>12, <1>16, PlanOf
<1>36. Followed(s, "spawn", "desire") /\ Followed(s, "docker_start", "desire") /\ Followed(s, "publish", "persist")
  BY <1>33, <1>34, <1>16, <1>17, <1>35
<1>37. /\ \A A, B : Precedes(x, A, B) => Precedes(y, A, B)
       /\ \A A, B : Precedes(y, A, B) => Precedes(s, A, B)
  BY <1>8, <1>18, <1>19, <1>9, PlanConcat
<1>38. Precedes(s, {"publish"}, {"persist"})
  <2>1. ~ Has(x, {"persist"}) BY <1>20, <1>27
  <2>2. \A A, B : ~ Has(x, B) /\ Precedes(c, A, B) => Precedes(y, A, B) BY <1>8, <1>18, <1>19, PlanConcat
  <2>3. Precedes(y, {"publish"}, {"persist"}) BY <1>17, <2>1, <2>2
  <2> QED BY <1>37, <2>3
<1>39. ASSUME Docker(m) PROVE Precedes(s, {"docker_create"}, {"persist"})
  <2>1. Has(e, {"docker_create"}) /\ Se \cap {"persist"} = {} /\ ~ Has(a, {"persist"}) BY <1>11, <1>15, <1>27, <1>39
  <2>2. Precedes(e, {"docker_create"}, {"persist"}) BY <1>15, <2>1, PlanOf
  <2>3. Precedes(x, {"docker_create"}, {"persist"}) BY <1>7, <1>18, <2>1, <2>2, PlanConcat
  <2> QED BY <1>37, <2>3
<1>40. \A A : Has(a, A) => Precedes(s, A, Removes)
  <2> SUFFICES ASSUME NEW A, Has(a, A) PROVE Precedes(s, A, Removes) OBVIOUS
  <2>1. Sa \cap Removes = {} BY <1>10 DEF Removes
  <2>2. Precedes(a, A, Removes) BY <1>14, <2>1, PlanOf
  <2>3. Precedes(x, A, Removes) BY <1>7, <1>18, <2>2, PlanConcat
  <2> QED BY <1>37, <2>3
<1> QED BY <1>14, <1>19, <1>26, <1>30, <1>31, <1>32, <1>36, <1>38, <1>39, <1>40

\* One of several steps.
LEMMA HasAny ==
  ASSUME NEW s
  PROVE  /\ Has(s, Starts) <=> Has(s, {"spawn"}) \/ Has(s, {"docker_start"})
         /\ Has(s, {"forget", "unpublish"}) <=> Has(s, {"forget"}) \/ Has(s, {"unpublish"})
         /\ \A S, T : S \subseteq T /\ Has(s, S) => Has(s, T)
  BY DEF Has, Starts

\* The plan of an apply has the shape of a call, and relies on nothing but the record it replaces.
LEMMA PlannedKnows ==
  ASSUME Data, StoppedDown, NEW n \in Name, NEW prev, NEW d,
         d = IF store[n] # NoService THEN store[n].desired ELSE "stopped",
         store[n] # NoService => prev = store[n].man /\ prev # NoManifest,
         NEW u, u.op = "apply", u.name = n, u.desired = d, u.todo = ApplyPlan(prev, u.man, d),
         UNCHANGED <<store, dirs, manifests, prov, containers, stopped>>
  PROVE  CallShape(u) /\ CallKnows(u)'
<1>1. PICK s \in Seq(StepName) : s = u.todo /\ u.todo = s BY ApplyPlanFacts
<1>2. /\ Has(s, {"persist"})
      /\ Followed(s, "spawn", "desire") /\ Followed(s, "docker_start", "desire") /\ Followed(s, "publish", "persist")
      /\ ~ Has(s, {"forget"}) /\ ~ Has(s, {"unpublish"})
      /\ d # "running" => ~ Has(s, {"spawn"}) /\ ~ Has(s, {"docker_start"}) /\ ~ Has(s, {"desire"})
      /\ Has(s, {"spawn"}) => Wasm(u.man)
      /\ Has(s, {"docker_start"}) => Docker(u.man)
      /\ Precedes(s, {"publish"}, {"persist"})
      /\ Docker(u.man) => Precedes(s, {"docker_create"}, {"persist"})
      /\ prev # NoManifest /\ Wasm(prev) => Precedes(s, {"drop"}, Removes)
      /\ prev # NoManifest /\ Docker(prev) => Precedes(s, {"docker_remove"}, Removes)
  BY <1>1, ApplyPlanFacts
<1>3. /\ Has(s, Starts) => d = "running"
      /\ Has(s, {"desire"}) => d = "running"
      /\ ~ Has(s, {"forget", "unpublish"})
      /\ Has(s, Installing)
  BY <1>2, HasAny DEF Installing
<1>4. CallShape(u) BY <1>1, <1>2, <1>3 DEF CallShape
<1>5. SaveKnows(u)' BY <1>1, <1>2 DEF SaveKnows
<1>6. ReplaceKnows(u)' BY <1>1, <1>2 DEF ReplaceKnows
<1>7. StartKnows(u)' BY <1>1, <1>3 DEF StoppedDown, IsDown, StartKnows
<1>8. StopKnows(u)' /\ RemoveKnows(u)' BY <1>1, <1>2 DEF StopKnows, RemoveKnows
<1> QED BY <1>4, <1>5, <1>6, <1>7, <1>8 DEF CallKnows

\* An apply finds out what it replaces, or is refused.
LEMMA ResolveKnows ==
  ASSUME OneCaller, PInv, DInv', NEW p \in Caller, Resolve(p)
  PROVE  PInv'
<1>1. PICK t \in Task : t = task[p] /\ t.todo # <<>> /\ Head(t.todo) = "resolve" BY AtFacts DEF Resolve, PInv, DInv
<1>2. UNCHANGED <<store, dirs, manifests, prov, containers, stopped>> BY DEF Resolve
<1>3. Head(t.todo) \notin Looks /\ Head(t.todo) # "persist" /\ Head(t.todo) # "desire"
      /\ {"persist", "desire"} \subseteq StepName \ Looks
  BY <1>1 DEF Looks, StepName
<1>4. /\ ~ Resting(t) /\ Data /\ CallShape(t) /\ CallKnows(t) /\ t.name \in Name
      /\ \A q \in Caller : ~ At(q, "persist") /\ ~ At(q, "desire")
  BY <1>1, <1>3, Active
<1>5. PICK n \in Name : n = t.name /\ t.name = n BY <1>4
<1>6. ASSUME errored \subseteq errored' PROVE Wanted' BY <1>2, <1>6, <1>4, WantedKept DEF Child, Runs, PInv
<1>7. PICK prev : prev = IF store[n] # NoService THEN store[n].man ELSE manifests[n] OBVIOUS
<1>8. PICK d : d = IF store[n] # NoService THEN store[n].desired ELSE "stopped" OBVIOUS
<1>9. PICK u : u = [t EXCEPT !.prev = prev, !.desired = d, !.todo = ApplyPlan(prev, t.man, d)] OBVIOUS
<1>10. Abort(p) \/ (task' = [task EXCEPT ![p] = u] /\ UNCHANGED errored) BY <1>1, <1>5, <1>7, <1>8, <1>9 DEF Resolve
<1>11. CASE Abort(p) BY <1>1, <1>3, <1>6, <1>11, DoubtsStay, AbortKnows
<1>12. CASE task' = [task EXCEPT ![p] = u] /\ UNCHANGED errored
  <2>1. u.op = t.op /\ u.name = n /\ u.man = t.man /\ u.desired = d /\ u.todo = ApplyPlan(prev, t.man, d)
    BY <1>5, <1>9 DEF Task
  <2>2. t.op = "apply" BY <1>1, <1>4, PlanTail DEF Task, CallShape
  <2>3. store[n] # NoService => prev = store[n].man /\ prev # NoManifest
    BY <1>4, <1>7, RuntimeAssumption DEF Data, Service
  <2>4. StoppedDown BY DEF PInv, Wanted
  <2>5. CallShape(u) /\ CallKnows(u)' BY <1>2, <1>4, <1>8, <2>1, <2>2, <2>3, <2>4, PlannedKnows
  <2>6. \A q \in Caller : (CallShape(task[q]) /\ CallKnows(task[q]))' BY <1>1, <1>4, <1>12, <2>5, OneActs DEF PInv
  <2>7. Wanted' BY <1>6, <1>12
  <2> QED BY <2>6, <2>7 DEF PInv
<1> QED BY <1>10, <1>11, <1>12

\* While calls are served and one caller has none, no caller is about a service.
LEMMA AllRest ==
  ASSUME OneCaller, PInv, NEW p \in Proc, Serving, task[p].op = "idle"
  PROVE  /\ \A q \in Caller : Resting(task[q])
         /\ \A q \in Caller, s \in StepName \ Looks : ~ At(q, s)
         /\ \A n \in Name : manifests[n] # NoManifest => store[n] # NoService /\ store[n].man = manifests[n]
<1>1. \A q \in Proc : q = p BY DEF OneCaller
<1>2. Resting(task[Boot]) BY DEF PInv, DInv, BootFits, Serving, Resting
<1>3. task[p] = Idle BY DEF PInv, DInv, TInv, BootInv
<1>4. Resting(Idle) BY IdleFacts DEF Resting
<1>5. \A q \in Caller : Resting(task[q]) BY <1>1, <1>2, <1>3, <1>4 DEF Caller
<1>6. \A q \in Caller, s \in StepName \ Looks : ~ At(q, s) BY <1>5, RestingFacts DEF At
<1>7. \A q \in Caller : ~ At(q, "persist") BY <1>6 DEF StepName, Looks
<1>8. \A n \in Name : manifests[n] # NoManifest => store[n] # NoService /\ store[n].man = manifests[n]
  BY <1>7 DEF PInv, Wanted, Agreed
<1> QED BY <1>5, <1>6, <1>8

\* A call begins, and changes nothing yet.
LEMMA BeginKnows ==
  ASSUME OneCaller, PInv, DInv', NEW p \in Proc, NEW t, Begin(p, t), stopped' \subseteq stopped,
         CallShape(t), CallKnows(t)'
  PROVE  PInv'
<1>1. Serving /\ task[p].op = "idle" /\ task' = [task EXCEPT ![p] = t]
      /\ UNCHANGED <<store, dirs, manifests, prov, containers>> /\ errored \subseteq errored'
  BY DEF Begin
<1>2. /\ \A q \in Caller : Resting(task[q])
      /\ \A q \in Caller, s \in StepName \ Looks : ~ At(q, s)
  BY <1>1, AllRest
<1>3. \A q \in Caller : ~ At(q, "persist") /\ ~ At(q, "desire") BY <1>2 DEF StepName, Looks
<1>4. Data BY DEF PInv, DInv, TInv, Variables
<1>5. /\ \A n \in Name : manifests'[n] \in {manifests[n], NoManifest}
      /\ \A n \in Name : Child(n)' => Child(n)
      /\ \A i \in Id : Runs(i)' => Runs(i) /\ (i \in errored => i \in errored')
      /\ \A n \in stopped' : n \in stopped \/ (n \in Name /\ IsDown(n))
  BY <1>1 DEF Child, Runs
<1>6. Wanted' BY <1>1, <1>3, <1>4, <1>5, WantedKept DEF PInv
<1>7. task \in [Caller -> Task] /\ p \in Caller BY DEF PInv, DInv, TInv, Caller
<1>8. ASSUME NEW q \in Caller PROVE CallShape(task'[q]) /\ CallKnows(task[q])'
  <2>1. CASE q = p BY <1>1, <1>7, <2>1
  <2>2. CASE q # p
    <3>1. task'[q] = task[q] BY <1>1, <1>7, <2>2
    <3>2. PICK r : r = task[q] OBVIOUS
    <3>3. Resting(r) /\ r.op # "stop" BY <1>2, <3>2 DEF Resting
    <3>4. CallShape(r) /\ \A S : S \cap Looks = {} => ~ Has(r.todo, S) BY <3>3, RestingFacts
    <3>5. CallKnows(r)' BY <3>3, <3>4, RestingKnows
    <3> QED BY <3>1, <3>2, <3>4, <3>5
  <2> QED BY <2>1, <2>2
<1> QED BY <1>6, <1>8 DEF PInv

\* A call whose first step decides about the rest.
LEMMA FirstStepKnows ==
  ASSUME NEW t, NEW h \in {"resolve", "try_ensure"}, t.todo = <<h>>, t.op = IF h = "resolve" THEN "apply" ELSE "inspect"
  PROVE  CallShape(t) /\ CallKnows(t)'
<1>1. PICK S : h \in S /\ \A x : x \in S <=> x = h
  <2>1. h \in {h} /\ \A x : x \in {h} <=> x = h OBVIOUS
  <2> QED BY <2>1, Zenon
<1>2. PICK s \in Seq(S) : s = t.todo /\ t.todo = s
  <2>1. <<h>> \in Seq(S) BY <1>1
  <2> QED BY <2>1
<1>3. \A T : h \notin T => ~ Has(s, T) BY <1>1, PlanOf
<1>4. \A a, b : a # h => Followed(s, a, b) BY <1>1, PlanOf
<1>5. Followed(s, "spawn", "desire") /\ Followed(s, "docker_start", "desire") /\ Followed(s, "publish", "persist")
  BY <1>4
<1>6. /\ ~ Has(s, Starts) /\ ~ Has(s, {"desire"}) /\ ~ Has(s, {"forget", "unpublish"}) /\ ~ Has(s, {"publish"})
      /\ ~ Has(s, {"persist"}) /\ ~ Has(s, Removes) /\ ~ Has(s, {"forget"}) /\ ~ Has(s, {"unlisten"})
      /\ h = "try_ensure" => ~ Has(s, {"persist", "resolve", "docker_create"})
  BY <1>3 DEF Starts, Removes
<1>7. CallShape(t) BY <1>2, <1>5, <1>6 DEF CallShape
<1>8. CallKnows(t)' BY <1>2, <1>6 DEF CallKnows, SaveKnows, ReplaceKnows, StartKnows, StopKnows, RemoveKnows
<1> QED BY <1>7, <1>8

\* An apply, or an inspection, begins.
LEMMA ApplyBeginKnows ==
  ASSUME OneCaller, PInv, DInv', NEW p \in Proc, NEW n \in Name,
         InspectBegin(p, n) \/ \E m \in Manifest, i \in Id : ApplyBegin(p, n, m, i)
  PROVE  PInv'
<1>1. CASE InspectBegin(p, n)
  <2>1. PICK t : t = [Idle EXCEPT !.op = "inspect", !.name = n, !.todo = <<"try_ensure">>] OBVIOUS
  <2>2. Begin(p, t) /\ stopped' \subseteq stopped BY <1>1, <2>1 DEF InspectBegin
  <2>3. t.todo = <<"try_ensure">> /\ t.op = "inspect" BY <2>1 DEF Idle
  <2>4. CallShape(t) /\ CallKnows(t)' BY <2>3, FirstStepKnows
  <2> QED BY <2>2, <2>4, BeginKnows
<1>2. ASSUME NEW m \in Manifest, NEW i \in Id, ApplyBegin(p, n, m, i) PROVE PInv'
  <2>1. PICK t : t = [Idle EXCEPT !.op = "apply", !.todo = <<"resolve">>, !.name = n, !.man = m, !.id = i] OBVIOUS
  <2>2. Begin(p, t) /\ stopped' \subseteq stopped BY <1>2, <2>1 DEF ApplyBegin
  <2>3. t.todo = <<"resolve">> /\ t.op = "apply" BY <2>1 DEF Idle
  <2>4. CallShape(t) /\ CallKnows(t)' BY <2>3, FirstStepKnows
  <2> QED BY <2>2, <2>4, BeginKnows
<1> QED BY <1>1, <1>2

\* A start puts what it starts on record, and then only listens.
LEMMA StartCallFacts ==
  ASSUME NEW m, NEW s, s = StartPlan(m) \o <<"listen">>
  PROVE  /\ s \in Seq(StepName) /\ PutOnRecord(s)
         /\ Has(s, {"spawn"}) => Wasm(m)
         /\ Has(s, {"docker_start"}) => Docker(m)
         /\ ~ Has(s, {"persist", "resolve", "docker_create", "publish", "forget", "unpublish"})
<1>1. PICK S : S = {"ensure", "spawn", "desire", "docker_start", "listen"} OBVIOUS
<1>2. PICK a : a = StartPlan(m) OBVIOUS
<1>3. PICK b : b = <<"listen">> OBVIOUS
<1>4. PICK U : U = {"listen"} OBVIOUS
<1>5. S \subseteq StepName /\ U \subseteq S BY <1>1, <1>4 DEF StepName
<1>6. b \in Seq(U) /\ b \in Seq(S) /\ a \in Seq(S)
  <2>1. "listen" \in U BY <1>4
  <2>2. b \in Seq(U) BY <1>3, <2>1
  <2>3. {"ensure", "spawn", "desire", "docker_start"} \subseteq S BY <1>1
  <2>4. a \in Seq(S) BY <1>2, <2>3, StartPlanType
  <2> QED BY <1>5, <2>2, <2>4, WiderPlan
<1>7. a \in Seq(StepName) /\ b \in Seq(StepName) BY <1>5, <1>6, WiderPlan
<1>8. s = a \o b BY <1>2, <1>3
<1>9. s \in Seq(S) BY <1>6, <1>8, ConcatType
<1>10. ~ Has(s, {"persist", "resolve", "docker_create", "publish", "forget", "unpublish"})
  <2>1. S \cap {"persist", "resolve", "docker_create", "publish", "forget", "unpublish"} = {} BY <1>1
  <2> QED BY <1>9, <2>1, PlanOf
<1>11. PutOnRecord(a) /\ (Has(a, {"spawn"}) => Wasm(m)) /\ (Has(a, {"docker_start"}) => Docker(m))
  BY <1>2, StartPlanFacts DEF PutOnRecord
<1>12. PutOnRecord(b) /\ ~ Has(b, {"spawn"}) /\ ~ Has(b, {"docker_start"}) BY <1>4, <1>6, PlanOf DEF PutOnRecord
<1>13. PutOnRecord(s) BY <1>7, <1>8, <1>11, <1>12, PlanConcat DEF PutOnRecord
<1>14. \A T : Has(s, T) <=> Has(a, T) \/ Has(b, T) BY <1>7, <1>8, PlanConcat
<1>15. s \in Seq(StepName) BY <1>5, <1>9, WiderPlan
<1> QED BY <1>10, <1>11, <1>12, <1>13, <1>14, <1>15

\* A start begins: what it starts is on record, and the service does not count as stopped any more.
LEMMA StartBeginKnows ==
  ASSUME OneCaller, PInv, DInv', NEW p \in Proc, NEW n \in Name, StartBegin(p, n)
  PROVE  PInv'
<1>1. PICK m : m = manifests[n] OBVIOUS
<1>2. PICK s : s = StartPlan(m) \o <<"listen">> OBVIOUS
<1>3. PICK t : t = [Idle EXCEPT !.op = "start", !.name = n, !.desired = "running", !.todo = s] OBVIOUS
<1>4. m # NoManifest /\ Begin(p, t) /\ stopped' = stopped \ {n} BY <1>1, <1>2, <1>3 DEF StartBegin
<1>5. t.op = "start" /\ t.name = n /\ t.desired = "running" /\ t.todo = s BY <1>3 DEF Idle
<1>6. store[n] # NoService /\ store[n].man = m BY <1>4, <1>1, AllRest DEF Begin
<1>7. /\ s \in Seq(StepName) /\ PutOnRecord(s)
      /\ Has(s, {"spawn"}) => Wasm(m)
      /\ Has(s, {"docker_start"}) => Docker(m)
      /\ ~ Has(s, {"persist", "resolve", "docker_create", "publish", "forget", "unpublish"})
  BY <1>2, StartCallFacts
<1>8. /\ ~ Has(s, {"persist", "resolve", "docker_create"}) /\ ~ Has(s, {"persist"}) /\ ~ Has(s, {"publish"})
      /\ ~ Has(s, {"forget", "unpublish"}) /\ ~ Has(s, {"forget"}) /\ ~ Has(s, Removes)
  BY <1>7, HasAny DEF Removes
<1>9. CallShape(t) BY <1>5, <1>7, <1>8 DEF CallShape, PutOnRecord
<1>10. UNCHANGED <<store, manifests, prov, containers>> BY <1>4 DEF Begin
<1>11. StartKnows(t)' BY <1>4, <1>5, <1>6, <1>7, <1>10 DEF StartKnows
<1>12. CallKnows(t)' BY <1>5, <1>8, <1>11 DEF CallKnows, SaveKnows, ReplaceKnows, StopKnows, RemoveKnows
<1> QED BY <1>4, <1>9, <1>12, BeginKnows

\* A stop takes the process, or the container, down before it puts that on record.
LEMMA StopCallFacts ==
  ASSUME NEW m, NEW s,
         s = (CASE Wasm(m) -> <<"try_ensure", "take">> [] Docker(m) -> <<"docker_stop">> [] OTHER -> <<>>)
               \o <<"desire", "unlisten">>
  PROVE  /\ s \in Seq({"try_ensure", "take", "docker_stop", "desire", "unlisten"})
         /\ Wasm(m) => Precedes(s, {"take", "reap"}, {"desire"})
         /\ Docker(m) => Precedes(s, {"docker_stop"}, {"desire"})
         /\ Precedes(s, {"desire"}, {"unlisten"})
<1>1. PICK S : S = {"try_ensure", "take", "docker_stop", "desire", "unlisten"} OBVIOUS
<1>2. PICK U : U = {"try_ensure", "take", "docker_stop"} OBVIOUS
<1>3. PICK b : b = <<"desire", "unlisten">> OBVIOUS
<1>4. PICK c : c = <<"try_ensure", "take">> OBVIOUS
<1>5. PICK e : e = <<"docker_stop">> OBVIOUS
<1>6. PICK a : a = CASE Wasm(m) -> c [] Docker(m) -> e [] OTHER -> <<>> OBVIOUS
<1>7. U \subseteq S /\ S \subseteq StepName BY <1>1, <1>2 DEF StepName
<1>8. b \in Seq(S) /\ c \in Seq(U) /\ e \in Seq(U) /\ <<>> \in Seq(U) BY <1>1, <1>2, <1>3, <1>4, <1>5
<1>9. a \in Seq(U) BY <1>6, <1>8
<1>10. a \in Seq(S) /\ a \in Seq(StepName) /\ b \in Seq(StepName) BY <1>7, <1>8, <1>9, WiderPlan
<1>11. s = a \o b BY <1>3, <1>4, <1>5, <1>6
<1>12. s \in Seq(S) BY <1>8, <1>10, <1>11, ConcatType
<1>13. /\ \A A, B : Precedes(a, A, B) => Precedes(s, A, B)
       /\ \A A, B : ~ Has(a, B) /\ Precedes(b, A, B) => Precedes(s, A, B)
  BY <1>10, <1>11, PlanConcat
<1>14. U \cap {"desire"} = {} /\ U \cap {"unlisten"} = {} BY <1>2
<1>15. \A A : Has(a, A) => Precedes(a, A, {"desire"}) BY <1>9, <1>14, PlanOf
<1>16. Wasm(m) => Has(a, {"take", "reap"}) BY <1>4, <1>6 DEF Has, Wasm, Docker
<1>17. Docker(m) => Has(a, {"docker_stop"}) BY <1>5, <1>6 DEF Has, Wasm, Docker
<1>18. Precedes(s, {"desire"}, {"unlisten"}) BY <1>3, <1>9, <1>14, <1>13, PlanOf DEF Precedes
<1> QED BY <1>1, <1>12, <1>13, <1>15, <1>16, <1>17, <1>18

\* A stop begins.
LEMMA StopBeginKnows ==
  ASSUME OneCaller, PInv, DInv', NEW p \in Proc, NEW n \in Name, StopBegin(p, n)
  PROVE  PInv'
<1>1. PICK m : m = manifests[n] OBVIOUS
<1>2. PICK s : s = (CASE Wasm(m) -> <<"try_ensure", "take">> [] Docker(m) -> <<"docker_stop">> [] OTHER -> <<>>)
                     \o <<"desire", "unlisten">>
  OBVIOUS
<1>3. PICK t : t = [Idle EXCEPT !.op = "stop", !.name = n, !.todo = s] OBVIOUS
<1>4. m # NoManifest /\ Begin(p, t) /\ stopped' = stopped BY <1>1, <1>2, <1>3 DEF StopBegin
<1>5. t.op = "stop" /\ t.name = n /\ t.desired = "stopped" /\ t.todo = s BY <1>3 DEF Idle
<1>6. store[n] # NoService /\ store[n].man = m BY <1>4, <1>1, AllRest DEF Begin
<1>7. PICK S : S = {"try_ensure", "take", "docker_stop", "desire", "unlisten"} OBVIOUS
<1>8. /\ s \in Seq(S)
      /\ Wasm(m) => Precedes(s, {"take", "reap"}, {"desire"})
      /\ Docker(m) => Precedes(s, {"docker_stop"}, {"desire"})
      /\ Precedes(s, {"desire"}, {"unlisten"})
  BY <1>2, <1>7, StopCallFacts
<1>9. "spawn" \notin S /\ "docker_start" \notin S BY <1>7
<1>10. PutOnRecord(s) BY <1>8, <1>9, PlanOf DEF PutOnRecord
<1>11. /\ S \cap {"persist", "resolve", "docker_create"} = {} /\ S \cap {"persist"} = {} /\ S \cap {"publish"} = {}
       /\ S \cap {"forget", "unpublish"} = {} /\ S \cap {"forget"} = {} /\ S \cap Removes = {} /\ S \cap Starts = {}
  BY <1>7 DEF Removes, Starts
<1>12. /\ ~ Has(s, {"persist", "resolve", "docker_create"}) /\ ~ Has(s, {"persist"}) /\ ~ Has(s, {"publish"})
       /\ ~ Has(s, {"forget", "unpublish"}) /\ ~ Has(s, {"forget"}) /\ ~ Has(s, Removes) /\ ~ Has(s, Starts)
  BY <1>8, <1>11, PlanOf
<1>13. CallShape(t) BY <1>5, <1>10, <1>12 DEF CallShape, PutOnRecord
<1>14. UNCHANGED <<store, manifests, prov, containers>> BY <1>4 DEF Begin
<1>15. StopKnows(t)' BY <1>5, <1>6, <1>8, <1>14 DEF StopKnows
<1>16. CallKnows(t)' BY <1>5, <1>12, <1>15 DEF CallKnows, SaveKnows, ReplaceKnows, StartKnows, RemoveKnows
<1> QED BY <1>4, <1>13, <1>16, BeginKnows

\* A removal takes the process, or the container, away before it drops the record, and
\* withdraws the manifest before that too.
LEMMA RemoveCallFacts ==
  ASSUME NEW m, NEW s,
         s = (CASE Wasm(m) -> <<"take", "drop">> [] Docker(m) -> <<"docker_remove">> [] OTHER -> <<>>)
               \o <<"unpublish", "forget", "unlisten">>,
         NEW S, S = {"take", "drop", "docker_remove", "unpublish", "forget", "unlisten"}
  PROVE  /\ s \in Seq(S)
         /\ Wasm(m) => Precedes(s, {"drop"}, Removes)
         /\ Docker(m) => Precedes(s, {"docker_remove"}, Removes)
         /\ Precedes(s, {"unpublish"}, {"forget"})
<1>2. PICK U : U = {"take", "drop", "docker_remove"} OBVIOUS
<1>3. PICK b : b = <<"unpublish", "forget", "unlisten">> OBVIOUS
<1>4. PICK c : c = <<"take", "drop">> OBVIOUS
<1>5. PICK e : e = <<"docker_remove">> OBVIOUS
<1>6. PICK a : a = CASE Wasm(m) -> c [] Docker(m) -> e [] OTHER -> <<>> OBVIOUS
<1>7. U \subseteq S /\ S \subseteq StepName BY <1>2 DEF StepName
<1>8. b \in Seq(S) /\ c \in Seq(U) /\ e \in Seq(U) /\ <<>> \in Seq(U) BY <1>2, <1>3, <1>4, <1>5
<1>9. a \in Seq(U) BY <1>6, <1>8
<1>10. a \in Seq(S) /\ a \in Seq(StepName) /\ b \in Seq(StepName) BY <1>7, <1>8, <1>9, WiderPlan
<1>11. s = a \o b BY <1>3, <1>4, <1>5, <1>6
<1>12. s \in Seq(S) BY <1>8, <1>10, <1>11, ConcatType
<1>13. /\ \A A, B : Precedes(a, A, B) => Precedes(s, A, B)
       /\ \A A, B : ~ Has(a, B) /\ Precedes(b, A, B) => Precedes(s, A, B)
  BY <1>10, <1>11, PlanConcat
<1>14. U \cap Removes = {} /\ U \cap {"forget"} = {} BY <1>2 DEF Removes
<1>15. \A A : Has(a, A) => Precedes(a, A, Removes) BY <1>9, <1>14, PlanOf
<1>16. Wasm(m) => Has(a, {"drop"}) BY <1>4, <1>6 DEF Has, Wasm, Docker
<1>17. Docker(m) => Has(a, {"docker_remove"}) BY <1>5, <1>6 DEF Has, Wasm, Docker
<1>18. Precedes(s, {"unpublish"}, {"forget"}) BY <1>3, <1>9, <1>14, <1>13, PlanOf DEF Precedes
<1> QED BY <1>12, <1>13, <1>15, <1>16, <1>17, <1>18

\* A removal begins.
LEMMA RemoveBeginKnows ==
  ASSUME OneCaller, PInv, DInv', NEW p \in Proc, NEW n \in Name, RemoveBegin(p, n)
  PROVE  PInv'
<1>1. PICK m : m = manifests[n] OBVIOUS
<1>2. PICK s : s = (CASE Wasm(m) -> <<"take", "drop">> [] Docker(m) -> <<"docker_remove">> [] OTHER -> <<>>)
                     \o <<"unpublish", "forget", "unlisten">>
  OBVIOUS
<1>3. PICK t : t = [Idle EXCEPT !.op = "remove", !.name = n, !.prev = m, !.todo = s] OBVIOUS
<1>4. m # NoManifest /\ Begin(p, t) /\ stopped' = stopped BY <1>1, <1>2, <1>3 DEF RemoveBegin
<1>5. t.op = "remove" /\ t.name = n /\ t.todo = s BY <1>3 DEF Idle
<1>6. store[n] # NoService /\ store[n].man = m BY <1>4, <1>1, AllRest DEF Begin
<1>7. PICK S : S = {"take", "drop", "docker_remove", "unpublish", "forget", "unlisten"} OBVIOUS
<1>8. /\ s \in Seq(S)
      /\ Wasm(m) => Precedes(s, {"drop"}, Removes)
      /\ Docker(m) => Precedes(s, {"docker_remove"}, Removes)
      /\ Precedes(s, {"unpublish"}, {"forget"})
  BY <1>2, <1>7, RemoveCallFacts
<1>9. "spawn" \notin S /\ "docker_start" \notin S BY <1>7
<1>10. PutOnRecord(s) BY <1>8, <1>9, PlanOf DEF PutOnRecord
<1>11. /\ S \cap {"persist", "resolve", "docker_create"} = {} /\ S \cap {"persist"} = {} /\ S \cap {"publish"} = {}
       /\ S \cap {"desire"} = {} /\ S \cap Starts = {}
  BY <1>7 DEF Starts
<1>12. /\ ~ Has(s, {"persist", "resolve", "docker_create"}) /\ ~ Has(s, {"persist"}) /\ ~ Has(s, {"publish"})
       /\ ~ Has(s, {"desire"}) /\ ~ Has(s, Starts)
  BY <1>8, <1>11, PlanOf
<1>13. CallShape(t) BY <1>5, <1>10, <1>12 DEF CallShape, PutOnRecord
<1>14. UNCHANGED <<store, manifests, prov, containers>> BY <1>4 DEF Begin
<1>15. ReplaceKnows(t)' /\ RemoveKnows(t)' BY <1>5, <1>6, <1>8, <1>14 DEF ReplaceKnows, RemoveKnows
<1>16. CallKnows(t)' BY <1>5, <1>12, <1>15 DEF CallKnows, SaveKnows, StartKnows, StopKnows
<1> QED BY <1>4, <1>13, <1>16, BeginKnows

\* What a call is about.
LEMMA CallNames ==
  ASSUME NEW t, TaskInv(t), CallShape(t)
  PROVE  /\ Has(t.todo, {"persist"}) => t.id \in Id
         /\ Has(t.todo, Removes) \/ t.op = "stop" => t.name \in Name
<1>1. \A i \in 1..Len(t.todo) : t.todo[i] \in Allowed(t) BY DEF TaskInv
<1>2. Has(t.todo, {"persist"}) => t.id \in Id BY <1>1 DEF Has, Allowed
<1>3. Has(t.todo, Removes) => t.name \in Name BY <1>1 DEF Has, Removes, Allowed, Loose
<1>4. t.op = "stop" => t.name \in Name BY DEF TaskInv
<1> QED BY <1>2, <1>3, <1>4

\* A service that is stopped stays so when less runs.
LEMMA DownStays ==
  ASSUME Data, NEW n \in Name, UNCHANGED <<store, dirs>>, \A i \in Id : Runs(i)' => Runs(i), IsDown(n)
  PROVE  IsDown(n)'
<1>1. store[n] # NoService /\ store[n].id \in Id BY DEF Data, Service, IsDown
<1>2. PICK i \in Id : i = store[n].id /\ store[n].id = i BY <1>1
<1>3. PICK s : s = store[n] /\ store[n] = s OBVIOUS
<1>4. store'[n] = s /\ dirs' = dirs /\ s.id = i /\ (Runs(i)' => Runs(i)) BY <1>2, <1>3
<1>5. /\ s # NoService /\ s.desired = "stopped"
      /\ dirs[i] # NoDir /\ dirs[i].name = n /\ dirs[i].desired = "stopped"
      /\ Docker(s.man) \/ Docker(dirs[i].man) => ~ Runs(i)
  BY <1>3, <1>4 DEF IsDown
<1> QED BY <1>4, <1>5 DEF IsDown

\* What a call knows stays true when less runs.
LEMMA KnowsLess ==
  ASSUME Data, NEW t, TaskInv(t), CallShape(t), CallKnows(t),
         UNCHANGED <<store, dirs, manifests, stopped>>,
         \A n \in Name : Child(n)' => Child(n), \A i \in Id : Runs(i)' => Runs(i)
  PROVE  CallKnows(t)'
<1>1. PICK n : n = t.name /\ t.name = n OBVIOUS
<1>2. PICK s : s = store[n] /\ store[n] = s OBVIOUS
<1>3. PICK d : d = t.todo /\ t.todo = d OBVIOUS
<1>4. /\ Has(d, {"persist"}) => t.id \in Id
      /\ Has(d, Removes) \/ t.op = "stop" => n \in Name
  BY <1>1, <1>3, CallNames
<1>5. n \in Name /\ s # NoService => s.id \in Id BY <1>2 DEF Data, Service
<1>6. store'[n] = s /\ manifests' = manifests /\ stopped' = stopped BY <1>2
<1>7. SaveKnows(t)' BY <1>1, <1>2, <1>3, <1>4, <1>6 DEF CallKnows, SaveKnows
<1>8. ReplaceKnows(t)' BY <1>1, <1>2, <1>3, <1>4, <1>5, <1>6 DEF CallKnows, ReplaceKnows
<1>9. StartKnows(t)' BY <1>1, <1>2, <1>3, <1>6 DEF CallKnows, StartKnows
<1>10. StopKnows(t)' BY <1>4, <1>1, <1>2, <1>3, <1>5, <1>6, DownStays DEF CallKnows, StopKnows
<1>11. RemoveKnows(t)' BY <1>1, <1>3, <1>6 DEF CallKnows, RemoveKnows
<1> QED BY <1>7, <1>8, <1>9, <1>10, <1>11 DEF CallKnows

\* The start of the daemon goes on, and leaves records and manifests alone.
LEMMA BootStep ==
  ASSUME PInv, DInv', NEW u, task' = [task EXCEPT ![Boot] = u], CallShape(u), CallKnows(u)',
         At(Boot, "persist") \/ At(Boot, "desire") =>
           u.todo = task[Boot].todo /\ u.name = task[Boot].name /\ u.desired = task[Boot].desired,
         UNCHANGED <<store, dirs, manifests, stopped>>, errored \subseteq errored',
         \A n \in Name : Child(n)' => Child(n), \A i \in Id : Runs(i)' => Runs(i)
  PROVE  PInv'
<1>1. Data /\ task \in [Caller -> Task] /\ Boot \in Caller /\ \A q \in Caller : TaskInv(task[q])
  BY DEF PInv, DInv, TInv, Variables, Caller
<1>2. task'[Boot] = u /\ \A q \in Caller \ {Boot} : task'[q] = task[q] BY <1>1
<1>3. \A q \in Caller : (At(q, "persist") => At(q, "persist")' /\ task'[q].name = task[q].name)
                        /\ (At(q, "desire") => At(q, "desire")' /\ task'[q].name = task[q].name
                                               /\ task'[q].desired = task[q].desired)
  BY <1>2 DEF At
<1>4. \A n \in Name : Awaited(n) => Awaited(n)' BY <1>3 DEF Awaited
<1>5. Agreed' BY <1>3 DEF PInv, Wanted, Agreed
<1>6. ChildWanted'
  <2> SUFFICES ASSUME NEW n \in Name, Child(n)'
               PROVE  store'[n] # NoService /\ Wasm(store'[n].man) /\ (store'[n].desired = "running" \/ Awaited(n)')
    BY DEF ChildWanted
  <2> QED BY <1>4 DEF PInv, Wanted, ChildWanted
<1>7. ContainerWanted'
  <2> SUFFICES ASSUME NEW i \in Id, Runs(i)', i \notin errored'
               PROVE  \E n \in Name : /\ store'[n] # NoService /\ store'[n].id = i /\ Docker(store'[n].man)
                                      /\ Settled(n)' \/ Awaited(n)'
    BY DEF ContainerWanted
  <2>1. PICK n \in Name : /\ store[n] # NoService /\ store[n].id = i /\ Docker(store[n].man)
                          /\ Settled(n) \/ Awaited(n)
    BY DEF PInv, Wanted, ContainerWanted
  <2>2. Settled(n) => Settled(n)' BY DEF Settled
  <2> QED BY <1>4, <2>1, <2>2
<1>8. StoppedDown'
  <2> SUFFICES ASSUME NEW n \in stopped PROVE IsDown(n)' BY DEF StoppedDown
  <2>1. n \in Name /\ IsDown(n) BY <1>1 DEF Data, PInv, Wanted, StoppedDown
  <2> QED BY <1>1, <2>1, DownStays
<1>9. Wanted' BY <1>5, <1>6, <1>7, <1>8 DEF Wanted
<1>10. ASSUME NEW q \in Caller PROVE CallShape(task'[q]) /\ CallKnows(task[q])'
  <2>1. CASE q = Boot BY <1>2, <2>1
  <2>2. CASE q # Boot
    <3>1. PICK r : r = task[q] OBVIOUS
    <3>2. task'[q] = r BY <1>2, <2>2, <3>1
    <3>3. TaskInv(r) /\ CallShape(r) /\ CallKnows(r) BY <1>1, <3>1 DEF PInv
    <3>4. CallKnows(r)' BY <1>1, <3>3, KnowsLess
    <3> QED BY <3>2, <3>3, <3>4
  <2> QED BY <2>1, <2>2
<1> QED BY <1>9, <1>10 DEF PInv

\* Nobody does anything, or less runs.
LEMMA ExitKnows ==
  ASSUME PInv, DInv',
         \/ UNCHANGED vars
         \/ \E n \in Name : ChildExits(n)
         \/ \E i \in Id : ContainerExits(i) \/ ContainerVanishes(i)
  PROVE  PInv'
<1>1. Data /\ task \in [Caller -> Task] /\ Boot \in Caller /\ \A q \in Caller : TaskInv(task[q])
  BY DEF PInv, DInv, TInv, Variables, Caller
<1>2. UNCHANGED <<store, dirs, manifests, stopped, task, errored>>
  BY DEF ChildExits, ContainerExits, ContainerVanishes, vars
<1>3. \A n \in Name : Child(n)' => Child(n)
  <2>1. CASE prov' = prov BY <2>1 DEF Child
  <2>2. ASSUME NEW n \in Name, ChildExits(n) PROVE \A m \in Name : Child(m)' => Child(m)
    BY <2>2, <1>1, TakenDown DEF ChildExits
  <2> QED BY <2>1, <2>2 DEF ContainerExits, ContainerVanishes, vars
<1>4. \A i \in Id : Runs(i)' => Runs(i)
  <2>1. CASE containers' = containers BY <2>1 DEF Runs
  <2>2. ASSUME NEW i \in Id, ContainerExits(i) \/ ContainerVanishes(i) PROVE \A j \in Id : Runs(j)' => Runs(j)
    BY <1>1, <2>2 DEF Data, ContainerExits, ContainerVanishes, Runs
  <2> QED BY <2>1, <2>2 DEF ChildExits, vars
<1>5. PICK u : u = task[Boot] /\ task[Boot] = u OBVIOUS
<1>6. task' = [task EXCEPT ![Boot] = u] BY <1>1, <1>2, <1>5
<1>7. TaskInv(u) /\ CallShape(u) /\ CallKnows(u) BY <1>1, <1>5 DEF PInv
<1>8. CallKnows(u)' BY <1>1, <1>2, <1>3, <1>4, <1>7, KnowsLess
<1> QED BY <1>2, <1>3, <1>4, <1>5, <1>6, <1>7, <1>8, BootStep

\* The start goes on to look for endpoints.
LEMMA LookKnows ==
  ASSUME PInv, DInv', NEW t \in Task, t = task[Boot],
         NEW w, w = t.todo \/ (t.todo # <<>> /\ Head(t.todo) \notin {"persist", "desire"} /\ w = Tail(t.todo)),
         NEW f, NEW u, u = [t EXCEPT !.todo = w, !.found = f],
         task' = [task EXCEPT ![Boot] = u],
         UNCHANGED <<store, dirs, manifests, containers, stopped>>, errored \subseteq errored',
         \A n \in Name : Child(n)' => Child(n)
  PROVE  PInv'
<1>1. u.op = t.op /\ u.name = t.name /\ u.man = t.man /\ u.desired = t.desired /\ u.todo = w BY DEF Task
<1>2. t.op \in {"idle", "boot"} /\ CallShape(t) /\ CallKnows(t) /\ t.todo \in Seq(StepName \ Installing)
  BY DEF PInv, DInv, TInv, BootInv, BootFits, Caller
<1>3. t.todo \in Seq(StepName) BY DEF Task
<1>4. /\ \A S : Has(w, S) => Has(t.todo, S)
      /\ \A a, b : Followed(t.todo, a, b) => Followed(w, a, b)
  <2>1. CASE w = t.todo BY <2>1
  <2>2. CASE t.todo # <<>> /\ w = Tail(t.todo) BY <1>3, <2>2, PlanTail
  <2> QED BY <2>1, <2>2
<1>5. ~ Has(t.todo, Installing) /\ ~ Has(w, Installing) BY <1>2, <1>4, NothingInstalled
<1>6. ~ Has(w, {"persist"}) /\ ~ Has(w, {"persist", "resolve", "docker_create"})
      /\ ~ Has(w, {"forget", "unpublish"}) /\ ~ Has(w, {"forget"}) /\ ~ Has(w, Removes)
  BY <1>2, <1>4 DEF CallShape, Has, Removes
<1>7. t.op = "boot" => \A i \in 2..Len(w) : w[i] # "publish"
  <2> SUFFICES ASSUME t.op = "boot", NEW i \in 2..Len(w) PROVE w[i] # "publish" OBVIOUS
  <2>1. \A j \in 2..Len(t.todo) : t.todo[j] # "publish" BY <1>2 DEF CallShape
  <2>2. CASE w = t.todo BY <2>1, <2>2
  <2>3. CASE t.todo # <<>> /\ w = Tail(t.todo) BY <1>3, <2>3, <2>1, TailFacts
  <2> QED BY <2>2, <2>3
<1>8. CallShape(u)
  <2>1. Followed(w, "spawn", "desire") /\ Followed(w, "docker_start", "desire") BY <1>2, <1>4 DEF CallShape
  <2>2. Has(w, Starts) => t.desired = "running" BY <1>2, <1>4 DEF CallShape
  <2>3. Has(w, {"desire"}) => t.desired = "running" BY <1>2, <1>4 DEF CallShape
  <2>4. Has(w, {"publish"}) => t.op = "boot" BY <1>2, <1>4 DEF CallShape
  <2> QED BY <1>1, <1>2, <1>6, <1>7, <2>1, <2>2, <2>3, <2>4 DEF CallShape
<1>9. CallKnows(u)'
  BY <1>1, <1>2, <1>4, <1>5, <1>6 DEF CallKnows, StartKnows, SaveKnows, ReplaceKnows, StopKnows, RemoveKnows
<1>10. At(Boot, "persist") \/ At(Boot, "desire") =>
         u.todo = task[Boot].todo /\ u.name = task[Boot].name /\ u.desired = task[Boot].desired
  BY <1>1 DEF At
<1>11. \A i \in Id : Runs(i)' => Runs(i) BY DEF Runs
<1> QED BY <1>8, <1>9, <1>10, <1>11, BootStep

\* The start has restored all services.
LEMMA BootRestoredKnows ==
  ASSUME PInv, DInv', BootRestored
  PROVE  PInv'
<1>1. PICK u : u = [Idle EXCEPT !.todo = <<"list_running", "list_desired">>] OBVIOUS
<1>2. task' = [task EXCEPT ![Boot] = u] /\ At(Boot, "next")
      /\ UNCHANGED <<store, dirs, manifests, prov, containers, stopped, errored>>
  BY <1>1 DEF BootRestored
<1>3. Resting(u) /\ u.op # "stop" BY <1>1 DEF Resting, Idle, Looks
<1>4. CallShape(u) /\ \A S : S \cap Looks = {} => ~ Has(u.todo, S) BY <1>3, RestingFacts
<1>5. CallKnows(u)' BY <1>3, <1>4, RestingKnows
<1>6. ~ At(Boot, "persist") /\ ~ At(Boot, "desire") BY <1>2 DEF At
<1>7. /\ \A n \in Name : Child(n)' => Child(n)
      /\ \A i \in Id : Runs(i)' => Runs(i)
  BY <1>2 DEF Child, Runs
<1> QED BY <1>2, <1>4, <1>5, <1>6, <1>7, BootStep

\* The start looks at services, and listens on an endpoint.
LEMMA BootLooksKnows ==
  ASSUME PInv, DInv', BootListRunning \/ BootListDesired \/ BootListen
  PROVE  PInv'
<1>1. PICK t \in Task : t = task[Boot] BY DEF PInv, DInv, TInv, Caller
<1>2. UNCHANGED <<store, dirs, manifests, containers, stopped>> BY DEF BootListRunning, BootListDesired, BootListen
<1>3. errored \subseteq errored' BY DEF BootListRunning, BootListDesired, BootListen
<1>4. \A n \in Name : Child(n)' => Child(n)
  <2>1. CASE prov' = prov BY <2>1 DEF Child
  <2>2. CASE BootListRunning
    <3>1. PICK R : prov' = [n \in Name |-> IF n \in R THEN [man |-> manifests[n], child |-> FALSE] ELSE prov[n]]
      BY <2>2 DEF BootListRunning
    <3>2. \A n \in Name : n \in R => ~ prov'[n].child BY <3>1
    <3>3. \A n \in Name : n \notin R => prov'[n] = prov[n] BY <3>1
    <3> QED BY <3>2, <3>3 DEF Child
  <2> QED BY <2>1, <2>2 DEF BootListDesired, BootListen
<1>5. PICK w, f, u : /\ w = t.todo \/ (t.todo # <<>> /\ Head(t.todo) \notin {"persist", "desire"} /\ w = Tail(t.todo))
                     /\ u = [t EXCEPT !.todo = w, !.found = f]
                     /\ task' = [task EXCEPT ![Boot] = u]
  <2>1. CASE BootListRunning \/ BootListDesired
    <3>1. t.todo # <<>> /\ Head(t.todo) \in {"list_running", "list_desired"}
      BY <1>1, <2>1 DEF BootListRunning, BootListDesired, At
    <3>2. PICK f : Find(f) BY <2>1 DEF BootListRunning, BootListDesired
    <3>3. task' = [task EXCEPT ![Boot] = [t EXCEPT !.todo = Tail(@), !.found = f]] BY <1>1, <3>2 DEF Find
    <3>4. [t EXCEPT !.todo = Tail(@), !.found = f] = [t EXCEPT !.todo = Tail(t.todo), !.found = f] BY DEF Task
    <3> QED BY <3>1, <3>3, <3>4
  <2>2. CASE BootListen
    <3>1. PICK e : task' = [task EXCEPT ![Boot].found = @ \ {e}] BY <2>2 DEF BootListen
    <3>2. PICK f : f = t.found \ {e} OBVIOUS
    <3>3. PICK u : u = [t EXCEPT !.todo = t.todo, !.found = f] OBVIOUS
    <3>4. u = [t EXCEPT !.found = f] BY <3>3 DEF Task
    <3>5. task' = [task EXCEPT ![Boot] = u] BY <1>1, <3>1, <3>2, <3>4
    <3> QED BY <3>3, <3>5
  <2> QED BY <2>1, <2>2
<1> QED BY <1>1, <1>2, <1>3, <1>4, <1>5, LookKnows

\* The start publishes a service before it restores or starts it, and puts what it starts on
\* record.
LEMMA BootPlanFacts ==
  ASSUME NEW m, NEW d, NEW s, s = BootPlan(m, d)
  PROVE  /\ s \in Seq(StepName) /\ PutOnRecord(s)
         /\ Has(s, {"spawn"}) => Wasm(m)
         /\ Has(s, {"docker_start"}) => Docker(m)
         /\ Has(s, Starts) \/ Has(s, {"desire"}) => d = "running"
         /\ ~ Has(s, {"persist", "resolve", "docker_create", "forget", "unpublish"})
         /\ \A i \in 2..Len(s) : s[i] # "publish"
<1>1. PICK S : S = {"try_restore", "ensure", "spawn", "desire", "docker_start"} OBVIOUS
<1>2. PICK U : U = {"try_restore"} OBVIOUS
<1>3. PICK P : P = {"publish"} OBVIOUS
<1>4. PICK a : a = <<"publish">> OBVIOUS
<1>5. PICK b : b = IF Wasm(m) THEN <<"try_restore">> ELSE <<>> OBVIOUS
<1>6. PICK c : c = IF d = "running" THEN StartPlan(m) ELSE <<>> OBVIOUS
<1>7. PICK x : x = a \o b OBVIOUS
<1>8. s = x \o c BY <1>4, <1>5, <1>6, <1>7 DEF BootPlan
<1>9. U \subseteq S /\ S \subseteq StepName /\ P \subseteq StepName BY <1>1, <1>2, <1>3 DEF StepName
<1>10. a \in Seq(P) /\ b \in Seq(U) /\ c \in Seq(S)
  <2>1. "publish" \in P /\ "try_restore" \in U BY <1>2, <1>3
  <2>2. a \in Seq(P) /\ b \in Seq(U) BY <1>4, <1>5, <2>1
  <2>3. {"ensure", "spawn", "desire", "docker_start"} \subseteq S BY <1>1
  <2>4. StartPlan(m) \in Seq(S) BY <2>3, StartPlanType
  <2>5. <<>> \in Seq(S) OBVIOUS
  <2> QED BY <1>6, <2>2, <2>4, <2>5
<1>11. a \in Seq(StepName) /\ b \in Seq(StepName) /\ c \in Seq(StepName) /\ b \in Seq(S) BY <1>9, <1>10, WiderPlan
<1>12. x \in Seq(StepName) /\ s \in Seq(StepName) BY <1>7, <1>8, <1>11, ConcatType
<1>13. \A T : Has(s, T) <=> Has(a, T) \/ Has(b, T) \/ Has(c, T) BY <1>7, <1>11, <1>8, <1>12, PlanConcat
<1>14. \A T : P \cap T = {} => ~ Has(a, T) BY <1>10, PlanOf
<1>15. \A T : U \cap T = {} => ~ Has(b, T) BY <1>10, PlanOf
<1>16. \A T : S \cap T = {} => ~ Has(c, T) BY <1>10, PlanOf
<1>17. ~ Has(s, {"persist", "resolve", "docker_create", "forget", "unpublish"})
  <2>1. PICK T : T = {"persist", "resolve", "docker_create", "forget", "unpublish"} OBVIOUS
  <2>2. P \cap T = {} /\ U \cap T = {} /\ S \cap T = {} BY <1>1, <1>2, <1>3, <2>1
  <2>3. ~ Has(s, T) BY <1>13, <1>14, <1>15, <1>16, <2>2
  <2> QED BY <2>1, <2>3
<1>18. ~ Has(a, {"spawn"}) /\ ~ Has(b, {"spawn"}) /\ ~ Has(a, {"docker_start"}) /\ ~ Has(b, {"docker_start"})
       /\ ~ Has(a, Starts) /\ ~ Has(b, Starts) /\ ~ Has(a, {"desire"}) /\ ~ Has(b, {"desire"})
  BY <1>2, <1>3, <1>14, <1>15 DEF Starts
<1>19. /\ PutOnRecord(c)
       /\ Has(c, {"spawn"}) => Wasm(m)
       /\ Has(c, {"docker_start"}) => Docker(m)
       /\ \A T : Has(c, T) => d = "running"
  <2>1. CASE d = "running" BY <1>6, <2>1, StartPlanFacts DEF PutOnRecord
  <2>2. CASE d # "running" BY <1>6, <2>2 DEF Followed, Has, PutOnRecord
  <2> QED BY <2>1, <2>2
<1>20. PutOnRecord(s)
  <2>1. "spawn" \notin P /\ "docker_start" \notin P /\ "spawn" \notin U /\ "docker_start" \notin U BY <1>2, <1>3
  <2>2. PutOnRecord(a) /\ PutOnRecord(b) BY <1>10, <2>1, PlanOf DEF PutOnRecord
  <2>3. \A y, z : Followed(a, y, z) /\ Followed(b, y, z) => Followed(x, y, z) BY <1>7, <1>11, PlanConcat
  <2>4. \A y, z : Followed(x, y, z) /\ Followed(c, y, z) => Followed(s, y, z) BY <1>8, <1>11, <1>12, PlanConcat
  <2> QED BY <1>19, <2>2, <2>3, <2>4 DEF PutOnRecord
<1>21. ASSUME NEW i \in 2..Len(s) PROVE s[i] # "publish"
  <2>1. PICK k \in Nat, l \in Nat : k = Len(x) /\ l = Len(b) BY <1>11, <1>12
  <2>2. k = 1 + l /\ \A j \in 2..k : j - 1 \in 1..l /\ x[j] = b[j - 1]
    <3>1. Len(a) = 1 BY <1>4
    <3>2. /\ Len(a \o b) = Len(a) + Len(b)
          /\ \A j \in 1..(Len(a) + Len(b)) : (a \o b)[j] = IF j <= Len(a) THEN a[j] ELSE b[j - Len(a)]
      BY <1>11, ConcatFacts
    <3>3. k = 1 + l BY <1>7, <2>1, <3>1, <3>2
    <3>4. ASSUME NEW j \in 2..k PROVE j - 1 \in 1..l /\ x[j] = b[j - 1] BY <2>1, <3>1, <3>3, <1>7, <3>2
    <3> QED BY <3>3, <3>4
  <2>3. \A j \in 1..l : b[j] \in S BY <1>11, <2>1
  <2>4. \A j \in 1..Len(c) : c[j] \in S BY <1>10
  <2>5. /\ Len(c) \in Nat /\ Len(s) = k + Len(c)
        /\ s[i] = IF i <= k THEN x[i] ELSE c[i - k]
    BY <1>8, <1>11, <1>12, <2>1, ConcatFacts
  <2>6. s[i] \in S
    <3>1. CASE i <= k
      <4>1. i \in 2..k /\ s[i] = x[i] BY <2>5, <3>1
      <4>2. PICK j \in 1..l : s[i] = b[j] BY <2>2, <4>1
      <4> QED BY <2>3, <4>2
    <3>2. CASE ~ (i <= k)
      <4>1. i - k \in 1..Len(c) /\ s[i] = c[i - k] BY <2>5, <3>2
      <4>2. PICK j \in 1..Len(c) : s[i] = c[j] BY <4>1
      <4> QED BY <2>4, <4>2
    <3> QED BY <3>1, <3>2
  <2> QED BY <1>1, <2>6
<1>22. Has(s, Starts) \/ Has(s, {"desire"}) => d = "running" BY <1>13, <1>18, <1>19
<1>23. (Has(s, {"spawn"}) => Wasm(m)) /\ (Has(s, {"docker_start"}) => Docker(m)) BY <1>13, <1>18, <1>19
<1> QED BY <1>12, <1>17, <1>20, <1>21, <1>22, <1>23

\* The start turns to the next service on record.
LEMMA BootNextKnows ==
  ASSUME PInv, DInv', NEW n \in Name, BootNext(n)
  PROVE  PInv'
<1>1. PICK t \in Task : t = task[Boot] BY DEF PInv, DInv, TInv, Caller
<1>2. PICK m : m = store[n].man /\ store[n].man = m OBVIOUS
<1>3. PICK d : d = store[n].desired /\ store[n].desired = d OBVIOUS
<1>4. PICK s : s = BootPlan(m, d) OBVIOUS
<1>5. PICK u : u = [t EXCEPT !.rest = @ \ {n}, !.name = n, !.man = m, !.desired = d, !.todo = s] OBVIOUS
<1>6. /\ task' = [task EXCEPT ![Boot] = u] /\ At(Boot, "next") /\ n \in t.rest
      /\ UNCHANGED <<store, dirs, manifests, prov, containers, stopped, errored>>
  BY <1>1, <1>2, <1>3, <1>4, <1>5 DEF BootNext, BootPlan
<1>7. u.op = t.op /\ u.name = n /\ u.man = m /\ u.desired = d /\ u.todo = s BY <1>5 DEF Task
<1>8. t.op = "boot" /\ store[n] # NoService BY <1>1, <1>6 DEF PInv, DInv, TInv, BootInv
<1>9. /\ s \in Seq(StepName) /\ PutOnRecord(s)
      /\ Has(s, {"spawn"}) => Wasm(m)
      /\ Has(s, {"docker_start"}) => Docker(m)
      /\ Has(s, Starts) \/ Has(s, {"desire"}) => d = "running"
      /\ ~ Has(s, {"persist", "resolve", "docker_create", "forget", "unpublish"})
      /\ \A i \in 2..Len(s) : s[i] # "publish"
  BY <1>4, BootPlanFacts
<1>10. /\ ~ Has(s, {"persist", "resolve", "docker_create"}) /\ ~ Has(s, {"persist"})
       /\ ~ Has(s, {"forget", "unpublish"}) /\ ~ Has(s, {"forget"}) /\ ~ Has(s, Removes)
  <2>1. PICK T : T = {"persist", "resolve", "docker_create", "forget", "unpublish"} OBVIOUS
  <2>2. /\ {"persist", "resolve", "docker_create"} \subseteq T /\ {"persist"} \subseteq T
        /\ {"forget", "unpublish"} \subseteq T /\ {"forget"} \subseteq T /\ Removes \subseteq T
    BY <2>1 DEF Removes
  <2>3. ~ Has(s, T) BY <1>9, <2>1
  <2>4. \A S : S \subseteq T => ~ Has(s, S) BY <2>3, HasAny
  <2> QED BY <2>2, <2>4
<1>11. CallShape(u) BY <1>7, <1>8, <1>9, <1>10 DEF CallShape, PutOnRecord
<1>12. d = "running" => n \notin stopped BY <1>3 DEF PInv, Wanted, StoppedDown, IsDown
<1>13. StartKnows(u)' BY <1>2, <1>6, <1>7, <1>8, <1>9, <1>12 DEF StartKnows
<1>14. CallKnows(u)' BY <1>7, <1>8, <1>10, <1>13 DEF CallKnows, SaveKnows, ReplaceKnows, StopKnows, RemoveKnows
<1>15. ~ At(Boot, "persist") /\ ~ At(Boot, "desire") BY <1>6 DEF At
<1>16. /\ \A k \in Name : Child(k)' => Child(k)
       /\ \A i \in Id : Runs(i)' => Runs(i)
  BY <1>6 DEF Child, Runs
<1> QED BY <1>6, <1>11, <1>14, <1>15, <1>16, BootStep

\* A save that a crash has cut short after the manifest.
LEMMA YamlFacts ==
  ASSUME Data, NEW n \in Name, NEW s \in Service, NEW i \in Id
  PROVE  /\ i # s.id => YamlWritten(n, s)[i] = dirs[i]
         /\ i = s.id => HalfWritten(YamlWritten(n, s), i, n, s.man)
<1>1. dirs \in [Id -> Dir \cup {NoDir}] BY DEF Data
<1>2. PICK d \in DesiredState : d = IF dirs[s.id] = NoDir THEN "stopped" ELSE dirs[s.id].desired
  BY <1>1 DEF Dir, Service, DesiredState
<1>3. PICK r : r = [name |-> n, man |-> s.man, desired |-> d] OBVIOUS
<1>4. r \in Dir /\ r.name = n /\ r.man = s.man /\ r.desired = d BY <1>2, <1>3 DEF Dir, Service
<1>5. r # NoDir BY <1>4, RuntimeAssumption
<1>6. YamlWritten(n, s) = [dirs EXCEPT ![s.id] = r] BY <1>2, <1>3 DEF YamlWritten
<1>7. i # s.id => YamlWritten(n, s)[i] = dirs[i] BY <1>1, <1>6
<1>8. i = s.id => YamlWritten(n, s)[i] = r BY <1>1, <1>6
<1>9. i = s.id /\ dirs[i] # NoDir => d = dirs[i].desired BY <1>2
<1> QED BY <1>4, <1>5, <1>7, <1>8, <1>9 DEF HalfWritten

\* A directory without its state.
LEMMA StatelessDir ==
  ASSUME Data, NEW j \in Id, NEW D \in Stateless(j), NEW i \in Id
  PROVE  /\ i # j => D[i] = dirs[i]
         /\ i = j => dirs[i] # NoDir /\ D[i] # NoDir /\ D[i].name = dirs[i].name /\ D[i].man = dirs[i].man
                     /\ D[i].desired = "stopped"
<1>1. dirs \in [Id -> Dir \cup {NoDir}] BY DEF Data
<1>2. dirs[j] # NoDir /\ D = [dirs EXCEPT ![j].desired = "stopped"] BY DEF Stateless
<1>3. PICK e \in Dir : e = dirs[j] BY <1>1, <1>2
<1>4. PICK r : r = [e EXCEPT !.desired = "stopped"] OBVIOUS
<1>5. r \in Dir /\ r.name = e.name /\ r.man = e.man /\ r.desired = "stopped" BY <1>4 DEF Dir, DesiredState
<1>6. r # NoDir BY <1>5, RuntimeAssumption
<1>7. D = [dirs EXCEPT ![j] = r] BY <1>2, <1>3, <1>4
<1>8. i # j => D[i] = dirs[i] BY <1>1, <1>7
<1>9. i = j => D[i] = r BY <1>1, <1>7
<1> QED BY <1>2, <1>3, <1>5, <1>6, <1>8, <1>9

\* What a crash has changed in a directory belongs to a call that was cut short.
LEMMA CrashedDir ==
  ASSUME DInv, NEW D \in CrashDirs, NEW i \in Id
  PROVE  D[i] = dirs[i] \/ CutShort(D, i)
<1>1. Data BY DEF DInv, TInv, Variables
<1>2. ASSUME NEW p \in Caller, At(p, "persist"),
             store[task[p].name] = NoService \/ store[task[p].name].id = task[p].id,
             D = YamlWritten(task[p].name, Persisted(task[p]))
      PROVE  D[i] = dirs[i] \/ CutShort(D, i)
  <2>1. PICK n \in Name : n = task[p].name BY <1>2, PersistSavable
  <2>2. PICK s \in Service : s = Persisted(task[p]) BY <1>2, PersistSavable
  <2>3. s.id = task[p].id /\ s.man = task[p].man BY <2>2 DEF Persisted
  <2>4. D = YamlWritten(n, s) BY <1>2, <2>1, <2>2
  <2>5. i = s.id => HalfWritten(D, i, n, s.man) BY <1>1, <2>4, YamlFacts
  <2>6. i # s.id => D[i] = dirs[i] BY <1>1, <2>4, YamlFacts
  <2> QED BY <1>2, <2>1, <2>3, <2>5, <2>6 DEF CutShort
<1>3. ASSUME NEW p \in Caller, At(p, "desire"), store[task[p].name] # NoService,
             D = YamlWritten(task[p].name, store[task[p].name])
      PROVE  D[i] = dirs[i] \/ CutShort(D, i)
  <2>1. PICK n \in Name : n = task[p].name BY <1>3, DesireSavable
  <2>2. PICK s \in Service : s = store[n] BY <1>3, <2>1, DesireSavable
  <2>3. D = YamlWritten(n, s) BY <1>3, <2>1, <2>2
  <2>4. i = s.id => HalfWritten(D, i, n, s.man) BY <1>1, <2>3, YamlFacts
  <2>5. i # s.id => D[i] = dirs[i] BY <1>1, <2>3, YamlFacts
  <2> QED BY <1>3, <2>1, <2>2, <2>4, <2>5 DEF CutShort
<1>4. ASSUME NEW p \in Caller, At(p, "forget"), store[task[p].name] # NoService,
             D \in Stateless(store[task[p].name].id)
      PROVE  D[i] = dirs[i] \/ CutShort(D, i)
  <2>1. PICK n \in Name : n = task[p].name BY <1>4, AtFacts DEF DInv, Loose
  <2>2. PICK j \in Id : j = store[n].id BY <1>1, <1>4, <2>1 DEF Data, Service
  <2>3. D \in Stateless(j) BY <1>4, <2>1, <2>2
  <2>4. i = j => dirs[i] # NoDir /\ D[i] # NoDir /\ D[i].name = dirs[i].name /\ D[i].man = dirs[i].man
                 /\ D[i].desired = "stopped"
    BY <1>1, <2>3, StatelessDir
  <2>5. i # j => D[i] = dirs[i] BY <1>1, <2>3, StatelessDir
  <2> QED BY <1>4, <2>1, <2>2, <2>4, <2>5 DEF CutShort
<1> QED BY <1>2, <1>3, <1>4 DEF CrashDirs

\* The start reads of a service what its directory says.
LEMMA LoadedDir ==
  ASSUME NEW D \in [Id -> Dir \cup {NoDir}], Loadable(D), NEW i \in Id, D[i] # NoDir, NEW n \in Name, D[i].name = n
  PROVE  /\ Loaded(D)[n] # NoService /\ Loaded(D)[n].id = i /\ Loaded(D)[n].man = D[i].man
         /\ Loaded(D)[n].desired = D[i].desired
<1>1. PICK j \in Id : j = (CHOOSE k \in Id : D[k] # NoDir /\ D[k].name = n) /\ D[j] # NoDir /\ D[j].name = n OBVIOUS
<1>2. j = i BY <1>1 DEF Loadable
<1>3. PICK s : s = [id |-> i, man |-> D[i].man, desired |-> D[i].desired] OBVIOUS
<1>4. s \in Service /\ s.id = i /\ s.man = D[i].man /\ s.desired = D[i].desired BY <1>3 DEF Service, Dir
<1>5. Loaded(D)[n] = s BY <1>1, <1>2, <1>3 DEF Loaded
<1> QED BY <1>4, <1>5, RuntimeAssumption

\* The tasks at the start of the daemon are about no service.
LEMMA FreshTasks ==
  ASSUME NEW u, u.op = "boot", u.todo = <<"next">>, NEW p \in Caller, NEW q, q = IF p # Boot THEN Idle ELSE u
  PROVE  CallShape(q) /\ CallKnows(q) /\ CallKnows(q)'
<1>1. PICK w : w = <<"next">> OBVIOUS
<1>2. w \in Seq(Looks) BY <1>1 DEF Looks
<1>3. Resting(u) /\ Resting(Idle) BY <1>1, <1>2, IdleFacts DEF Resting
<1>4. Resting(q) /\ q.op # "stop" BY <1>3 DEF Resting
<1>5. CallShape(q) /\ \A S : S \cap Looks = {} => ~ Has(q.todo, S) BY <1>4, RestingFacts
<1> QED BY <1>4, <1>5, RestingKnows

\* A service that is stopped on disk is so after a crash, wherever the crash has cut a call short.
LEMMA CrashDown ==
  ASSUME OneCaller, PInv, NEW D \in CrashDirs, NEW n \in Name, IsDown(n), NEW i \in Id, i = store[n].id
  PROVE  /\ D[i] # NoDir /\ D[i].name = n /\ D[i].desired = "stopped"
         /\ Docker(D[i].man) => ~ Runs(i)
<1>1. /\ store[n] # NoService /\ store[n].id = i
      /\ dirs[i] # NoDir /\ dirs[i].name = n /\ dirs[i].desired = "stopped"
      /\ Docker(store[n].man) \/ Docker(dirs[i].man) => ~ Runs(i)
  BY DEF IsDown
<1>2. DInv /\ RecordsFit /\ Data BY DEF PInv, DInv, TInv, Variables
<1>3. CASE D[i] = dirs[i] BY <1>1, <1>3
<1>4. ASSUME NEW p \in Caller, NEW m \in Name, task[p].name = m, At(p, "persist"), task[p].id = i,
             store[m] = NoService \/ store[m].id = i, HalfWritten(D, i, m, task[p].man)
      PROVE  /\ D[i] # NoDir /\ D[i].name = n /\ D[i].desired = "stopped"
             /\ Docker(D[i].man) => ~ Runs(i)
  <2>1. PICK t \in Task : t = task[p] /\ t.todo # <<>> /\ Head(t.todo) = "persist" BY <1>2, <1>4, AtFacts DEF DInv
  <2>2. Docker(t.man) => ~ Runs(i) BY <1>4, <2>1, PersistFacts
  <2>3. m = n BY <1>2, <1>4, <2>1, <1>1, PersistSavable DEF Savable, Persisted, Unused, RecordsFit
  <2> QED BY <1>1, <1>4, <2>1, <2>2, <2>3 DEF HalfWritten
<1>5. ASSUME NEW m \in Name, store[m] # NoService, store[m].id = i,
             \/ HalfWritten(D, i, m, store[m].man)
             \/ /\ dirs[i] # NoDir /\ D[i] # NoDir /\ D[i].name = dirs[i].name /\ D[i].man = dirs[i].man
                /\ D[i].desired = "stopped"
      PROVE  /\ D[i] # NoDir /\ D[i].name = n /\ D[i].desired = "stopped"
             /\ Docker(D[i].man) => ~ Runs(i)
  BY <1>1, <1>2, <1>5 DEF RecordsFit, HalfWritten
<1>6. D[i] = dirs[i] \/ CutShort(D, i) BY <1>2, CrashedDir
<1> QED BY <1>3, <1>4, <1>5, <1>6 DEF CutShort

\* A crash leaves a container in doubt if it leaves its directory other than it was.
LEMMA CrashDoubts ==
  ASSUME PInv, NEW D \in CrashDirs, NEW i \in Id, Runs(i), D[i] # dirs[i]
  PROVE  \E p \in Caller : i \in ContainersOf(task[p])
<1>1. Data /\ DInv BY DEF PInv, DInv, TInv, Variables
<1>2. ~ Missing(i) BY RuntimeAssumption DEF Missing, Runs
<1>3. CutShort(D, i) BY <1>1, CrashedDir
<1>4. PICK p \in Caller : task[p].id = i \/ (task[p].name \in Name /\ store[task[p].name] # NoService
                                             /\ store[task[p].name].id = i)
  BY <1>3 DEF CutShort
<1> QED BY <1>1, <1>2, <1>4, InDoubt

\* Whatever a crash has cut short, the start after it finds a service that was stopped stopped, and
\* a container that runs is that of a service that is to run, or is in doubt.
LEMMA RestartKnows ==
  ASSUME OneCaller, PInv, DInv', Restart
  PROVE  PInv'
<1>1. PICK D \in CrashDirs :
        /\ Loadable(D) /\ dirs' = D /\ store' = Loaded(D)
        /\ task' = [p \in Caller |-> IF p # Boot THEN Idle ELSE
             [BootTask EXCEPT !.rest = {n \in Name : Loaded(D)[n] # NoService}]]
  BY DEF Restart
<1>2. Data /\ D \in [Id -> Dir \cup {NoDir}] BY CrashType DEF PInv, DInv, TInv, Variables
<1>3. PICK R : R = {n \in Name : Loaded(D)[n] # NoService} OBVIOUS
<1>4. PICK u : u = [BootTask EXCEPT !.rest = R] OBVIOUS
<1>12. u.op = "boot" /\ u.todo = <<"next">> BY <1>4 DEF BootTask, Idle
<1>5. \A p \in Caller : task'[p] = IF p # Boot THEN Idle ELSE u BY <1>1, <1>3, <1>4
<1>6. ASSUME NEW p \in Caller PROVE CallShape(task'[p]) /\ CallKnows(task[p])'
  <2>1. PICK q : q = IF p # Boot THEN Idle ELSE u OBVIOUS
  <2>2. CallShape(q) /\ CallKnows(q)' BY <1>12, <2>1, FreshTasks
  <2>3. task'[p] = q BY <1>5, <2>1
  <2> QED BY <2>2, <2>3
<1>7. Agreed' BY DEF Restart, Agreed
<1>8. ChildWanted' BY DEF Restart, ChildWanted, Child
<1>9. ContainerWanted'
  <2> SUFFICES ASSUME NEW i \in Id, Runs(i)', i \notin errored'
               PROVE  \E n \in Name : /\ store'[n] # NoService /\ store'[n].id = i /\ Docker(store'[n].man)
                                      /\ Settled(n)' \/ Awaited(n)'
    BY DEF ContainerWanted
  <2>1. Runs(i) /\ i \notin errored /\ \A p \in Caller : i \notin ContainersOf(task[p]) BY DEF Restart, Runs
  <2>2. PICK n \in Name : /\ store[n] # NoService /\ store[n].id = i /\ Docker(store[n].man)
                          /\ Settled(n) \/ Awaited(n)
    BY <2>1 DEF PInv, Wanted, ContainerWanted
  <2>3. ~ Awaited(n)
    <3> SUFFICES ASSUME NEW p \in Caller, task[p].name = n PROVE FALSE BY DEF Awaited
    <3>1. ~ Missing(i) BY <2>1, RuntimeAssumption DEF Missing, Runs
    <3> QED BY <1>2, <2>1, <2>2, <3>1, InDoubt
  <2>4. D[i] = dirs[i] BY <2>1, CrashDoubts
  <2>5. D[i] # NoDir /\ D[i].name = n /\ Docker(D[i].man) /\ D[i].desired = "running" BY <2>2, <2>3, <2>4 DEF Settled
  <2>6. /\ store'[n] # NoService /\ store'[n].id = i /\ store'[n].man = D[i].man
        /\ store'[n].desired = D[i].desired
    BY <1>1, <1>2, <2>5, LoadedDir
  <2>7. Settled(n)' BY <1>1, <2>5, <2>6 DEF Settled
  <2> QED BY <2>5, <2>6, <2>7
<1>10. StoppedDown'
  <2> SUFFICES ASSUME NEW n \in stopped' PROVE IsDown(n)' BY DEF StoppedDown
  <2>1. n \in stopped /\ n \in Name BY <1>2 DEF Restart, Data
  <2>2. IsDown(n) BY <2>1 DEF PInv, Wanted, StoppedDown
  <2>3. PICK i \in Id : i = store[n].id BY <1>2, <2>1, <2>2 DEF IsDown, Data, Service
  <2>4. /\ D[i] # NoDir /\ D[i].name = n /\ D[i].desired = "stopped"
        /\ Docker(D[i].man) => ~ Runs(i)
    BY <2>1, <2>2, <2>3, CrashDown
  <2>5. /\ store'[n] # NoService /\ store'[n].id = i /\ store'[n].man = D[i].man
        /\ store'[n].desired = D[i].desired
    BY <1>1, <1>2, <2>1, <2>4, LoadedDir
  <2>6. Runs(i)' => Runs(i) BY DEF Restart, Runs
  <2> QED BY <1>1, <2>4, <2>5, <2>6 DEF IsDown
<1>11. Wanted' BY <1>7, <1>8, <1>9, <1>10 DEF Wanted
<1> QED BY <1>6, <1>11 DEF PInv

\* The first start finds nothing.
LEMMA InitKnows == Init => PInv
<1> SUFFICES ASSUME Init PROVE PInv OBVIOUS
<1>1. DInv BY InitFits
<1>2. PICK u : u = BootTask OBVIOUS
<1>3. u.op = "boot" /\ u.todo = <<"next">> BY <1>2 DEF BootTask, Idle
<1>4. \A p \in Caller : task[p] = IF p # Boot THEN Idle ELSE u BY <1>2 DEF Init
<1>5. ASSUME NEW p \in Caller PROVE CallShape(task[p]) /\ CallKnows(task[p])
  <2>1. PICK q : q = IF p # Boot THEN Idle ELSE u OBVIOUS
  <2>2. CallShape(q) /\ CallKnows(q) BY <1>3, <2>1, FreshTasks
  <2>3. task[p] = q BY <1>4, <2>1
  <2> QED BY <2>2, <2>3
<1>6. Wanted BY DEF Init, Wanted, Agreed, ChildWanted, ContainerWanted, StoppedDown, Child, Runs
<1> QED BY <1>1, <1>5, <1>6 DEF PInv

\* Every step of a call or of the start keeps what runs wanted.
LEMMA CallerKnows ==
  ASSUME OneCaller, PInv, DInv', NEW p \in Caller, Step(p)
  PROVE  PInv'
<1>1. CASE Resolve(p) \/ Ensure(p) \/ Restore(p) \/ Spawn(p)
  BY <1>1, ResolveKnows, EnsureKnows, RestoreKnows, SpawnKnows
<1>2. CASE Desire(p) \/ Take(p) \/ Reap(p) \/ Drop(p) \/ Build(p)
  BY <1>2, DesireKnows, TakeKnows, ReapKnows, BuildKnows
<1>3. CASE Publish(p) \/ Persist(p) \/ Unpublish(p) \/ Forget(p) \/ Unlisten(p) \/ Listen(p)
  BY <1>3, PublishKnows, PersistKnows, WithdrawKnows, ForgetKnows, ReadKnows
<1>4. CASE DockerCreate(p) \/ DockerStart(p) \/ DockerStop(p) \/ DockerRemove(p) \/ DockerInspect(p)
  BY <1>4, ContainerKnows, DockerStartKnows, ReadKnows
<1> QED BY <1>1, <1>2, <1>3, <1>4 DEF Step

\* Every step keeps what runs wanted, and what each call knows of it.
LEMMA NextKnows ==
  ASSUME OneCaller, PInv, [Next]_vars
  PROVE  PInv'
<1>1. DInv' BY NextFits DEF PInv
<1>2. ASSUME NEW p \in Proc, NEW n \in Name,
             \/ StartBegin(p, n) \/ StopBegin(p, n) \/ RemoveBegin(p, n) \/ InspectBegin(p, n)
             \/ \E m \in Manifest, i \in Id : ApplyBegin(p, n, m, i)
      PROVE  PInv'
  BY <1>1, <1>2, StartBeginKnows, StopBeginKnows, RemoveBeginKnows, ApplyBeginKnows
<1>3. ASSUME NEW p \in Caller, Step(p) PROVE PInv' BY <1>1, <1>3, CallerKnows
<1>4. ASSUME NEW n \in Name, BootNext(n) PROVE PInv' BY <1>1, <1>4, BootNextKnows
<1>5. ASSUME BootRestored \/ BootListRunning \/ BootListDesired \/ BootListen PROVE PInv'
  BY <1>1, <1>5, BootRestoredKnows, BootLooksKnows
<1>6. ASSUME Restart PROVE PInv' BY <1>1, <1>6, RestartKnows
<1>7. ASSUME \/ \E n \in Name : ChildExits(n)
             \/ \E i \in Id : ContainerExits(i) \/ ContainerVanishes(i)
      PROVE  PInv'
  BY <1>1, <1>7, ExitKnows
<1>8. CASE UNCHANGED vars BY <1>1, <1>8, ExitKnows
<1> QED BY <1>2, <1>3, <1>4, <1>5, <1>6, <1>7, <1>8 DEF Next

\* With one caller at a time, whatever fails and whenever the daemon crashes: whatever runs is
\* wanted, and each call knows of its service what the rest of its plan relies on.
THEOREM RunsAreWanted ==
  ASSUME OneCaller
  PROVE  Spec => []PInv
<1>1. Init => PInv BY InitKnows
<1>2. PInv /\ [Next]_vars => PInv' BY NextKnows
<1> QED BY <1>1, <1>2, PTL DEF Spec

\* When no call is in progress, nothing is about to be put on record, so what runs is on record.
LEMMA NoStrayFromInv == PInv => NoStrayProcess
<1> SUFFICES ASSUME PInv, Quiet PROVE NoStrayProcess BY DEF NoStrayProcess
<1>1. \A n \in Name : ~ Awaited(n) BY DEF Quiet, Awaited, At
<1>2. ASSUME NEW n \in Name, prov[n] # NoEntry, prov[n].child
      PROVE  store[n] # NoService /\ store[n].desired = "running"
  <2>1. Child(n) BY <1>2 DEF Child
  <2> QED BY <1>1, <2>1 DEF PInv, Wanted, ChildWanted
<1>3. ASSUME NEW i \in Id, containers[i] = "running", i \notin errored
      PROVE  \E n \in Name : /\ store[n] # NoService /\ store[n].id = i
                             /\ Docker(store[n].man) /\ store[n].desired = "running"
  <2>1. Runs(i) BY <1>3 DEF Runs
  <2>2. PICK n \in Name : /\ store[n] # NoService /\ store[n].id = i /\ Docker(store[n].man)
                          /\ Settled(n) \/ Awaited(n)
    BY <1>3, <2>1 DEF PInv, Wanted, ContainerWanted
  <2> QED BY <1>1, <2>2 DEF Settled
<1> QED BY <1>2, <1>3 DEF NoStrayProcess

\* A process or a container runs only for a service that is on record as desired to run, unless
\* a call on its container failed or was cut short: control.rs starts first and saves the desired
\* state with the next step, and takes down before it saves, in whatever order calls fail and the
\* daemon crashes.
THEOREM NothingStray ==
  ASSUME OneCaller
  PROVE  Spec => []NoStrayProcess
<1>1. PInv => NoStrayProcess BY NoStrayFromInv
<1> QED BY <1>1, RunsAreWanted, PTL

\* A service that is down has no process, for a call that is about to have it on record as running
\* has begun with a start since, and is read back from disk as stopped.
LEMMA StoppedFromInv == PInv => StoppedStaysStopped
<1> SUFFICES ASSUME PInv, NEW n \in stopped
             PROVE  /\ prov[n] # NoEntry => ~ prov[n].child
                    /\ store[n] # NoService /\ Docker(store[n].man) => containers[store[n].id] # "running"
                    /\ Loadable(dirs) /\ Loaded(dirs)[n] # NoService => Loaded(dirs)[n].desired = "stopped"
  BY DEF StoppedStaysStopped
<1>1. Data /\ n \in Name /\ IsDown(n) BY DEF PInv, DInv, TInv, Variables, Data, Wanted, StoppedDown
<1>2. ~ Awaited(n)
  <2> SUFFICES ASSUME NEW p \in Caller, At(p, "desire"), task[p].name = n, task[p].desired = "running" PROVE FALSE
    BY DEF Awaited
  <2>1. task[p].todo \in Seq(StepName) /\ task[p].todo # <<>> /\ Head(task[p].todo) = "desire"
    BY DEF At, PInv, DInv, TInv, Task
  <2>2. Has(task[p].todo, {"desire"}) BY <2>1, PlanTail
  <2> QED BY <2>2 DEF PInv, CallKnows, StartKnows
<1>3. prov[n] # NoEntry => ~ prov[n].child BY <1>1, <1>2 DEF PInv, Wanted, ChildWanted, Child, IsDown
<1>4. store[n] # NoService /\ Docker(store[n].man) => containers[store[n].id] # "running" BY <1>1 DEF IsDown, Runs
<1>5. Loadable(dirs) => Loaded(dirs)[n].desired = "stopped"
  <2>1. PICK i \in Id : i = store[n].id BY <1>1 DEF IsDown, Data, Service
  <2>2. dirs[i] # NoDir /\ dirs[i].name = n /\ dirs[i].desired = "stopped" BY <1>1, <2>1 DEF IsDown
  <2> QED BY <1>1, <2>2, LoadedDir DEF Data
<1> QED BY <1>3, <1>4, <1>5

\* A service that was stopped has no process and no running container, and the next start does not
\* bring it back, whatever fails and whenever the daemon crashes, until it is started again: stop
\* saves the desired state only after the process has been reaped or the container stopped, and
\* apply installs with the desired state it found on record.
THEOREM StaysStopped ==
  ASSUME OneCaller
  PROVE  Spec => []StoppedStaysStopped
<1>1. PInv => StoppedStaysStopped BY StoppedFromInv
<1> QED BY <1>1, RunsAreWanted, PTL

\* What a plan with two last steps has still to do, before them and at each of them.
LEMMA EndsTail ==
  ASSUME NEW s \in Seq(StepName), s # <<>>, NEW S, NEW a, NEW b, a \notin S, b \notin S, a # b, Ends(s, S, a, b)
  PROVE  /\ Ends(Tail(s), S, a, b)
         /\ Head(s) \in S \cup {a, b}
         /\ Head(s) \in S => Has(s, {a}) /\ Has(Tail(s), {a}) /\ Has(Tail(s), {b}) /\ Tail(s) # <<>>
         /\ Head(s) = a => Tail(s) # <<>> /\ Has(Tail(s), {b}) /\ ~ Has(Tail(s), {a}) /\ Len(Tail(s)) = 1
         /\ Head(s) = b => Tail(s) = <<>> /\ ~ Has(s, {a}) /\ Has(s, {b})
<1>1. /\ Len(s) \in Nat \ {0} /\ Tail(s) \in Seq(StepName) /\ Len(Tail(s)) = Len(s) - 1 /\ Head(s) = s[1]
      /\ \A i \in 1..Len(Tail(s)) : i + 1 \in 1..Len(s) /\ Tail(s)[i] = s[i + 1]
      /\ Len(<<>>) = 0
  BY TailFacts
<1>2. \A i \in 1..Len(s) : s[i] \in IF i = Len(s) THEN {b} ELSE IF i = Len(s) - 1 THEN {a} ELSE S BY DEF Ends
<1>3. Ends(Tail(s), S, a, b)
  <2> SUFFICES ASSUME NEW i \in 1..Len(Tail(s))
               PROVE  Tail(s)[i] \in IF i = Len(Tail(s)) THEN {b} ELSE IF i = Len(Tail(s)) - 1 THEN {a} ELSE S
    BY DEF Ends
  <2>1. /\ i + 1 \in 1..Len(s) /\ Tail(s)[i] = s[i + 1]
        /\ (i = Len(Tail(s))) <=> (i + 1 = Len(s))
        /\ (i = Len(Tail(s)) - 1) <=> (i + 1 = Len(s) - 1)
    BY <1>1
  <2> QED BY <2>1, <1>2
<1>4. s[Len(s)] = b
  <2>1. Len(s) \in 1..Len(s) BY <1>1
  <2> QED BY <2>1, <1>2
<1>5. Len(s) > 1 => s[Len(s) - 1] = a
  <2>1. \A k \in Nat : k > 1 => k - 1 \in 1..k /\ k - 1 # k OBVIOUS
  <2> QED BY <2>1, <1>1, <1>2
<1>6. Len(s) > 2 => s[1] \in S
  <2>1. Len(s) > 2 => 1 \in 1..Len(s) /\ 1 # Len(s) /\ 1 # Len(s) - 1 BY <1>1
  <2> QED BY <2>1, <1>2
<1>7. CASE Len(s) = 1
  <2>1. Head(s) = b /\ s[1] = b /\ Tail(s) = <<>> BY <1>1, <1>2, <1>7
  <2>2. ~ Has(s, {a}) /\ Has(s, {b}) BY <1>7, <2>1 DEF Has
  <2> QED BY <2>1, <2>2, <1>3
<1>8. CASE Len(s) = 2
  <2>1. Head(s) = a /\ Len(Tail(s)) = 1 /\ Tail(s)[1] = b BY <1>1, <1>4, <1>5, <1>8
  <2>2. Tail(s) # <<>> BY <2>1, <1>1
  <2>3. Has(Tail(s), {b}) /\ ~ Has(Tail(s), {a})
    <3>1. 1 \in 1..Len(Tail(s)) /\ \A i \in 1..Len(Tail(s)) : Tail(s)[i] = b
      <4>0. \A k : k = 1 => \A i \in 1..k : i = 1 OBVIOUS
      <4>1. \A i \in 1..Len(Tail(s)) : i = 1 BY <4>0, <2>1
      <4>2. 1 \in 1..Len(Tail(s)) BY <2>1
      <4> QED BY <4>1, <4>2, <2>1
    <3> QED BY <3>1 DEF Has
  <2> QED BY <2>1, <2>2, <2>3, <1>3
<1>9. CASE Len(s) > 2
  <2>1. Head(s) \in S BY <1>1, <1>6, <1>9
  <2>2. Len(Tail(s)) # 0 BY <1>1, <1>9
  <2>3. Tail(s) # <<>> BY <2>2, <1>1
  <2>4. Len(s) - 1 \in 1..Len(s) /\ Len(s) - 2 \in 1..Len(Tail(s)) /\ Len(s) - 1 \in 1..Len(Tail(s)) BY <1>1, <1>9
  <2>5. s[Len(s) - 1] = a /\ s[Len(s)] = b BY <1>1, <1>4, <1>5, <1>9
  <2>6. Tail(s)[Len(s) - 2] = a /\ Tail(s)[Len(s) - 1] = b BY <2>4, <1>1, <2>5
  <2>7. Has(s, {a}) /\ Has(Tail(s), {a}) /\ Has(Tail(s), {b}) BY <2>4, <2>5, <2>6 DEF Has
  <2> QED BY <2>1, <2>3, <2>7, <1>3
<1> QED BY <1>1, <1>7, <1>8, <1>9

\* A plan of which the first step, not one of the last two, is replaced.
LEMMA EndsInstead ==
  ASSUME NEW s \in Seq(StepName), s # <<>>, NEW S, NEW a, NEW b, a \notin S, b \notin S, a # b, Ends(s, S, a, b),
         Head(s) \in S, NEW h \in StepName, h \in S, NEW r, r = <<h>> \o Tail(s)
  PROVE  Ends(r, S, a, b)
<1>1. /\ r \in Seq(StepName) /\ Len(r) = Len(s) /\ \A i \in 2..Len(s) : r[i] = s[i] BY PlanInstead
<1>2. Len(s) \in Nat \ {0} /\ Head(s) = s[1] /\ Tail(s) \in Seq(StepName) BY TailFacts
<1>3. r[1] = h BY <1>2
<1>4. \A i \in 1..Len(s) : s[i] \in IF i = Len(s) THEN {b} ELSE IF i = Len(s) - 1 THEN {a} ELSE S BY DEF Ends
<1>5. 1 # Len(s) /\ 1 # Len(s) - 1 BY <1>2, <1>4
<1> SUFFICES ASSUME NEW i \in 1..Len(r)
             PROVE  r[i] \in IF i = Len(r) THEN {b} ELSE IF i = Len(r) - 1 THEN {a} ELSE S
  BY DEF Ends
<1>6. CASE i = 1 BY <1>6, <1>5, <1>3, <1>1
<1>7. CASE i # 1
  <2>1. i \in 1..Len(s) /\ i \in 2..Len(s) BY <1>7, <1>1, <1>2
  <2> QED BY <2>1, <1>1, <1>4
<1> QED BY <1>6, <1>7

\* A plan with two last steps after others.
LEMMA EndsConcat ==
  ASSUME NEW S \in SUBSET StepName, NEW c \in Seq(S), NEW a \in StepName, NEW b \in StepName, NEW s, s = c \o <<a, b>>
  PROVE  /\ Ends(s, S, a, b) /\ s # <<>> /\ s \in Seq(StepName)
         /\ Has(s, {a}) /\ Has(s, {b})
<1> DEFINE e == <<a, b>>
<1>1. e \in Seq(StepName) /\ Len(e) = 2 /\ e[1] = a /\ e[2] = b /\ c \in Seq(StepName) BY WiderPlan
<1>2. /\ Len(s) = Len(c) + 2 /\ Len(c) \in Nat
      /\ \A i \in 1..(Len(c) + 2) : s[i] = IF i <= Len(c) THEN c[i] ELSE e[i - Len(c)]
  BY <1>1, ConcatFacts
<1>3. s \in Seq(StepName) BY <1>1, ConcatType
<1>4. s # <<>> BY <1>2
<1>5. \A i \in 1..Len(c) : c[i] \in S OBVIOUS
<1>6. s[Len(c) + 1] = a /\ s[Len(c) + 2] = b BY <1>1, <1>2
<1>7. Ends(s, S, a, b)
  <2> SUFFICES ASSUME NEW i \in 1..Len(s)
               PROVE  s[i] \in IF i = Len(s) THEN {b} ELSE IF i = Len(s) - 1 THEN {a} ELSE S
    BY DEF Ends
  <2>1. i <= Len(c) => s[i] \in S /\ i # Len(s) /\ i # Len(s) - 1 BY <1>2, <1>5
  <2>2. ~ (i <= Len(c)) => i = Len(c) + 1 \/ i = Len(c) + 2 BY <1>2
  <2> QED BY <2>1, <2>2, <1>2, <1>6
<1>8. Has(s, {a}) /\ Has(s, {b}) BY <1>2, <1>6 DEF Has
<1> QED BY <1>3, <1>4, <1>7, <1>8

\* A step of a call keeps the invariant of the listeners.
LEMMA CallListens ==
  ASSUME OneCaller, LInv, PInv', NEW p \in Proc, task[p].op # "idle", NEW n, n = task[p].name, NEW u, Shown(p, n, u)
  PROVE  LInv'
<1>0. /\ task' = [task EXCEPT ![p] = u]
      /\ errored \cap Name \subseteq errored'
      /\ \A m \in Name \ {n} : store'[m] = store[m] /\ manifests'[m] = manifests[m] /\ ListenersOf(m)' = ListenersOf(m)
      /\ u.op # "idle" => u.name = n /\ u.todo # <<>> /\ (n \notin errored' => CallExposes(u)')
      /\ u.op = "idle" /\ n \notin errored' => ListenersOf(n)' = Wants(n)'
      /\ n \notin errored' /\ store'[n] # NoService =>
           manifests'[n] # NoManifest \/ (u.todo # <<>> /\ Head(u.todo) = "forget" /\ u.name = n)
  BY DEF Shown
<1>1. /\ Boot \notin Proc /\ p \in Caller /\ Boot \in Caller /\ p # Boot
      /\ \A q \in Caller : q = p \/ q = Boot
      /\ \A q \in Proc : q = p
  BY RuntimeAssumption DEF OneCaller, Caller
<1>2. task \in [Caller -> Task] /\ BootInv /\ n \in Name BY DEF LInv, PInv, DInv, TInv
<1>3. task'[p] = u /\ task'[Boot] = task[Boot] BY <1>0, <1>1, <1>2
<1>4. task[Boot].op = "idle" BY <1>2, IdleFacts DEF BootInv
<1>5. Started' <=> Started BY <1>3 DEF Started
<1>6. n \notin errored' => n \notin errored BY <1>0, <1>2
<1>7. n \notin errored' => Started BY <1>6 DEF LInv, MetStart
<1>8. Published'
  <2> SUFFICES ASSUME NEW m \in Name, m \notin errored', store'[m] # NoService
               PROVE  \/ manifests'[m] # NoManifest
                      \/ m \in task'[Boot].rest
                      \/ \E q \in Caller : task'[q].name = m /\ ((q = Boot /\ At(q, "publish")') \/ At(q, "forget")')
    BY DEF Published
  <2>1. CASE m = n BY <1>3, <1>0, <2>1, <1>1 DEF At
  <2>2. CASE m # n
    <3>1. m \notin errored /\ store[m] # NoService /\ manifests'[m] = manifests[m] BY <1>0, <2>2
    <3>2. PICK x \in BOOLEAN : x <=> (manifests[m] # NoManifest \/ m \in task[Boot].rest) OBVIOUS
    <3>3. x \/ \E q \in Caller : task[q].name = m /\ ((q = Boot /\ At(q, "publish")) \/ At(q, "forget"))
      BY <3>1, <3>2 DEF LInv, Published
    <3>4. ~ At(Boot, "publish") /\ ~ At(Boot, "forget") BY <1>4 DEF LInv, BootWaits, At
    <3>5. x BY <3>3, <3>4, <1>1, <2>2
    <3> QED BY <3>5, <3>2, <3>1, <1>3
  <2> QED BY <2>1, <2>2
<1>9. BootWaits' BY <1>3, <1>4 DEF LInv, BootWaits
<1>10. MetStart' BY <1>7, <1>0, <1>5, <1>1, <1>3 DEF MetStart
<1>11. ASSUME NEW q \in Proc, task'[q].op # "idle"
       PROVE  /\ task'[q].name \in Name /\ task'[q].todo # <<>>
              /\ task'[q].name \notin errored' => CallExposes(task[q])'
  BY <1>1, <1>3, <1>0, <1>2, <1>11
<1>12. ASSUME NEW m \in Name, m \notin errored', ~ Busy(m)'
       PROVE  BootExposes(m)'
  <2>1. CASE m = n
    <3>1. u.op = "idle" BY <1>0, <2>1, <1>3, <1>12 DEF Busy
    <3>2. ListenersOf(n)' = Wants(n)' /\ Started BY <1>0, <3>1, <2>1, <1>12, <1>7
    <3>3. task[Boot].todo = <<>> /\ task[Boot].found = {} BY <3>2, IdleFacts DEF Started
    <3>4. Found(n)' = {} BY <3>3, <1>3 DEF Found
    <3>5. <<>> # <<"list_running", "list_desired">> /\ <<>> # <<"list_desired">> OBVIOUS
    <3> QED BY <3>2, <3>3, <3>4, <3>5, <2>1, <1>3 DEF BootExposes
  <2>2. CASE m # n BY <1>0, <2>2, <1>1, <1>12, <1>3 DEF Busy, LInv, Found, Wants, BootExposes
  <2> QED BY <2>1, <2>2
<1> QED BY <1>8, <1>9, <1>10, <1>11, <1>12 DEF LInv

\* A plan of plain steps.
LEMMA PlainPlan ==
  ASSUME NEW s \in Seq(Plain), s # <<>>
  PROVE  /\ s \in Seq(StepName) /\ Head(s) \in Plain /\ Tail(s) \in Seq(Plain)
         /\ \A h \in Plain : <<h>> \o Tail(s) \in Seq(Plain)
<1>1. Plain \subseteq StepName BY DEF Plain
<1>2. s \in Seq(StepName) BY <1>1, WiderPlan
<1>3. Head(s) \in Plain /\ Tail(s) \in Seq(Plain) OBVIOUS
<1>4. \A h \in Plain : <<h>> \o Tail(s) \in Seq(Plain) BY <1>3
<1> QED BY <1>2, <1>3, <1>4

\* What the kinds of calls plan before a plain step is what they plan after it.
LEMMA PlainEnds ==
  ASSUME NEW s \in Seq(StepName), s # <<>>, Head(s) \in Plain, NEW S \in SUBSET StepName, Plain \subseteq S,
         NEW a, a \notin S, NEW b, b \notin S, a # b, Ends(s, S, a, b)
  PROVE  /\ Has(s, {a}) /\ Tail(s) # <<>>
         /\ \A r : r = Tail(s) \/ (\E h \in Plain : r = <<h>> \o Tail(s)) => Ends(r, S, a, b) /\ Has(r, {a})
<1>1. /\ Ends(Tail(s), S, a, b) /\ Has(s, {a}) /\ Has(Tail(s), {a}) /\ Tail(s) # <<>> BY EndsTail
<1>2. ASSUME NEW r, NEW h \in Plain, r = <<h>> \o Tail(s)
      PROVE  Ends(r, S, a, b) /\ Has(r, {a})
  BY <1>2, <1>1, EndsInstead, PlanInstead
<1> QED BY <1>1, <1>2

\* The steps of a plan but the first are still to be done after that.
LEMMA NextPlan ==
  ASSUME NEW s \in Seq(StepName), s # <<>>, NEW r, r = Tail(s) \/ \E h \in Plain : r = <<h>> \o Tail(s)
  PROVE  \A T : Has(s, T) /\ Head(s) \notin T => Has(r, T)
<1>1. r = Tail(s) => \A T : Has(s, T) /\ Head(s) \notin T => Has(r, T) BY PlanTail
<1>2. ASSUME NEW h \in Plain, r = <<h>> \o Tail(s)
      PROVE  \A T : Has(s, T) /\ Head(s) \notin T => Has(r, T)
  BY <1>2, PlanInstead DEF Plain
<1> QED BY <1>1, <1>2

\* A call that is at a plain step knows after it what it knew before, and unless its errors are on
\* record its service is exposed as it is to be.
LEMMA PlainExposes ==
  ASSUME NEW t \in Task, t.op \notin {"idle", "boot"}, t.todo # <<>>, Head(t.todo) \in Plain, CallExposes(t),
         NEW n, n = t.name, UNCHANGED <<store, manifests, listening>>
  PROVE  /\ t.op \notin {"apply", "remove"} => ListenersOf(n) = Wants(n)
         /\ Tail(t.todo) = <<>> => t.op = "inspect"
         /\ \A u : /\ u.op = t.op /\ u.name = n /\ u.desired = t.desired /\ u.prev = t.prev
                   /\ (u.todo = Tail(t.todo) /\ u.todo # <<>>) \/ \E h \in Plain : u.todo = <<h>> \o Tail(t.todo)
                   => CallExposes(u)'
<1>0. PICK d : d = t.todo OBVIOUS
<1>1. /\ t.op \in {"apply", "start", "stop", "remove", "inspect"}
      /\ d \in Seq(StepName) /\ d # <<>> /\ Head(d) \in Plain
  BY <1>0 DEF Task
<1>2. ListenersOf(n)' = ListenersOf(n) /\ Wants(n)' = Wants(n) BY DEF ListenersOf, Wants
<1>3. Plain \cap {"publish", "persist", "desire", "unpublish", "forget", "unlisten", "listen", "resolve"} = {}
  BY DEF Plain
<1>4. Plain \subseteq StepName /\ Plain \cup {"unpublish"} \subseteq StepName
      /\ Plain \cup {"publish", "persist", "desire"} \subseteq StepName
  BY DEF Plain, StepName
<1>5. ASSUME NEW r, r = Tail(d) \/ (\E h \in Plain : r = <<h>> \o Tail(d))
      PROVE  \A T : Has(d, T) /\ Head(d) \notin T => Has(r, T)
  BY <1>1, <1>5, NextPlan
<1>6. CASE t.op = "inspect"
  <2>1. d \in Seq(Plain) /\ ListenersOf(n) = Wants(n) BY <1>0, <1>6 DEF CallExposes
  <2>2. Tail(d) \in Seq(Plain) /\ \A h \in Plain : <<h>> \o Tail(d) \in Seq(Plain) BY <2>1, <1>1, PlainPlan
  <2>3. ASSUME NEW u, u.op = t.op, u.name = n, u.todo \in Seq(Plain)
        PROVE  CallExposes(u)'
    BY <1>0, <2>3, <2>1, <1>2, <1>6 DEF CallExposes
  <2> QED BY <1>0, <2>1, <2>2, <2>3, <1>6
<1>7. CASE t.op = "start"
  <2>1. Ends(d, Plain, "desire", "listen") BY <1>0, <1>7 DEF CallExposes
  <2>2. /\ Has(d, {"desire"}) /\ Tail(d) # <<>>
        /\ \A r : r = Tail(d) \/ (\E h \in Plain : r = <<h>> \o Tail(d)) => Ends(r, Plain, "desire", "listen") /\ Has(r, {"desire"})
    BY <2>1, <1>1, <1>3, <1>4, PlainEnds
  <2>3. ListenersOf(n) = Wants(n) BY <1>0, <2>2, <1>7 DEF CallExposes
  <2>4. ASSUME NEW u, u.op = t.op, u.name = n, Ends(u.todo, Plain, "desire", "listen"), Has(u.todo, {"desire"})
        PROVE  CallExposes(u)'
    BY <1>0, <2>4, <2>3, <1>2, <1>7 DEF CallExposes
  <2> QED BY <1>0, <2>2, <2>3, <2>4, <1>7
<1>8. CASE t.op = "stop"
  <2>1. Ends(d, Plain, "desire", "unlisten") BY <1>0, <1>8 DEF CallExposes
  <2>2. /\ Has(d, {"desire"}) /\ Tail(d) # <<>>
        /\ \A r : r = Tail(d) \/ (\E h \in Plain : r = <<h>> \o Tail(d)) => Ends(r, Plain, "desire", "unlisten") /\ Has(r, {"desire"})
    BY <2>1, <1>1, <1>3, <1>4, PlainEnds
  <2>3. ListenersOf(n) = Wants(n) BY <1>0, <2>2, <1>8 DEF CallExposes
  <2>4. ASSUME NEW u, u.op = t.op, u.name = n, Ends(u.todo, Plain, "desire", "unlisten"), Has(u.todo, {"desire"})
        PROVE  CallExposes(u)'
    BY <1>0, <2>4, <2>3, <1>2, <1>8 DEF CallExposes
  <2> QED BY <1>0, <2>2, <2>3, <2>4, <1>8
<1>9. CASE t.op = "remove"
  <2>0. PICK S : S = Plain \cup {"unpublish"} OBVIOUS
  <2>1. /\ Ends(d, S, "forget", "unlisten") /\ ListenersOf(n) \subseteq EndpointsAs(n, t.prev)
        /\ Followed(d, "unpublish", "forget")
    BY <1>0, <2>0, <1>9 DEF CallExposes
  <2>2. "forget" \notin S /\ "unlisten" \notin S /\ S \in SUBSET StepName /\ Plain \subseteq S BY <2>0, <1>3, <1>4
  <2>3. /\ Tail(d) # <<>>
        /\ \A r : r = Tail(d) \/ (\E h \in Plain : r = <<h>> \o Tail(d)) => Ends(r, S, "forget", "unlisten") /\ Has(r, {"forget"})
    BY <2>1, <2>2, <1>1, PlainEnds
  <2>4. \A r : r = Tail(d) \/ (\E h \in Plain : r = <<h>> \o Tail(d)) => Followed(r, "unpublish", "forget")
    <3>1. Followed(Tail(d), "unpublish", "forget") BY <2>1, <1>1, PlanTail
    <3>2. ASSUME NEW r, NEW h \in Plain, r = <<h>> \o Tail(d)
          PROVE  Followed(r, "unpublish", "forget")
      <4>1. h \in StepName /\ h # "unpublish" BY <1>3, <1>4
      <4>2. \A a, b : Followed(d, a, b) /\ h # a => Followed(r, a, b) BY <4>1, <3>2, <1>1, PlanInstead
      <4> QED BY <4>1, <4>2, <2>1
    <3> QED BY <3>1, <3>2
  <2>5. ASSUME NEW u, u.op = t.op, u.name = n, u.prev = t.prev, Ends(u.todo, S, "forget", "unlisten"),
               Has(u.todo, {"forget"}), Followed(u.todo, "unpublish", "forget")
        PROVE  CallExposes(u)'
    BY <1>0, <2>0, <2>5, <2>1, <1>2, <1>9 DEF CallExposes, EndpointsAs
  <2> QED BY <1>0, <2>3, <2>4, <2>5, <1>9
<1>10. CASE t.op = "apply"
  <2>1. d # <<"resolve">> BY <1>1, <1>3
  <2>2. ApplyExposes(t) BY <1>0, <1>10 DEF CallExposes
  <2>3. ASSUME NEW u, u.op = t.op, ApplyExposes(u)'
        PROVE  CallExposes(u)'
    BY <1>0, <2>3, <1>10 DEF CallExposes
  <2>4. CASE t.desired = "stopped" /\ Ends(d, Plain, "publish", "persist") /\ ListenersOf(n) = {}
    <3>1. /\ Tail(d) # <<>>
          /\ \A r : r = Tail(d) \/ (\E h \in Plain : r = <<h>> \o Tail(d)) => Ends(r, Plain, "publish", "persist")
      BY <2>4, <1>1, <1>3, <1>4, PlainEnds
    <3>2. ASSUME NEW u, u.name = n, u.desired = "stopped", Ends(u.todo, Plain, "publish", "persist")
          PROVE  ApplyExposes(u)'
      BY <1>0, <3>2, <2>4, <1>2 DEF ApplyExposes
    <3> QED BY <1>0, <3>1, <3>2, <2>3, <2>4, <1>10
  <2>5. CASE t.desired = "running"
    <3>0. PICK S : S = Plain \cup {"publish", "persist", "desire"} OBVIOUS
    <3>1. /\ Ends(d, S, "unlisten", "listen")
          /\ ListenersOf(n) \subseteq IF Has(d, {"unlisten"}) THEN EndpointsAs(n, t.prev) ELSE {}
          /\ Has(d, {"persist"}) \/ (store[n] # NoService /\ store[n].desired = "running")
      BY <1>0, <3>0, <2>1, <2>2, <2>5 DEF ApplyExposes
    <3>2. "unlisten" \notin S /\ "listen" \notin S /\ S \in SUBSET StepName /\ Plain \subseteq S BY <3>0, <1>3, <1>4
    <3>3. /\ Tail(d) # <<>> /\ Has(d, {"unlisten"})
          /\ \A r : r = Tail(d) \/ (\E h \in Plain : r = <<h>> \o Tail(d))
               => Ends(r, S, "unlisten", "listen") /\ Has(r, {"unlisten"})
      BY <3>1, <3>2, <1>1, PlainEnds
    <3>4. \A r : r = Tail(d) \/ (\E h \in Plain : r = <<h>> \o Tail(d)) => (Has(d, {"persist"}) => Has(r, {"persist"}))
      BY <1>1, <1>3, <1>5
    <3>5. ASSUME NEW u, u.name = n, u.desired = "running", u.prev = t.prev, Ends(u.todo, S, "unlisten", "listen"),
                 Has(u.todo, {"unlisten"}), Has(d, {"persist"}) => Has(u.todo, {"persist"})
          PROVE  ApplyExposes(u)'
      BY <1>0, <3>0, <3>5, <3>1, <3>3, <1>2 DEF ApplyExposes
    <3> QED BY <1>0, <3>3, <3>4, <3>5, <2>3, <2>5, <1>10
  <2> QED BY <1>0, <2>1, <2>2, <2>4, <2>5 DEF ApplyExposes
<1> QED BY <1>1, <1>6, <1>7, <1>8, <1>9, <1>10

\* A caller with a call is in it.
LEMMA InCall ==
  ASSUME LInv, NEW p \in Proc, task[p].todo # <<>> \/ task[p].op # "idle"
  PROVE  /\ task[p] \in Task /\ task[p].op \in {"apply", "start", "stop", "remove", "inspect"}
         /\ task[p].name \in Name /\ task[p].todo \in Seq(StepName) /\ task[p].todo # <<>>
         /\ task[p].name \notin errored => CallExposes(task[p]) /\ task[Boot] = Idle
         /\ task[Boot].op = "idle" /\ ~ At(Boot, "publish") /\ ~ At(Boot, "forget") /\ task[Boot].rest = {}
         /\ p \in Caller /\ p # Boot
<1>1. /\ TInv /\ BootInv /\ task \in [Caller -> Task] /\ p \in Caller /\ p # Boot
  BY RuntimeAssumption DEF LInv, PInv, DInv, TInv, Caller
<1>2. task[p].op # "idle" /\ task[p].op # "boot" BY <1>1, IdleFacts DEF BootInv
<1>3. task[p] \in Task /\ task[p].op \in {"apply", "start", "stop", "remove", "inspect"} /\ task[p].todo \in Seq(StepName)
  BY <1>1, <1>2 DEF Task
<1>4. /\ task[p].name \in Name /\ task[p].todo # <<>>
      /\ task[p].name \notin errored => CallExposes(task[p])
  BY <1>2 DEF LInv
<1>5. task[p].name \notin errored => task[Boot] = Idle BY <1>2 DEF LInv, MetStart, Started
<1>6. task[Boot].op = "idle" /\ task[Boot].rest = {} BY <1>1, <1>2, IdleFacts DEF BootInv
<1>7. task[Boot].todo \in {<<"list_running", "list_desired">>, <<"list_desired">>, <<>>} BY <1>6 DEF LInv, BootWaits
<1>8. ~ At(Boot, "publish") /\ ~ At(Boot, "forget") BY <1>7 DEF At
<1> QED BY <1>1, <1>3, <1>4, <1>5, <1>6, <1>8

\* A service a call is about is published if it is on record, unless the call is about to drop the record.
LEMMA CallPublished ==
  ASSUME OneCaller, LInv, NEW p \in Proc, task[p].todo # <<>>, Head(task[p].todo) # "forget",
         NEW n, n = task[p].name, n \notin errored, store[n] # NoService
  PROVE  manifests[n] # NoManifest
<1>1. /\ n \in Name /\ ~ At(Boot, "publish") /\ ~ At(Boot, "forget") /\ task[Boot].rest = {} BY InCall
<1>2. \A q \in Caller : q = p \/ q = Boot BY DEF OneCaller, Caller
<1>3. ~ At(p, "forget") BY DEF At
<1>4. PICK x \in BOOLEAN : x <=> (manifests[n] # NoManifest) OBVIOUS
<1>5. x \/ n \in task[Boot].rest \/ \E q \in Caller : task[q].name = n /\ ((q = Boot /\ At(q, "publish")) \/ At(q, "forget"))
  BY <1>1, <1>4 DEF LInv, Published
<1> QED BY <1>1, <1>2, <1>3, <1>4, <1>5

\* A plan is at its last step if nothing is left after that.
LEMMA LastStep ==
  ASSUME NEW s \in Seq(StepName), s # <<>>
  PROVE  Len(s) > 1 <=> Tail(s) # <<>>
<1>1. Len(s) \in Nat \ {0} /\ Tail(s) \in Seq(StepName) /\ Len(Tail(s)) = Len(s) - 1 BY TailFacts
<1>2. PICK k \in Nat \ {0} : k = Len(s) BY <1>1
<1>3. \A r \in Seq(StepName) : r = <<>> <=> Len(r) = 0 OBVIOUS
<1>4. Tail(s) = <<>> <=> k - 1 = 0 BY <1>1, <1>2, <1>3
<1> QED BY <1>2, <1>4

\* A step of a call that leaves records, manifests and listeners alone keeps the invariant.
LEMMA PlainListens ==
  ASSUME OneCaller, LInv, PInv', NEW p \in Proc, LeavesAlone(p)
  PROVE  LInv'
<1>1. PICK t : t = task[p] OBVIOUS
<1>2. PICK n : n = t.name OBVIOUS
<1>3. /\ t \in Task /\ t.op \in {"apply", "start", "stop", "remove", "inspect"} /\ n \in Name
      /\ t.todo \in Seq(StepName) /\ t.todo # <<>> /\ Head(t.todo) \in Plain
      /\ n \notin errored => CallExposes(t)
      /\ Tail(t.todo) \in Seq(StepName) /\ Len(t.todo) \in Nat \ {0} /\ Len(Tail(t.todo)) = Len(t.todo) - 1
  BY <1>1, <1>2, InCall, TailFacts DEF LeavesAlone
<1>4. UNCHANGED <<store, manifests, listening>> /\ errored \cap Name \subseteq errored' BY DEF LeavesAlone
<1>5. n \notin errored' => n \notin errored BY <1>3, <1>4
<1>6. ListenersOf(n)' = ListenersOf(n) /\ Wants(n)' = Wants(n) BY <1>4 DEF ListenersOf, Wants
<1>7. \A m \in Name \ {n} : store'[m] = store[m] /\ manifests'[m] = manifests[m] /\ ListenersOf(m)' = ListenersOf(m)
  BY <1>4 DEF ListenersOf
<1>8. n \notin errored' /\ store'[n] # NoService => manifests'[n] # NoManifest
  BY <1>1, <1>2, <1>3, <1>4, <1>5, CallPublished DEF Plain
<1>9. n \notin errored =>
        /\ t.op \notin {"apply", "remove"} => ListenersOf(n) = Wants(n)
        /\ Tail(t.todo) = <<>> => t.op = "inspect"
        /\ \A u : /\ u.op = t.op /\ u.name = n /\ u.desired = t.desired /\ u.prev = t.prev
                  /\ (u.todo = Tail(t.todo) /\ u.todo # <<>>) \/ \E h \in Plain : u.todo = <<h>> \o Tail(t.todo)
                  => CallExposes(u)'
  BY <1>2, <1>3, <1>4, PlainExposes
<1>10. ASSUME NEW u, task' = [task EXCEPT ![p] = u], u.op = "idle", n \notin errored' => ListenersOf(n)' = Wants(n)'
       PROVE  LInv'
  <2>1. Shown(p, n, u) BY <1>4, <1>7, <1>8, <1>10 DEF Shown
  <2> QED BY <2>1, <1>1, <1>2, <1>3, CallListens
<1>11. ASSUME NEW u, task' = [task EXCEPT ![p] = u], u.op = t.op, u.name = n, u.desired = t.desired, u.prev = t.prev,
              u.todo # <<>>, u.todo = Tail(t.todo) \/ \E h \in Plain : u.todo = <<h>> \o Tail(t.todo)
       PROVE  LInv'
  BY <1>5, <1>9, <1>11, <1>3, <1>4, <1>7, <1>8, <1>1, <1>2, CallListens DEF Shown
<1>12. Ended(t) = Idle BY <1>3 DEF Ended
<1>13. CASE task' = [task EXCEPT ![p] = Advanced(@)]
  <2>1. CASE Len(t.todo) > 1
    <3>1. PICK u : u = [t EXCEPT !.todo = Tail(@)] OBVIOUS
    <3>2. task' = [task EXCEPT ![p] = u] BY <2>1, <3>1, <1>1, <1>13 DEF Advanced
    <3>3. u.op = t.op /\ u.name = n /\ u.desired = t.desired /\ u.prev = t.prev /\ u.todo = Tail(t.todo)
      BY <3>1, <1>2, <1>3 DEF Task
    <3>4. u.todo # <<>> BY <2>1, <3>3, <1>3, LastStep
    <3> QED BY <3>2, <3>3, <3>4, <1>11
  <2>2. CASE ~ (Len(t.todo) > 1)
    BY <2>2, <1>1, <1>12, <1>13, <1>3, <1>5, <1>6, <1>9, <1>10, LastStep, IdleFacts DEF Advanced
  <2> QED BY <2>1, <2>2
<1>14. CASE Abort(p) BY <1>1, <1>12, <1>14, <1>2, <1>5, <1>6, <1>9, <1>10, IdleFacts DEF Abort, HalfWay
<1>15. ASSUME NEW h \in Plain, NEW m, task' = [task EXCEPT ![p] = [task[p] EXCEPT !.man = m, !.todo = <<h>> \o Tail(@)]]
       PROVE  LInv'
  <2>1. PICK u : u = [t EXCEPT !.man = m, !.todo = <<h>> \o Tail(@)] OBVIOUS
  <2>2. task' = [task EXCEPT ![p] = u] BY <2>1, <1>1, <1>15
  <2>3. u.op = t.op /\ u.name = n /\ u.desired = t.desired /\ u.prev = t.prev /\ u.todo = <<h>> \o Tail(t.todo)
    BY <2>1, <1>2, <1>3 DEF Task
  <2>4. u.todo # <<>> BY <2>3, <1>3, PlanInstead DEF Plain
  <2> QED BY <2>2, <2>3, <2>4, <1>11
<1> QED BY <1>13, <1>14, <1>15 DEF LeavesAlone

\* The steps that leave records, manifests and listeners alone.
LEMMA MovesAlone ==
  ASSUME NEW p \in Caller, task[p].todo # <<>>, Head(task[p].todo) \in Plain, Continue(p) \/ Abort(p),
         UNCHANGED <<store, manifests, listening>>
  PROVE  LeavesAlone(p)
BY DEF Continue, Abort, LeavesAlone

\* The steps of the Wasmtime provider are such steps.
LEMMA EntriesAlone ==
  ASSUME PInv, NEW p \in Caller,
         Ensure(p) \/ Restore(p) \/ Spawn(p) \/ Take(p) \/ Reap(p) \/ Drop(p) \/ Build(p)
  PROVE  LeavesAlone(p)
<1>1. UNCHANGED <<store, manifests, listening>> BY DEF Ensure, Restore, Spawn, Take, Reap, Drop, Build
<1>2. task[p].todo # <<>> /\ Head(task[p].todo) \in Plain
  BY DEF Ensure, Restore, Spawn, Take, Reap, Drop, Build, At, Plain, StepName, Looks
<1>3. CASE Continue(p) \/ Abort(p) BY <1>1, <1>2, <1>3, MovesAlone
<1>4. PICK t \in Task : t = task[p] BY DEF PInv, DInv, TInv
<1>5. CASE Take(p) /\ Instead(p, "reap")
  <2>1. UNCHANGED errored /\ task' = [task EXCEPT ![p].todo = <<"reap">> \o Tail(@)] BY <1>5 DEF Instead
  <2>2. PICK r : r = <<"reap">> \o Tail(t.todo) OBVIOUS
  <2>3. PICK m : m = t.man OBVIOUS
  <2>4. [t EXCEPT !.man = m, !.todo = r] = [t EXCEPT !.todo = r] BY <2>3 DEF Task
  <2>5. task \in [Caller -> Task] BY DEF PInv, DInv, TInv
  <2>6. task' = [task EXCEPT ![p] = [t EXCEPT !.todo = r]] BY <2>1, <2>2, <2>5, <1>4
  <2>7. task' = [task EXCEPT ![p] = [task[p] EXCEPT !.man = m, !.todo = <<"reap">> \o Tail(@)]]
    BY <2>2, <2>4, <2>6, <1>4
  <2>8. "reap" \in Plain BY DEF Plain, StepName, Looks
  <2> QED BY <2>1, <2>7, <2>8, <1>1, <1>2 DEF LeavesAlone
<1>6. CASE Ensure(p) /\ ~ (Continue(p) \/ Abort(p))
  <2>1. PICK h : h = IF At(p, "ensure") THEN "restore" ELSE "try_restore" OBVIOUS
  <2>2. /\ task' = [task EXCEPT ![p] = [t EXCEPT !.man = manifests[t.name], !.todo = <<h>> \o Tail(t.todo)]]
        /\ UNCHANGED errored
    BY <2>1, <1>4, <1>6 DEF Ensure
  <2>3. PICK m : m = manifests[t.name] OBVIOUS
  <2>4. task' = [task EXCEPT ![p] = [task[p] EXCEPT !.man = m, !.todo = <<h>> \o Tail(@)]] BY <2>2, <2>3, <1>4
  <2>5. h \in Plain BY <2>1 DEF Plain, StepName, Looks
  <2> QED BY <2>2, <2>4, <2>5, <1>1, <1>2 DEF LeavesAlone
<1>7. Ensure(p) \/ (Take(p) /\ Instead(p, "reap")) \/ Continue(p) \/ Abort(p)
  BY DEF Restore, Spawn, Take, Reap, Drop, Build
<1> QED BY <1>3, <1>5, <1>6, <1>7

\* So are the requests of the Docker agent: what they take off `errored' are identifiers, not names.
LEMMA ContainersAlone ==
  ASSUME OneCaller, PInv, NEW p \in Caller,
         DockerCreate(p) \/ DockerStart(p) \/ DockerStop(p) \/ DockerRemove(p) \/ DockerInspect(p)
  PROVE  LeavesAlone(p)
<1>1. UNCHANGED <<store, manifests, listening>>
  BY DEF DockerCreate, DockerStart, DockerStop, DockerRemove, DockerInspect, Request, Tolerate
<1>2. task[p].todo # <<>> /\ Head(task[p].todo) \in Plain
  BY DEF DockerCreate, DockerStart, DockerStop, DockerRemove, DockerInspect, At, Plain, StepName, Looks
<1>3. CASE Continue(p) \/ Abort(p) BY <1>1, <1>2, <1>3, MovesAlone
<1>4. CASE \E next : /\ task' = [task EXCEPT ![p] = Advanced(@)] /\ ~ Missing(Handle(task[p]))
                     /\ errored' = IF next # "running" THEN errored \ {Handle(task[p])} ELSE errored
  <2>1. PICK t \in Task : t = task[p] BY DEF PInv, DInv, TInv
  <2>2. t.name \in Name /\ Data BY <2>1, <1>2, Active DEF Plain
  <2>3. store[t.name] # NoService => store[t.name].id \in Id BY <2>2 DEF Data, Service
  <2>4. t.id \in Id \cup {NoId} BY DEF Task
  <2>5. Handle(t) \in Id \cup {NoId} BY <2>3, <2>4 DEF Handle
  <2>6. Handle(t) \in Id BY <2>1, <2>5, <1>4 DEF Missing
  <2>7. errored \cap Name \subseteq errored' BY <2>1, <2>6, <1>4, NamesAreNotIds
  <2> QED BY <2>7, <1>1, <1>2, <1>4 DEF LeavesAlone
<1>5. DockerCreate(p) \/ DockerInspect(p) => Continue(p) \/ Abort(p) BY DEF DockerCreate, DockerInspect
<1>6. ASSUME NEW from, NEW next, Request(p, from, next)
      PROVE  \/ Continue(p) \/ Abort(p)
             \/ /\ task' = [task EXCEPT ![p] = Advanced(@)] /\ ~ Missing(Handle(task[p]))
                /\ errored' = IF next # "running" THEN errored \ {Handle(task[p])} ELSE errored
  BY <1>6 DEF Request
<1>7. DockerStart(p) \/ DockerStop(p) \/ DockerRemove(p) =>
        Continue(p) \/ Abort(p) \/ \E from, next : Request(p, from, next)
  BY DEF DockerStart, DockerStop, DockerRemove, Tolerate
<1> QED BY <1>3, <1>4, <1>5, <1>6, <1>7

\* What is left of a plan, and another first step, are of the steps the plan is of.
LEMMA PlanParts ==
  ASSUME NEW S, NEW s \in Seq(S), s # <<>>
  PROVE  Tail(s) \in Seq(S) /\ \A h \in S : <<h>> \in Seq(S) /\ <<h>> \o Tail(s) \in Seq(S)
<1>1. Tail(s) \in Seq(S) OBVIOUS
<1>2. ASSUME NEW h \in S PROVE <<h>> \in Seq(S) /\ <<h>> \o Tail(s) \in Seq(S) BY <1>1, ConcatType
<1> QED BY <1>1, <1>2

\* What is left of a service that the start restores.
LEMMA BootGoesOn ==
  ASSUME LInv, NEW t \in Task, t = task[Boot], t.op = "boot", t.todo # <<>>,
         NEW u, u \in {Advanced(t), Ended(t)} \/ \E h \in Plain : \E m : u = [t EXCEPT !.man = m, !.todo = <<h>> \o Tail(@)]
  PROVE  u.op = "boot" /\ u.found = {} /\ u.rest = t.rest /\ u.todo \in Seq(Restores)
<1>1. PICK s : s = t.todo OBVIOUS
<1>2. t.found = {} /\ s \in Seq(Restores) /\ s # <<>> BY <1>1 DEF LInv, BootWaits
<1>3. Tail(s) \in Seq(Restores) /\ \A h \in Restores : <<h>> \in Seq(Restores) /\ <<h>> \o Tail(s) \in Seq(Restores)
  BY <1>2, PlanParts
<1>4. CASE u = [t EXCEPT !.todo = Tail(@)]
  <2>1. PICK r : r = Tail(s) OBVIOUS
  <2>2. u = [t EXCEPT !.todo = r] BY <2>1, <1>1, <1>4
  <2>3. u.op = "boot" /\ u.found = {} /\ u.rest = t.rest /\ u.todo = r BY <2>2, <1>2 DEF Task
  <2> QED BY <2>1, <2>3, <1>2, <1>3
<1>5. CASE u = Ended(t)
  <2>1. PICK r : r = <<"next">> OBVIOUS
  <2>2. PICK w : w = t.rest OBVIOUS
  <2>3. u = [Idle EXCEPT !.op = "boot", !.todo = r, !.rest = w] BY <2>1, <2>2, <1>5 DEF Ended
  <2>4. u.op = "boot" /\ u.found = {} /\ u.rest = w /\ u.todo = r BY <2>3 DEF Idle
  <2>5. "next" \in Restores BY DEF Restores, StepName
  <2> QED BY <2>1, <2>2, <2>4, <2>5, <1>3
<1>6. CASE \E h \in Plain : \E m : u = [t EXCEPT !.man = m, !.todo = <<h>> \o Tail(@)]
  <2>0. PICK h \in Plain : \E m : u = [t EXCEPT !.man = m, !.todo = <<h>> \o Tail(@)] BY <1>6
  <2>1. PICK m : u = [t EXCEPT !.man = m, !.todo = <<h>> \o Tail(@)] BY <2>0
  <2>2. PICK r : r = <<h>> \o Tail(s) OBVIOUS
  <2>3. u = [t EXCEPT !.man = m, !.todo = r] BY <2>1, <2>2, <1>1
  <2>4. u.op = "boot" /\ u.found = {} /\ u.rest = t.rest /\ u.todo = r BY <2>3, <1>2 DEF Task
  <2>5. h \in Restores BY DEF Restores, Plain, Looks
  <2> QED BY <2>2, <2>4, <2>5, <1>3
<1> QED BY <1>4, <1>5, <1>6 DEF Advanced

\* While the start restores a service it exposes nothing and forgets none that is on record.
LEMMA BootListens ==
  ASSUME OneCaller, LInv, PInv', NEW t \in Task, t = task[Boot], t.op = "boot",
         NEW u, u.op = "boot", u.found = {}, u.todo \in Seq(Restores),
         task' = [task EXCEPT ![Boot] = u], UNCHANGED listening, Published'
  PROVE  LInv'
<1>1. /\ Boot \in Caller /\ task \in [Caller -> Task] /\ BootInv /\ Boot \notin Proc /\ Proc \subseteq Caller
  BY RuntimeAssumption DEF LInv, PInv, DInv, TInv, Caller
<1>2. task'[Boot] = u /\ \A p \in Proc : task'[p] = task[p] BY <1>1
<1>3. \A p \in Proc : task'[p].op = "idle" BY <1>1, <1>2, IdleFacts DEF BootInv
<1>4. listening' = {} BY DEF LInv, BootWaits
<1>5. BootWaits' BY <1>2, <1>4 DEF BootWaits
<1>6. MetStart' BY <1>3 DEF MetStart
<1>7. \A n \in Name : BootExposes(n)' BY <1>2 DEF BootExposes
<1> QED BY <1>3, <1>5, <1>6, <1>7 DEF LInv

\* The services on record stay published, or yet to be restored.
LEMMA BootPublishes ==
  ASSUME LInv, NEW t \in Task, t = task[Boot], t.op = "boot", NEW u, u.rest = t.rest,
         task' = [task EXCEPT ![Boot] = u], errored \cap Name \subseteq errored',
         \A n \in Name : /\ store'[n] # NoService => store[n] # NoService
                         /\ manifests[n] # NoManifest => manifests'[n] # NoManifest,
         At(Boot, "publish") => manifests'[t.name] # NoManifest
  PROVE  Published'
<1>1. /\ Boot \in Caller /\ task \in [Caller -> Task] /\ BootInv BY DEF LInv, PInv, DInv, TInv, Caller
<1>2. task'[Boot] = u BY <1>1
<1>3. \A p \in Proc : ~ At(p, "forget") BY <1>1, IdleFacts DEF BootInv, At
<1>4. ~ At(Boot, "forget") BY <1>1, AtFacts DEF LInv, PInv, DInv
<1>5. ASSUME NEW n \in Name, n \notin errored', store'[n] # NoService
      PROVE  manifests'[n] # NoManifest \/ n \in task'[Boot].rest
  <2>1. n \notin errored /\ store[n] # NoService BY <1>5
  <2>2. PICK x \in BOOLEAN : x <=> (manifests[n] # NoManifest \/ n \in task[Boot].rest) OBVIOUS
  <2>3. x \/ \E q \in Caller : task[q].name = n /\ ((q = Boot /\ At(q, "publish")) \/ At(q, "forget"))
    BY <2>1, <2>2 DEF LInv, Published
  <2>4. x \/ (t.name = n /\ At(Boot, "publish")) BY <2>3, <1>3, <1>4 DEF Caller
  <2> QED BY <2>2, <2>4, <1>2
<1> QED BY <1>5 DEF Published

\* A step of the start that restores a service.
LEMMA BootRestores ==
  ASSUME OneCaller, LInv, PInv', Step(Boot)
  PROVE  LInv'
<1>1. Boot \in Caller /\ task \in [Caller -> Task] /\ BootInv /\ TInv /\ Data
  BY DEF LInv, PInv, DInv, TInv, Caller, Variables
<1>2. PICK t \in Task : t = task[Boot] BY <1>1
<1>3. ~ At(Boot, "resolve") /\ ~ At(Boot, "persist") BY <1>2 DEF LInv, PInv, DInv, BootFits, At, Installing
<1>4. ~ At(Boot, "forget") /\ ~ At(Boot, "unpublish")
  <2>1. t.todo \in Seq(StepName) BY DEF Task
  <2>2. Has(t.todo, {"forget", "unpublish"}) => t.op = "remove" BY <1>1, <1>2 DEF LInv, PInv, CallShape
  <2>3. t.op # "remove" BY <1>1, <1>2 DEF BootInv
  <2>4. t.todo # <<>> /\ Head(t.todo) \in {"forget", "unpublish"} => Has(t.todo, {"forget", "unpublish"})
    BY <2>1, PlanTail
  <2> QED BY <1>2, <2>2, <2>3, <2>4 DEF At
<1>5. CASE t.op = "idle"
  <2>1. t.todo \in {<<"list_running", "list_desired">>, <<"list_desired">>, <<>>} BY <1>2, <1>5 DEF LInv, BootWaits
  <2>2. \A s : At(Boot, s) => s \in {"list_running", "list_desired"} BY <2>1, <1>2 DEF At
  <2> QED
    BY <2>2 DEF Step, Resolve, Ensure, Restore, Spawn, Desire, Take, Reap, Drop, Build, Publish, Persist,
                Unpublish, Forget, Unlisten, Listen, DockerCreate, DockerStart, DockerStop, DockerRemove, DockerInspect
<1>6. CASE t.op = "boot"
  <2>1. ~ At(Boot, "listen") /\ ~ At(Boot, "unlisten") BY <1>2, <1>6 DEF LInv, BootWaits, At, Restores
  <2>2. ASSUME NEW u, u \in {Advanced(t), Ended(t)} \/ (\E h \in Plain : \E m : u = [t EXCEPT !.man = m, !.todo = <<h>> \o Tail(@)]),
               t.todo # <<>>, task' = [task EXCEPT ![Boot] = u], UNCHANGED listening, errored \cap Name \subseteq errored',
               \A n \in Name : /\ store'[n] # NoService => store[n] # NoService
                               /\ manifests[n] # NoManifest => manifests'[n] # NoManifest,
               At(Boot, "publish") => manifests'[t.name] # NoManifest
        PROVE  LInv'
    BY <2>2, <1>2, <1>6, BootGoesOn, BootPublishes, BootListens
  <2>3. CASE LeavesAlone(Boot)
    <3>1. /\ t.todo # <<>> /\ Head(t.todo) \in Plain
          /\ UNCHANGED <<store, manifests, listening>> /\ errored \cap Name \subseteq errored'
      BY <2>3, <1>2 DEF LeavesAlone
    <3>2. ~ At(Boot, "publish") BY <3>1, <1>2 DEF At, Plain
    <3>3. PICK u : /\ u \in {Advanced(t), Ended(t)} \/ \E h \in Plain : \E m : u = [t EXCEPT !.man = m, !.todo = <<h>> \o Tail(@)]
                   /\ task' = [task EXCEPT ![Boot] = u]
      BY <2>3, <1>2 DEF LeavesAlone, Abort
    <3> QED BY <3>1, <3>2, <3>3, <2>2
  <2>4. CASE Publish(Boot)
    <3>1. t.todo # <<>> /\ Continue(Boot) /\ manifests' = [manifests EXCEPT ![t.name] = t.man] /\ UNCHANGED <<store, listening>>
      BY <2>4, <1>2 DEF Publish, At
    <3>2. t.name \in Name /\ t.man \in Manifest BY <2>4, <1>1, <1>2, AtFacts DEF Publish, Loose, Installs
    <3>3. \A n \in Name : manifests[n] # NoManifest => manifests'[n] # NoManifest
      BY <3>1, <3>2, <1>1, RuntimeAssumption DEF Data
    <3>4. manifests'[t.name] # NoManifest BY <3>1, <3>2, <1>1, RuntimeAssumption DEF Data
    <3>5. PICK u : u = Advanced(t) OBVIOUS
    <3>6. task' = [task EXCEPT ![Boot] = u] /\ UNCHANGED errored BY <3>1, <3>5, <1>2 DEF Continue
    <3> QED BY <3>1, <3>3, <3>4, <3>5, <3>6, <2>2
  <2>5. CASE Desire(Boot)
    <3>1. t.todo # <<>> /\ ~ At(Boot, "publish") /\ t.name \in Name /\ UNCHANGED <<manifests, listening>>
      BY <2>5, <1>1, <1>2, AtFacts DEF Desire, Loose, At
    <3>2. Continue(Boot) \/ Abort(Boot) BY <2>5 DEF Desire, Save
    <3>3. errored \subseteq errored' BY <3>2 DEF Continue, Abort
    <3>4. PICK u : u \in {Advanced(t), Ended(t)} /\ task' = [task EXCEPT ![Boot] = u]
      BY <3>2, <1>2 DEF Continue, Abort
    <3>5. \A n \in Name : store'[n] # NoService => store[n] # NoService BY <2>5, <1>2, <1>1 DEF Desire, Save, Data
    <3> QED BY <3>1, <3>3, <3>4, <3>5, <2>2
  <2>6. LeavesAlone(Boot) \/ Publish(Boot) \/ Desire(Boot)
    BY <2>1, <1>3, <1>4, <1>1, EntriesAlone, ContainersAlone DEF Resolve, Persist, Unpublish, Forget, Unlisten,
       Listen, LInv, Step
  <2> QED BY <2>3, <2>4, <2>5, <2>6
<1> QED BY <1>1, <1>2, <1>5, <1>6 DEF BootInv

\* What the start is at.
LEMMA BootAt ==
  ASSUME LInv, NEW t, t = task[Boot]
  PROVE  /\ t \in Task /\ t.op \in {"idle", "boot"} /\ Boot \in Caller /\ task \in [Caller -> Task] /\ BootInv
         /\ Boot \notin Proc /\ Proc \subseteq Caller
         /\ t.op = "idle" => t.todo \in {<<"list_running", "list_desired">>, <<"list_desired">>, <<>>} /\ t.rest = {}
         /\ t.op = "boot" => listening = {} /\ t.found = {} /\ t.todo \in Seq(Restores)
         /\ At(Boot, "next") => t.op = "boot" /\ ~ At(Boot, "publish") /\ ~ At(Boot, "forget")
         /\ t.op = "idle" => ~ At(Boot, "publish") /\ ~ At(Boot, "forget")
         /\ t.op = "boot" => \A p \in Proc : task[p] = Idle
<1>1. /\ Boot \in Caller /\ task \in [Caller -> Task] /\ BootInv /\ Boot \notin Proc /\ Proc \subseteq Caller
  BY RuntimeAssumption DEF LInv, PInv, DInv, TInv, Caller
<1>2. /\ t.op = "idle" => t.todo \in {<<"list_running", "list_desired">>, <<"list_desired">>, <<>>}
      /\ t.op = "boot" => listening = {} /\ t.found = {} /\ t.todo \in Seq(Restores)
  BY DEF LInv, BootWaits
<1>3. t.op = "idle" => \A s : At(Boot, s) => s \in {"list_running", "list_desired"} BY <1>2 DEF At
<1>4. t.op \in {"idle", "boot"} /\ (t.op = "idle" => t.rest = {}) /\ (t.op = "boot" => \A p \in Proc : task[p] = Idle)
  BY <1>1 DEF BootInv
<1>5. At(Boot, "next") => ~ At(Boot, "publish") /\ ~ At(Boot, "forget") BY DEF At
<1> QED BY <1>1, <1>2, <1>3, <1>4, <1>5

\* The plan of a service that is restored.
LEMMA BootPlanRestores ==
  ASSUME NEW m, NEW d
  PROVE  BootPlan(m, d) \in Seq(Restores)
<1>1. {"ensure", "spawn", "desire", "docker_start"} \subseteq Restores /\ "publish" \in Restores /\ "try_restore" \in Restores
  BY DEF Restores, StepName
<1>2. PICK a : a = IF Wasm(m) THEN <<"try_restore">> ELSE <<>> OBVIOUS
<1>3. PICK b : b = IF d = "running" THEN StartPlan(m) ELSE <<>> OBVIOUS
<1>4. <<"publish">> \in Seq(Restores) /\ <<"try_restore">> \in Seq(Restores) /\ <<>> \in Seq(Restores) BY <1>1
<1>5. StartPlan(m) \in Seq(Restores) BY <1>1, StartPlanFacts, WiderPlan
<1>6. a \in Seq(Restores) /\ b \in Seq(Restores) BY <1>2, <1>3, <1>4, <1>5
<1>7. BootPlan(m, d) = (<<"publish">> \o a) \o b BY <1>2, <1>3 DEF BootPlan
<1>8. <<"publish">> \o a \in Seq(Restores) BY <1>4, <1>6, ConcatType
<1> QED BY <1>6, <1>7, <1>8, ConcatType

\* The start turns to the next service.
LEMMA BootNextListens ==
  ASSUME OneCaller, LInv, PInv', NEW n \in Name, BootNext(n)
  PROVE  LInv'
<1>1. PICK t : t = task[Boot] OBVIOUS
<1>2. /\ t \in Task /\ t.op = "boot" /\ Boot \in Caller /\ task \in [Caller -> Task]
      /\ ~ At(Boot, "publish") /\ \A p \in Caller : ~ At(p, "forget")
  BY <1>1, BootAt, IdleFacts DEF BootNext, At, Caller
<1>3. PICK r : r = t.rest \ {n} OBVIOUS
<1>4. PICK w : w = BootPlan(store[n].man, store[n].desired) OBVIOUS
<1>5. PICK m : m = store[n].man OBVIOUS
<1>6. PICK d : d = store[n].desired OBVIOUS
<1>7. PICK u : u = [t EXCEPT !.rest = r, !.name = n, !.man = m, !.desired = d, !.todo = w] OBVIOUS
<1>8. task' = [task EXCEPT ![Boot] = u] /\ UNCHANGED <<store, manifests, listening, errored>>
  BY <1>1, <1>3, <1>4, <1>5, <1>6, <1>7 DEF BootNext, BootPlan
<1>9. u.op = "boot" /\ u.found = t.found /\ u.todo = w /\ u.name = n /\ u.rest = r BY <1>2, <1>7 DEF Task
<1>10. u.found = {} /\ u.todo \in Seq(Restores) BY <1>1, <1>2, <1>4, <1>9, BootPlanRestores DEF LInv, BootWaits
<1>11. task'[Boot] = u BY <1>2, <1>8
<1>12. At(Boot, "publish")'
  <2>1. w # <<>> /\ Head(w) = "publish"
    <3>1. PICK a : a = IF Wasm(m) THEN <<"try_restore">> ELSE <<>> OBVIOUS
    <3>2. PICK b : b = IF d = "running" THEN StartPlan(m) ELSE <<>> OBVIOUS
    <3>3. a \in Seq(StepName) /\ b \in Seq(StepName) /\ <<"publish">> \in Seq(StepName)
      <4>1. <<"publish">> \in Seq(StepName) /\ <<"try_restore">> \in Seq(StepName) /\ <<>> \in Seq(StepName)
        BY DEF StepName
      <4>2. StartPlan(m) \in Seq(StepName) BY StartPlanFacts
      <4> QED BY <3>1, <3>2, <4>1, <4>2
    <3>4. w = (<<"publish">> \o a) \o b BY <3>1, <3>2, <1>4, <1>5, <1>6 DEF BootPlan
    <3> QED BY <3>3, <3>4
  <2> QED BY <2>1, <1>9, <1>11 DEF At
<1>13. Published'
  <2> SUFFICES ASSUME NEW k \in Name, k \notin errored', store'[k] # NoService
               PROVE  \/ manifests'[k] # NoManifest
                      \/ k \in task'[Boot].rest
                      \/ task'[Boot].name = k /\ At(Boot, "publish")'
    BY <1>2 DEF Published
  <2>1. PICK x \in BOOLEAN : x <=> (manifests[k] # NoManifest \/ k \in task[Boot].rest) OBVIOUS
  <2>2. x \/ \E q \in Caller : task[q].name = k /\ ((q = Boot /\ At(q, "publish")) \/ At(q, "forget"))
    BY <1>8, <2>1 DEF LInv, Published
  <2>3. x BY <2>2, <1>2
  <2> QED BY <2>1, <2>3, <1>1, <1>3, <1>8, <1>9, <1>11, <1>12
<1> QED BY <1>1, <1>2, <1>8, <1>9, <1>10, <1>13, BootListens

\* The start has restored all services.
LEMMA BootRestoredListens ==
  ASSUME OneCaller, LInv, PInv', BootRestored
  PROVE  LInv'
<1>1. PICK t : t = task[Boot] OBVIOUS
<1>2. /\ t.op = "boot" /\ Boot \in Caller /\ task \in [Caller -> Task] /\ Boot \notin Proc /\ Proc \subseteq Caller
      /\ ~ At(Boot, "publish") /\ \A p \in Caller : ~ At(p, "forget")
      /\ \A p \in Proc : task[p] = Idle
      /\ listening = {}
  BY <1>1, BootAt, IdleFacts DEF BootRestored, At, Caller
<1>3. PICK w : w = <<"list_running", "list_desired">> OBVIOUS
<1>4. PICK u : u = [Idle EXCEPT !.todo = w] OBVIOUS
<1>5. task' = [task EXCEPT ![Boot] = u] /\ UNCHANGED <<store, manifests, listening, errored>> /\ t.rest = {}
  BY <1>1, <1>3, <1>4 DEF BootRestored
<1>6. u.op = "idle" /\ u.todo = w /\ u.found = {} BY <1>4 DEF Idle
<1>7. task'[Boot] = u /\ \A p \in Proc : task'[p].op = "idle" BY <1>2, <1>5, IdleFacts
<1>8. Published'
  <2> SUFFICES ASSUME NEW k \in Name, k \notin errored', store'[k] # NoService
               PROVE  manifests'[k] # NoManifest
    BY DEF Published
  <2>1. PICK x \in BOOLEAN : x <=> manifests[k] # NoManifest OBVIOUS
  <2>2. x \/ k \in task[Boot].rest \/ \E q \in Caller : task[q].name = k /\ ((q = Boot /\ At(q, "publish")) \/ At(q, "forget"))
    BY <1>5, <2>1 DEF LInv, Published
  <2> QED BY <2>1, <2>2, <1>1, <1>2, <1>5
<1>9. BootWaits' /\ MetStart' BY <1>3, <1>6, <1>7 DEF BootWaits, MetStart
<1>10. ASSUME NEW n \in Name PROVE BootExposes(n)' BY <1>2, <1>5, <1>3, <1>6, <1>7 DEF ListenersOf, BootExposes
<1> QED BY <1>7, <1>8, <1>9, <1>10 DEF LInv

\* While the start looks for endpoints to listen on, all calls are on record as errored.
LEMMA BootLooksOn ==
  ASSUME OneCaller, LInv, PInv', NEW t, t = task[Boot], t.op = "idle", ~ Started,
         NEW u, u.op = "idle", u.rest = t.rest, u.todo \in {<<"list_running", "list_desired">>, <<"list_desired">>, <<>>},
         task' = [task EXCEPT ![Boot] = u], UNCHANGED <<store, manifests>>, errored \subseteq errored',
         \A n \in Name : n \notin errored' /\ ~ Busy(n) => BootExposes(n)'
  PROVE  LInv'
<1>1. /\ Boot \in Caller /\ task \in [Caller -> Task] /\ Boot \notin Proc /\ Proc \subseteq Caller
      /\ ~ At(Boot, "publish") /\ ~ At(Boot, "forget") /\ t.rest = {}
  BY BootAt
<1>2. task'[Boot] = u /\ \A p \in Proc : task'[p] = task[p] BY <1>1
<1>3. \A p \in Proc : task[p].op # "idle" => task[p].name \in errored' BY DEF LInv, MetStart
<1>4. MetStart' /\ BootWaits' BY <1>2, <1>3 DEF MetStart, BootWaits
<1>5. \A p \in Proc : task'[p].op # "idle" =>
        /\ task'[p].name \in Name /\ task'[p].todo # <<>>
        /\ task'[p].name \in errored'
  BY <1>2, <1>3 DEF LInv
<1>6. \A n \in Name : Busy(n)' <=> Busy(n) BY <1>2 DEF Busy
<1>7. Published'
  <2> SUFFICES ASSUME NEW k \in Name, k \notin errored', store'[k] # NoService
               PROVE  \/ manifests'[k] # NoManifest
                      \/ \E q \in Caller : task'[q].name = k /\ At(q, "forget")'
    BY DEF Published
  <2>1. PICK x \in BOOLEAN : x <=> manifests[k] # NoManifest OBVIOUS
  <2>2. x \/ k \in task[Boot].rest \/ \E q \in Caller : task[q].name = k /\ ((q = Boot /\ At(q, "publish")) \/ At(q, "forget"))
    BY <2>1 DEF LInv, Published
  <2>3. x \/ \E q \in Proc : task[q].name = k /\ At(q, "forget") BY <2>2, <1>1 DEF Caller
  <2>4. \A q \in Proc : At(q, "forget") => At(q, "forget")' BY <1>2 DEF At
  <2> QED BY <2>1, <2>3, <2>4, <1>1, <1>2
<1> QED BY <1>4, <1>5, <1>6, <1>7 DEF LInv

\* What services run has no part in what the listeners are for.
LEMMA SameListens ==
  ASSUME LInv, PInv', UNCHANGED <<store, manifests, listening, task, errored>>
  PROVE  LInv'
<1>1. Published' /\ BootWaits' /\ MetStart' BY DEF LInv, Published, BootWaits, MetStart, Started, At
<1>2. \A n \in Name : BootExposes(n)' <=> BootExposes(n) BY DEF BootExposes, ListenersOf, Found, Wants
<1>3. \A n \in Name : Busy(n)' <=> Busy(n) BY DEF Busy
<1>4. ASSUME NEW p \in Proc PROVE CallExposes(task[p])' <=> CallExposes(task[p])
  BY DEF CallExposes, ApplyExposes, ListenersOf, Wants
<1> QED BY <1>1, <1>2, <1>3, <1>4 DEF LInv

\* What the start finds running is on record as desired to run, or the service is in doubt.
LEMMA BootListRunningListens ==
  ASSUME OneCaller, LInv, PInv', BootListRunning
  PROVE  LInv'
<1>1. PICK t : t = task[Boot] OBVIOUS
<1>2. PICK seen \in SUBSET {n \in Name : Running(n)} :
        /\ Find(UNION {EndpointsAs(n, manifests[n]) : n \in seen})
        /\ errored' = errored \cup {n \in seen : store[n] # NoService /\ store[n].desired = "stopped"}
  BY DEF BootListRunning
<1>3. PICK found : found = UNION {EndpointsAs(n, manifests[n]) : n \in seen} OBVIOUS
<1>4. At(Boot, "list_running") /\ UNCHANGED <<store, manifests, listening>> BY DEF BootListRunning
<1>5. /\ t \in Task /\ t.op = "idle" /\ t.todo = <<"list_running", "list_desired">> /\ t.rest = {}
      /\ Boot \in Caller /\ task \in [Caller -> Task]
  BY <1>1, <1>4, BootAt DEF Restores, At
<1>6. PICK w : w = <<"list_desired">> OBVIOUS
<1>7. PICK u : u = [t EXCEPT !.todo = w, !.found = found] OBVIOUS
<1>8. task' = [task EXCEPT ![Boot] = u]
  <2>1. Tail(t.todo) = w BY <1>5, <1>6
  <2> QED BY <2>1, <1>1, <1>2, <1>3, <1>7 DEF Find
<1>9. u.op = "idle" /\ u.rest = t.rest /\ u.todo = w /\ u.found = found BY <1>5, <1>7 DEF Task
<1>10. task'[Boot] = u BY <1>5, <1>8
<1>11. ASSUME NEW n \in Name, n \notin errored', ~ Busy(n)
       PROVE  BootExposes(n)'
  <2>1. ListenersOf(n) = {} BY <1>1, <1>2, <1>5, <1>11 DEF LInv, BootExposes
  <2>2. ASSUME NEW e \in found, e[1] = n
        PROVE  e \in Wants(n)
    <3>1. PICK k \in seen : e \in EndpointsAs(k, manifests[k]) BY <1>3
    <3>2. k = n /\ manifests[n] # NoManifest BY <2>2, <3>1 DEF EndpointsAs
    <3>3. \A p \in Caller : ~ (At(p, "persist") /\ task[p].name = n)
      <4>1. ~ At(Boot, "persist") BY <1>1, <1>5 DEF At
      <4>2. ASSUME NEW p \in Proc, task[p].name = n PROVE ~ At(p, "persist")
        BY <4>2, <1>11, IdleFacts DEF Busy, LInv, PInv, DInv, TInv, BootInv, At
      <4> QED BY <4>1, <4>2 DEF Caller
    <3>4. store[n] # NoService /\ store[n].man = manifests[n] BY <3>2, <3>3 DEF LInv, PInv, Wanted, Agreed
    <3>5. store[n].desired \in {"running", "stopped"}
      BY <3>4 DEF LInv, PInv, DInv, TInv, Variables, Data, Service, DesiredState
    <3>6. store[n].desired = "running" BY <1>2, <1>11, <3>2, <3>4, <3>5
    <3> QED BY <3>1, <3>2, <3>4, <3>6 DEF Wants
  <2>3. Found(n)' \subseteq Wants(n) BY <2>2, <1>9, <1>10 DEF Found
  <2>4. ListenersOf(n)' = {} /\ Wants(n)' = Wants(n) BY <2>1, <1>4 DEF ListenersOf, Wants
  <2>5. w # <<"list_running", "list_desired">> /\ w # <<>> BY <1>6
  <2> QED BY <2>3, <2>4, <2>5, <1>9, <1>10 DEF BootExposes
<1>12. ~ Started BY <1>1, <1>5, IdleFacts DEF Started
<1>13. errored \subseteq errored' BY <1>2
<1> QED BY <1>1, <1>4, <1>5, <1>6, <1>8, <1>9, <1>11, <1>12, <1>13, BootLooksOn

\* All services on record as desired to run are to be exposed.
LEMMA BootListDesiredListens ==
  ASSUME OneCaller, LInv, PInv', BootListDesired
  PROVE  LInv'
<1>1. PICK t : t = task[Boot] OBVIOUS
<1>2. PICK wanted : wanted = {k \in Name : store[k] # NoService /\ store[k].desired = "running"} OBVIOUS
<1>3. PICK found : found = UNION {EndpointsAs(n, store[n].man) : n \in wanted} OBVIOUS
<1>4. At(Boot, "list_desired") /\ Find(found) /\ UNCHANGED <<store, manifests, listening, errored>>
  BY <1>2, <1>3 DEF BootListDesired
<1>5. /\ t \in Task /\ t.op = "idle" /\ t.todo = <<"list_desired">> /\ t.rest = {}
      /\ Boot \in Caller /\ task \in [Caller -> Task]
  BY <1>1, <1>4, BootAt DEF Restores, At
<1>6. PICK w : w = <<>> OBVIOUS
<1>7. PICK u : u = [t EXCEPT !.todo = w, !.found = found] OBVIOUS
<1>8. task' = [task EXCEPT ![Boot] = u]
  <2>1. Tail(t.todo) = w BY <1>5, <1>6
  <2> QED BY <2>1, <1>1, <1>4, <1>7 DEF Find
<1>9. u.op = "idle" /\ u.rest = t.rest /\ u.todo = w /\ u.found = found BY <1>5, <1>7 DEF Task
<1>10. task'[Boot] = u BY <1>5, <1>8
<1>11. ASSUME NEW n \in Name, n \notin errored', ~ Busy(n)
       PROVE  BootExposes(n)'
  <2>1. ListenersOf(n) \subseteq Wants(n) BY <1>1, <1>4, <1>5, <1>11 DEF LInv, BootExposes
  <2>2. {l \in found : l[1] = n} = Wants(n)
    <3>1. ASSUME NEW e \in found, e[1] = n PROVE e \in Wants(n)
      <4>1. PICK k \in wanted : e \in EndpointsAs(k, store[k].man) BY <1>3
      <4>2. k = n BY <3>1, <4>1 DEF EndpointsAs
      <4> QED BY <4>1, <4>2, <1>2 DEF Wants
    <3>2. ASSUME NEW e \in Wants(n) PROVE e \in found /\ e[1] = n BY <3>2, <1>2, <1>3 DEF Wants, EndpointsAs
    <3> QED BY <3>1, <3>2
  <2>3. Found(n)' = Wants(n) BY <2>2, <1>9, <1>10 DEF Found
  <2>4. ListenersOf(n)' = ListenersOf(n) /\ Wants(n)' = Wants(n) BY <1>4 DEF ListenersOf, Wants
  <2>5. w # <<"list_running", "list_desired">> /\ w # <<"list_desired">> BY <1>6
  <2> QED BY <2>1, <2>3, <2>4, <2>5, <1>9, <1>10 DEF BootExposes
<1>12. ~ Started BY <1>1, <1>5, IdleFacts DEF Started
<1> QED BY <1>1, <1>4, <1>5, <1>6, <1>8, <1>9, <1>11, <1>12, BootLooksOn

\* The start listens on an endpoint it has found.
LEMMA BootListenListens ==
  ASSUME OneCaller, LInv, PInv', BootListen
  PROVE  LInv'
<1>1. PICK t : t = task[Boot] OBVIOUS
<1>2. PICK e \in t.found :
        /\ task' = [task EXCEPT ![Boot].found = @ \ {e}]
        /\ \/ listening' = listening \cup {e} /\ UNCHANGED errored
           \/ errored' = errored \cup {e[1]} /\ UNCHANGED listening
  BY <1>1 DEF BootListen
<1>3. UNCHANGED <<store, manifests>> BY DEF BootListen
<1>4. /\ t \in Task /\ t.op = "idle" /\ t.rest = {} /\ Boot \in Caller /\ task \in [Caller -> Task]
      /\ t.todo \in {<<"list_running", "list_desired">>, <<"list_desired">>, <<>>}
  BY <1>1, <1>2, BootAt
<1>5. PICK found : found = t.found \ {e} OBVIOUS
<1>6. PICK u : u = [t EXCEPT !.found = found] OBVIOUS
<1>7. task' = [task EXCEPT ![Boot] = u] BY <1>1, <1>2, <1>4, <1>5, <1>6
<1>8. u.op = "idle" /\ u.rest = t.rest /\ u.todo = t.todo /\ u.found = found BY <1>4, <1>6 DEF Task
<1>9. task'[Boot] = u BY <1>4, <1>7
<1>10. errored \subseteq errored' BY <1>2
<1>11. ASSUME NEW n \in Name, n \notin errored', ~ Busy(n)
       PROVE  BootExposes(n)'
  <2>1. BootExposes(n) /\ t.todo # <<"list_running", "list_desired">>
    BY <1>1, <1>2, <1>4, <1>10, <1>11 DEF LInv, BootExposes
  <2>2. ListenersOf(n)' \cup Found(n)' = ListenersOf(n) \cup Found(n)
    <3>1. CASE listening' = listening \cup {e} BY <3>1, <1>1, <1>2, <1>5, <1>8, <1>9 DEF ListenersOf, Found
    <3>2. CASE errored' = errored \cup {e[1]} /\ UNCHANGED listening
      BY <3>2, <1>1, <1>5, <1>8, <1>9, <1>11 DEF ListenersOf, Found
    <3> QED BY <3>1, <3>2, <1>2
  <2>3. Wants(n)' = Wants(n) BY <1>3 DEF Wants
  <2> QED BY <2>1, <2>2, <2>3, <1>1, <1>4, <1>8, <1>9 DEF BootExposes
<1>12. ~ Started BY <1>1, <1>2, IdleFacts DEF Started
<1> QED BY <1>1, <1>3, <1>4, <1>7, <1>8, <1>10, <1>11, <1>12, BootLooksOn

\* Before the start has restored anything, nothing is exposed.
LEMMA InitListens == Init => LInv
<1> SUFFICES ASSUME Init PROVE LInv OBVIOUS
<1>1. PInv BY InitKnows
<1>2. PICK u : u = BootTask OBVIOUS
<1>3. u.op = "boot" /\ u.todo = <<"next">> /\ u.found = {} BY <1>2 DEF BootTask, Idle
<1>4. /\ Boot \in Caller /\ Boot \notin Proc /\ Proc \subseteq Caller
      /\ task[Boot] = u /\ \A p \in Proc : task[p].op = "idle"
  BY <1>2, RuntimeAssumption, IdleFacts DEF Init, Caller
<1>5. u.todo \in Seq(Restores) BY <1>3 DEF Restores, StepName
<1>6. BootWaits /\ MetStart /\ \A n \in Name : BootExposes(n)
  BY <1>3, <1>4, <1>5 DEF Init, BootWaits, MetStart, BootExposes
<1>7. Published BY DEF Init, Published
<1> QED BY <1>1, <1>4, <1>6, <1>7 DEF LInv

\* After a crash the services on record are yet to be restored.
LEMMA RestartListens ==
  ASSUME PInv', Restart
  PROVE  LInv'
<1>1. PICK D \in CrashDirs :
        /\ store' = Loaded(D)
        /\ task' = [p \in Caller |-> IF p # Boot THEN Idle ELSE
             [BootTask EXCEPT !.rest = {n \in Name : Loaded(D)[n] # NoService}]]
  BY DEF Restart
<1>2. PICK R : R = {n \in Name : Loaded(D)[n] # NoService} OBVIOUS
<1>3. PICK u : u = [BootTask EXCEPT !.rest = R] OBVIOUS
<1>4. u.op = "boot" /\ u.todo = <<"next">> /\ u.found = {} /\ u.rest = R BY <1>3 DEF BootTask, Idle
<1>5. /\ Boot \in Caller /\ Boot \notin Proc /\ Proc \subseteq Caller
      /\ task'[Boot] = u /\ \A p \in Proc : task'[p].op = "idle"
  BY <1>1, <1>2, <1>3, RuntimeAssumption, IdleFacts DEF Caller
<1>6. u.todo \in Seq(Restores) BY <1>4 DEF Restores, StepName
<1>7. BootWaits' /\ MetStart' /\ \A n \in Name : BootExposes(n)'
  BY <1>4, <1>5, <1>6 DEF Restart, BootWaits, MetStart, BootExposes
<1>8. \A n \in Name : store'[n] # NoService => n \in task'[Boot].rest BY <1>1, <1>2, <1>4, <1>5
<1>9. Published' BY <1>8 DEF Published
<1> QED BY <1>5, <1>7, <1>9 DEF LInv

\* What a call finds of its service when no other is in progress: it is exposed as it is to be.
LEMMA ExposedBefore ==
  ASSUME OneCaller, LInv, NEW p \in Proc, Serving, task[p].op = "idle", Started, NEW n \in Name, n \notin errored
  PROVE  ListenersOf(n) = Wants(n)
<1>1. ~ Busy(n) BY DEF Busy, OneCaller
<1>2. BootExposes(n) /\ task[Boot].op = "idle" /\ task[Boot].todo = <<>> /\ task[Boot].found = {}
  BY <1>1, IdleFacts DEF LInv, Started
<1>3. Found(n) = {} BY <1>2 DEF Found
<1>4. <<>> # <<"list_running", "list_desired">> /\ <<>> # <<"list_desired">> OBVIOUS
<1> QED BY <1>2, <1>3, <1>4 DEF BootExposes

\* A call begins.
LEMMA BeginListens ==
  ASSUME OneCaller, LInv, PInv', NEW p \in Proc, NEW n \in Name, NEW t, Begin(p, t), t.op # "idle", t.name = n, t.todo # <<>>,
         Started /\ n \notin errored => CallExposes(t)'
  PROVE  LInv'
<1>1. /\ Boot \notin Proc /\ p \in Caller /\ Boot \in Caller /\ p # Boot
      /\ \A q \in Proc : q = p
      /\ task \in [Caller -> Task]
  BY RuntimeAssumption DEF OneCaller, Caller, LInv, PInv, DInv, TInv
<1>2. /\ task[p].op = "idle" /\ task[Boot].op = "idle" /\ task' = [task EXCEPT ![p] = t]
      /\ errored' = (IF Started THEN errored ELSE errored \cup {n})
      /\ UNCHANGED <<store, manifests, listening>>
  BY DEF Begin, Serving
<1>3. task'[p] = t /\ task'[Boot] = task[Boot] /\ (Started' <=> Started) BY <1>1, <1>2 DEF Started
<1>4. Published'
  <2> SUFFICES ASSUME NEW k \in Name, k \notin errored', store'[k] # NoService
               PROVE  manifests'[k] # NoManifest
    BY DEF Published
  <2>1. PICK x \in BOOLEAN : x <=> manifests[k] # NoManifest OBVIOUS
  <2>2. k \notin errored BY <1>2
  <2>3. x \/ k \in task[Boot].rest \/ \E q \in Caller : task[q].name = k /\ ((q = Boot /\ At(q, "publish")) \/ At(q, "forget"))
    BY <1>2, <2>1, <2>2 DEF LInv, Published
  <2>4. task[Boot].rest = {} /\ ~ At(Boot, "publish") /\ ~ At(Boot, "forget") BY <1>2, BootAt
  <2>5. ~ At(p, "forget") BY <1>2, IdleFacts DEF LInv, PInv, DInv, TInv, BootInv, At
  <2> QED BY <2>1, <2>3, <2>4, <2>5, <1>1, <1>2 DEF Caller
<1>5. BootWaits' BY <1>2, <1>3 DEF LInv, BootWaits
<1>6. MetStart' BY <1>1, <1>2, <1>3 DEF MetStart
<1>7. ASSUME NEW q \in Proc
      PROVE  /\ task'[q].name \in Name /\ task'[q].todo # <<>>
             /\ task'[q].name \notin errored' => CallExposes(task[q])'
  BY <1>1, <1>3, <1>2
<1>8. ASSUME NEW m \in Name, m \notin errored', ~ Busy(m)'
      PROVE  BootExposes(m)'
  BY <1>1, <1>2, <1>8, <1>3 DEF Busy, LInv, ListenersOf, Found, Wants, BootExposes
<1> QED BY <1>4, <1>5, <1>6, <1>7, <1>8 DEF LInv

\* What a plan does first does not change how it ends.
LEMMA EndsPrefix ==
  ASSUME NEW S \in SUBSET StepName, NEW x \in Seq(S), NEW y \in Seq(StepName), Len(y) > 1, NEW a, NEW b, Ends(y, S, a, b),
         NEW s, s = x \o y
  PROVE  s \in Seq(StepName) /\ s # <<>> /\ Ends(s, S, a, b)
<1>1. x \in Seq(StepName) BY WiderPlan
<1>2. /\ Len(s) = Len(x) + Len(y) /\ Len(x) \in Nat /\ Len(y) \in Nat
      /\ \A i \in 1..(Len(x) + Len(y)) : s[i] = IF i <= Len(x) THEN x[i] ELSE y[i - Len(x)]
  BY <1>1, ConcatFacts
<1>3. s \in Seq(StepName) BY <1>1, ConcatType
<1>4. PICK j \in Nat, k \in Nat : j = Len(x) /\ k = Len(y) BY <1>2
<1>5. \A i \in 1..j : x[i] \in S BY <1>4
<1>6. \A i \in 1..k : y[i] \in IF i = k THEN {b} ELSE IF i = k - 1 THEN {a} ELSE S BY <1>4 DEF Ends
<1>7. ASSUME NEW i \in 1..(j + k)
      PROVE  s[i] \in IF i = j + k THEN {b} ELSE IF i = j + k - 1 THEN {a} ELSE S
  <2>1. CASE i <= j BY <2>1, <1>4, <1>2, <1>5
  <2>2. CASE ~ (i <= j)
    <3>1. PICK h \in 1..k : h = i - j BY <2>2
    <3>2. s[i] = y[h] BY <2>2, <3>1, <1>2, <1>4
    <3>3. (h = k <=> i = j + k) /\ (h = k - 1 <=> i = j + k - 1) BY <3>1
    <3> QED BY <3>2, <3>3, <1>6
  <2> QED BY <2>1, <2>2
<1>8. Ends(s, S, a, b) BY <1>2, <1>4, <1>7 DEF Ends
<1>9. Len(s) # 0 BY <1>2
<1> QED BY <1>3, <1>8, <1>9

\* A start ends with the record and the listeners.
LEMMA StartEnds ==
  ASSUME NEW m, NEW s, s = StartPlan(m) \o <<"listen">>
  PROVE  Ends(s, Plain, "desire", "listen") /\ Has(s, {"desire"}) /\ s # <<>>
<1>1. /\ "ensure" \in Plain /\ "spawn" \in Plain /\ "docker_start" \in Plain
      /\ "desire" \in StepName /\ "listen" \in StepName
  BY DEF Plain, StepName, Looks
<1>2. PICK x : x = StartPlan(m) OBVIOUS
<1>3. x \in Seq(StepName) BY <1>2, StartPlanFacts
<1>4. PICK k \in Nat : k = Len(x) BY <1>3
<1>5. k > 0 /\ \A i \in 1..k : x[i] \in IF i = k THEN {"desire"} ELSE Plain
  <2>1. CASE x = <<"ensure", "spawn", "desire">> BY <2>1, <1>1, <1>4
  <2>2. CASE x = <<"docker_start", "desire">> BY <2>2, <1>1, <1>4
  <2>3. CASE x = <<"desire">> BY <2>3, <1>1, <1>4
  <2> QED BY <2>1, <2>2, <2>3, <1>2 DEF StartPlan
<1>6. PICK e : e = <<"listen">> OBVIOUS
<1>7. e \in Seq(StepName) /\ Len(e) = 1 /\ e[1] = "listen" BY <1>1, <1>6
<1>8. s = x \o e BY <1>2, <1>6
<1>9. /\ Len(s) = k + 1
      /\ \A i \in 1..(k + 1) : s[i] = IF i <= k THEN x[i] ELSE e[i - k]
  <2>1. /\ Len(x \o e) = Len(x) + Len(e)
        /\ \A i \in 1..(Len(x) + Len(e)) : (x \o e)[i] = IF i <= Len(x) THEN x[i] ELSE e[i - Len(x)]
    BY <1>3, <1>7, ConcatFacts
  <2>2. Len(x) + Len(e) = k + 1 BY <1>4, <1>7
  <2> QED BY <2>1, <2>2, <1>4, <1>8
<1>10. ASSUME NEW i \in 1..(k + 1)
       PROVE  s[i] \in IF i = k + 1 THEN {"listen"} ELSE IF i = k THEN {"desire"} ELSE Plain
  <2>1. CASE i = k + 1 BY <2>1, <1>7, <1>9
  <2>2. CASE i # k + 1 BY <2>2, <1>5, <1>9
  <2> QED BY <2>1, <2>2
<1>11. Ends(s, Plain, "desire", "listen") BY <1>9, <1>10 DEF Ends
<1>12. Has(s, {"desire"}) BY <1>5, <1>9, <1>10 DEF Has
<1>13. s # <<>> BY <1>9
<1> QED BY <1>11, <1>12, <1>13

\* A stop ends with the record and the listeners it takes down.
LEMMA StopEnds ==
  ASSUME NEW m, NEW s,
         s = (CASE Wasm(m) -> <<"try_ensure", "take">> [] Docker(m) -> <<"docker_stop">> [] OTHER -> <<>>)
               \o <<"desire", "unlisten">>
  PROVE  Ends(s, Plain, "desire", "unlisten") /\ Has(s, {"desire"}) /\ s # <<>>
<1>1. "try_ensure" \in Plain /\ "take" \in Plain /\ "docker_stop" \in Plain /\ "desire" \notin Plain /\ "unlisten" \notin Plain
      /\ "desire" \in StepName /\ "unlisten" \in StepName /\ Plain \in SUBSET StepName
  BY DEF Plain, StepName, Looks
<1>2. PICK c : c = CASE Wasm(m) -> <<"try_ensure", "take">> [] Docker(m) -> <<"docker_stop">> [] OTHER -> <<>> OBVIOUS
<1>3. <<"try_ensure", "take">> \in Seq(Plain) /\ <<"docker_stop">> \in Seq(Plain) /\ <<>> \in Seq(Plain) BY <1>1
<1>4. c \in Seq(Plain) BY <1>2, <1>3
<1> QED BY <1>1, <1>2, <1>4, EndsConcat

\* A removal drops the manifest, the record and the listeners last.
LEMMA RemoveEnds ==
  ASSUME NEW m, NEW s,
         s = (CASE Wasm(m) -> <<"take", "drop">> [] Docker(m) -> <<"docker_remove">> [] OTHER -> <<>>)
               \o <<"unpublish", "forget", "unlisten">>
  PROVE  /\ Ends(s, Plain \cup {"unpublish"}, "forget", "unlisten") /\ Has(s, {"forget"}) /\ s # <<>>
         /\ Followed(s, "unpublish", "forget")
<1>1. PICK S : S = Plain \cup {"unpublish"} OBVIOUS
<1>2. /\ "take" \in Plain /\ "drop" \in Plain /\ "docker_remove" \in Plain /\ Plain \in SUBSET StepName
      /\ "unpublish" \notin Plain /\ "unpublish" \in StepName /\ "forget" \in StepName /\ "unlisten" \in StepName
  BY DEF Plain, StepName, Looks
<1>3. S \in SUBSET StepName /\ "unpublish" \in S BY <1>1, <1>2
<1>4. PICK c : c = CASE Wasm(m) -> <<"take", "drop">> [] Docker(m) -> <<"docker_remove">> [] OTHER -> <<>> OBVIOUS
<1>5. <<"take", "drop">> \in Seq(Plain) /\ <<"docker_remove">> \in Seq(Plain) /\ <<>> \in Seq(Plain) BY <1>2
<1>6. c \in Seq(Plain) BY <1>4, <1>5
<1>7. c \in Seq(S) /\ c \in Seq(StepName) BY <1>1, <1>2, <1>6, WiderPlan
<1>8. PICK y : y = <<"unpublish", "forget", "unlisten">> OBVIOUS
<1>9. y \in Seq(StepName) /\ Len(y) = 3 /\ y[1] = "unpublish" /\ y[2] = "forget" /\ y[3] = "unlisten" BY <1>2, <1>8
<1>10. Ends(y, S, "forget", "unlisten") /\ Followed(y, "unpublish", "forget") /\ Has(y, {"forget"})
  BY <1>3, <1>9 DEF Ends, Followed, Has
<1>11. s = c \o y BY <1>4, <1>8
<1>12. Ends(s, S, "forget", "unlisten") /\ s # <<>>
  <2>1. Len(y) > 1 BY <1>9
  <2>2. s \in Seq(StepName) /\ s # <<>> /\ Ends(s, S, "forget", "unlisten")
    BY <2>1, <1>3, <1>7, <1>9, <1>10, <1>11, EndsPrefix
  <2> QED BY <2>2
<1>13. Followed(c, "unpublish", "forget") BY <1>2, <1>6, PlanOf
<1>14. Followed(s, "unpublish", "forget") /\ Has(s, {"forget"}) BY <1>7, <1>9, <1>10, <1>11, <1>13, PlanConcat
<1> QED BY <1>1, <1>12, <1>14

\* The plan of an apply ends with the record, and for a service that runs with its listeners.
LEMMA ApplyEnds ==
  ASSUME NEW prev, NEW m, NEW d, NEW s, s = ApplyPlan(prev, m, d)
  PROVE  /\ s # <<>>
         /\ d # "running" => Ends(s, Plain, "publish", "persist")
         /\ d = "running" => Ends(s, Plain \cup {"publish", "persist", "desire"}, "unlisten", "listen") /\ Has(s, {"unlisten"})
<1>1. PICK a : a = IF prev # NoManifest THEN ReplacePlan(prev, d) ELSE <<>> OBVIOUS
<1>2. PICK b : b = IF prev # NoManifest THEN <<"take", "drop">> ELSE <<>> OBVIOUS
<1>3. PICK e : e = CASE Wasm(m) -> b \o <<"build">> [] Docker(m) -> <<"docker_create">> [] OTHER -> <<>> OBVIOUS
<1>4. PICK f : f = CASE Wasm(m) -> <<"try_ensure">> [] Docker(m) -> <<"docker_inspect">> [] OTHER -> <<>> OBVIOUS
<1>5. PICK q : q = <<"unlisten", "listen">> OBVIOUS
<1>6. PICK g : g = IF d = "running" THEN StartPlan(m) \o f \o q ELSE <<>> OBVIOUS
<1>7. PICK c : c = <<"publish", "persist">> OBVIOUS
<1>8. PICK x : x = a \o e OBVIOUS
<1>9. PICK y : y = x \o c OBVIOUS
<1>10. s = y \o g BY <1>1, <1>2, <1>3, <1>4, <1>5, <1>6, <1>7, <1>8, <1>9 DEF ApplyPlan
<1>11. PICK W : W = Plain \cup {"publish", "persist", "desire"} OBVIOUS
<1>12. /\ {"take", "drop", "docker_stop", "docker_remove"} \subseteq Plain
       /\ {"take", "drop", "build", "docker_create"} \subseteq Plain
       /\ {"try_ensure", "docker_inspect"} \subseteq Plain
       /\ {"ensure", "spawn", "desire", "docker_start"} \subseteq W
       /\ Plain \in SUBSET StepName /\ W \in SUBSET StepName /\ Plain \subseteq W
       /\ "publish" \in StepName /\ "persist" \in StepName /\ "unlisten" \in StepName /\ "listen" \in StepName
       /\ "publish" \in W /\ "persist" \in W
  BY <1>11 DEF Plain, StepName, Looks
<1>13. /\ <<>> \in Seq(Plain) /\ <<"take", "drop">> \in Seq({"take", "drop"}) /\ <<"try_ensure">> \in Seq(Plain)
       /\ <<"docker_inspect">> \in Seq(Plain) /\ <<>> \in Seq({"take", "drop"})
  <2>1. \A S : <<>> \in Seq(S) OBVIOUS
  <2>2. "take" \in {"take", "drop"} /\ "drop" \in {"take", "drop"} /\ "try_ensure" \in Plain /\ "docker_inspect" \in Plain
    BY <1>12
  <2>3. \A S : "take" \in S /\ "drop" \in S => <<"take", "drop">> \in Seq(S) OBVIOUS
  <2>4. <<"try_ensure">> \in Seq(Plain) /\ <<"docker_inspect">> \in Seq(Plain) BY <2>2
  <2> QED BY <2>1, <2>2, <2>3, <2>4
<1>14. a \in Seq(Plain) BY <1>12, <1>1, <1>13, ReplacePlanFacts, WiderPlan
<1>15. e \in Seq(Plain) BY <1>2, <1>13, <1>3, <1>12, InstallFacts, WiderPlan
<1>16. f \in Seq(Plain) BY <1>4, <1>13
<1>17. x \in Seq(Plain) BY <1>8, <1>14, <1>15, ConcatType
<1>18. y \in Seq(StepName) /\ y # <<>> /\ Ends(y, Plain, "publish", "persist") BY <1>7, <1>9, <1>12, <1>17, EndsConcat
<1>19. CASE d # "running" BY <1>6, <1>19, <1>10, <1>18
<1>20. CASE d = "running"
  <2>1. PICK z : z = StartPlan(m) \o f OBVIOUS
  <2>2. g = z \o q BY <2>1, <1>6, <1>20
  <2>3. StartPlan(m) \in Seq(W) BY <1>12, StartPlanFacts, WiderPlan
  <2>4. f \in Seq(W) /\ x \in Seq(W) BY <1>12, <1>16, <1>17, WiderPlan
  <2>5. z \in Seq(W) BY <2>1, <2>3, <2>4, ConcatType
  <2>6. g \in Seq(StepName) /\ Ends(g, W, "unlisten", "listen") /\ Has(g, {"unlisten"})
    BY <2>2, <2>5, <1>5, <1>12, EndsConcat
  <2>7. Len(g) > 1 BY <1>5, <1>12, <2>5, <2>2, WiderPlan, ConcatFacts
  <2>8. y \in Seq(W) BY <1>7, <1>12, <2>4, <1>9, ConcatType
  <2>9. s # <<>> /\ Ends(s, W, "unlisten", "listen") BY <2>6, <2>7, <2>8, <1>10, <1>12, EndsPrefix
  <2>10. Has(s, {"unlisten"}) BY <2>6, <1>10, <1>18, PlanConcat
  <2> QED BY <2>9, <2>10, <1>11, <1>20
<1> QED BY <1>19, <1>20

\* An apply begins by resolving what it replaces.
LEMMA ApplyBeginListens ==
  ASSUME OneCaller, LInv, PInv', NEW p \in Proc, NEW n \in Name, NEW m \in Manifest, NEW i \in Id, ApplyBegin(p, n, m, i)
  PROVE  LInv'
<1>1. PICK s : s = <<"resolve">> OBVIOUS
<1>2. PICK t : t = [Idle EXCEPT !.op = "apply", !.todo = s, !.name = n, !.man = m, !.id = i] OBVIOUS
<1>3. Begin(p, t) /\ UNCHANGED <<store, listening>> BY <1>1, <1>2 DEF ApplyBegin, Begin
<1>4. t.op = "apply" /\ t.name = n /\ t.todo = s BY <1>2 DEF Idle
<1>5. ASSUME Started, n \notin errored PROVE CallExposes(t)'
  BY <1>3, <1>5, <1>1, <1>4, ExposedBefore DEF Begin, ListenersOf, Wants, ApplyExposes, CallExposes
<1>6. s # <<>> BY <1>1
<1> QED BY <1>3, <1>4, <1>5, <1>6, BeginListens

\* A start begins with a service exposed as its record says.
LEMMA StartBeginListens ==
  ASSUME OneCaller, LInv, PInv', NEW p \in Proc, NEW n \in Name, StartBegin(p, n)
  PROVE  LInv'
<1>1. PICK s : s = StartPlan(manifests[n]) \o <<"listen">> OBVIOUS
<1>2. PICK t : t = [Idle EXCEPT !.op = "start", !.name = n, !.desired = "running", !.todo = s] OBVIOUS
<1>3. Begin(p, t) /\ UNCHANGED <<store, listening>> BY <1>1, <1>2 DEF StartBegin, Begin
<1>4. t.op = "start" /\ t.name = n /\ t.todo = s BY <1>2 DEF Idle
<1>5. Ends(s, Plain, "desire", "listen") /\ Has(s, {"desire"}) /\ s # <<>> BY <1>1, StartEnds
<1>6. ASSUME Started, n \notin errored PROVE CallExposes(t)'
  BY <1>3, <1>6, <1>4, <1>5, ExposedBefore DEF Begin, ListenersOf, Wants, CallExposes
<1> QED BY <1>3, <1>4, <1>5, <1>6, BeginListens

\* So does a stop, which reads no more than whether there is a manifest.
LEMMA StopBeginListens ==
  ASSUME OneCaller, LInv, PInv', NEW p \in Proc, NEW n \in Name, StopBegin(p, n)
  PROVE  LInv'
<1>1. PICK m : m = manifests[n] OBVIOUS
<1>2. PICK s : s = (CASE Wasm(m) -> <<"try_ensure", "take">> [] Docker(m) -> <<"docker_stop">> [] OTHER -> <<>>)
                     \o <<"desire", "unlisten">>
  OBVIOUS
<1>3. PICK t : t = [Idle EXCEPT !.op = "stop", !.name = n, !.todo = s] OBVIOUS
<1>4. Begin(p, t) /\ UNCHANGED <<store, listening>> BY <1>1, <1>2, <1>3 DEF StopBegin, Begin
<1>5. t.op = "stop" /\ t.name = n /\ t.todo = s BY <1>3 DEF Idle
<1>6. Ends(s, Plain, "desire", "unlisten") /\ Has(s, {"desire"}) /\ s # <<>> BY <1>2, StopEnds
<1>7. ASSUME Started, n \notin errored PROVE CallExposes(t)'
  BY <1>4, <1>7, <1>5, <1>6, ExposedBefore DEF Begin, ListenersOf, Wants, CallExposes
<1> QED BY <1>4, <1>5, <1>6, <1>7, BeginListens

\* A removal begins with the manifest that its listeners are taken down by.
LEMMA RemoveBeginListens ==
  ASSUME OneCaller, LInv, PInv', NEW p \in Proc, NEW n \in Name, RemoveBegin(p, n)
  PROVE  LInv'
<1>1. PICK m : m = manifests[n] OBVIOUS
<1>2. PICK s : s = (CASE Wasm(m) -> <<"take", "drop">> [] Docker(m) -> <<"docker_remove">> [] OTHER -> <<>>)
                     \o <<"unpublish", "forget", "unlisten">>
  OBVIOUS
<1>3. PICK t : t = [Idle EXCEPT !.op = "remove", !.name = n, !.prev = m, !.todo = s] OBVIOUS
<1>4. m # NoManifest /\ Begin(p, t) /\ UNCHANGED <<store, listening>> BY <1>1, <1>2, <1>3 DEF RemoveBegin, Begin
<1>5. t.op = "remove" /\ t.name = n /\ t.todo = s /\ t.prev = m BY <1>3 DEF Idle
<1>6. /\ Ends(s, Plain \cup {"unpublish"}, "forget", "unlisten") /\ Has(s, {"forget"}) /\ s # <<>>
      /\ Followed(s, "unpublish", "forget")
  BY <1>2, RemoveEnds
<1>7. ASSUME Started, n \notin errored PROVE CallExposes(t)'
  <2>1. ListenersOf(n) = Wants(n) BY <1>4, <1>7, ExposedBefore DEF Begin
  <2>2. store[n] # NoService /\ store[n].man = m BY <1>4, <1>1, AllRest DEF Begin, LInv
  <2>3. ListenersOf(n) \subseteq EndpointsAs(n, m) BY <2>1, <2>2 DEF Wants
  <2>4. ListenersOf(n)' \subseteq EndpointsAs(n, m) BY <2>3, <1>4 DEF ListenersOf
  <2> QED BY <2>4, <1>5, <1>6 DEF CallExposes, EndpointsAs
<1> QED BY <1>4, <1>5, <1>6, <1>7, BeginListens

\* An inspection or a listing begins, which may restore an entry and changes no listener.
LEMMA InspectBeginListens ==
  ASSUME OneCaller, LInv, PInv', NEW p \in Proc, NEW n \in Name, InspectBegin(p, n)
  PROVE  LInv'
<1>1. PICK s : s = <<"try_ensure">> OBVIOUS
<1>2. PICK t : t = [Idle EXCEPT !.op = "inspect", !.name = n, !.todo = s] OBVIOUS
<1>3. Begin(p, t) /\ UNCHANGED <<store, listening>> BY <1>1, <1>2 DEF InspectBegin, Begin
<1>4. t.op = "inspect" /\ t.name = n /\ t.todo = s BY <1>2 DEF Idle
<1>5. s \in Seq(Plain) /\ s # <<>> BY <1>1 DEF Plain, StepName, Looks
<1>6. ASSUME Started, n \notin errored PROVE CallExposes(t)'
  BY <1>3, <1>6, <1>4, <1>5, ExposedBefore DEF Begin, ListenersOf, Wants, CallExposes
<1> QED BY <1>3, <1>4, <1>5, <1>6, BeginListens

\* A call that fails half-way is on record as errored.
LEMMA CallFails ==
  ASSUME OneCaller, LInv, PInv', NEW p \in Proc, NEW t, t = task[p], t.todo # <<>>, NEW n, n = t.name,
         Abort(p), HalfWay(t),
         \A m \in Name \ {n} : store'[m] = store[m] /\ manifests'[m] = manifests[m] /\ ListenersOf(m)' = ListenersOf(m)
  PROVE  LInv'
<1>1. t.op # "idle" /\ t.op # "boot" BY InCall
<1>2. n \in errored' /\ errored \subseteq errored' /\ Ended(t) = Idle BY <1>1 DEF Abort, Ended
<1>3. PICK w : w = Idle OBVIOUS
<1>4. task' = [task EXCEPT ![p] = w] /\ w.op = "idle" BY <1>2, <1>3, IdleFacts DEF Abort
<1>5. Shown(p, n, w) BY <1>2, <1>4 DEF Shown
<1> QED BY <1>1, <1>5, CallListens

\* A call that changes what it exposes or what is on record says, when it fails, that it did so half-way.
LEMMA CallGoesOn ==
  ASSUME OneCaller, LInv, PInv', NEW p \in Proc, NEW t, t = task[p], t.todo # <<>>, NEW n, n = t.name,
         Continue(p) \/ (Abort(p) /\ HalfWay(t)),
         \A m \in Name \ {n} : store'[m] = store[m] /\ manifests'[m] = manifests[m] /\ ListenersOf(m)' = ListenersOf(m),
         NEW u, u = [t EXCEPT !.todo = Tail(@)],
         n \notin errored =>
           /\ store'[n] # NoService =>
                manifests'[n] # NoManifest \/ (Tail(t.todo) # <<>> /\ Head(Tail(t.todo)) = "forget")
           /\ IF Tail(t.todo) # <<>> THEN CallExposes(u)' ELSE ListenersOf(n)' = Wants(n)'
  PROVE  LInv'
<1>1. /\ t \in Task /\ t.op \in {"apply", "start", "stop", "remove", "inspect"} /\ n \in Name
      /\ t.todo \in Seq(StepName)
  BY InCall
<1>2. Ended(t) = Idle BY <1>1 DEF Ended
<1>3. CASE Abort(p) /\ HalfWay(t) BY <1>3, CallFails
<1>4. CASE Continue(p) /\ Tail(t.todo) = <<>>
  <2>1. ~ (Len(t.todo) > 1) BY <1>1, <1>4, LastStep
  <2>2. PICK w : w = Idle OBVIOUS
  <2>3. task' = [task EXCEPT ![p] = w] /\ w.op = "idle" /\ UNCHANGED errored
    BY <2>1, <2>2, <1>2, <1>4, IdleFacts DEF Continue, Advanced
  <2>4. n \notin errored' => /\ ListenersOf(n)' = Wants(n)'
                             /\ store'[n] # NoService => manifests'[n] # NoManifest
    BY <2>3, <1>4
  <2>5. Shown(p, n, w) BY <2>3, <2>4 DEF Shown
  <2>6. task[p].op # "idle" /\ n = task[p].name BY <1>1
  <2> QED BY <2>5, <2>6, CallListens
<1>5. CASE Continue(p) /\ Tail(t.todo) # <<>>
  <2>1. Len(t.todo) > 1 BY <1>1, <1>5, LastStep
  <2>2. task' = [task EXCEPT ![p] = u] /\ UNCHANGED errored BY <2>1, <1>5 DEF Continue, Advanced
  <2>3. PICK r : r = Tail(t.todo) OBVIOUS
  <2>4. u.op = t.op /\ u.name = n /\ u.todo = r BY <2>3, <1>1 DEF Task
  <2>5. u.op # "idle" /\ u.todo # <<>> BY <2>3, <2>4, <1>1, <1>5
  <2>6. n \notin errored' => /\ CallExposes(u)'
                             /\ store'[n] # NoService => manifests'[n] # NoManifest \/ Head(u.todo) = "forget"
    BY <2>2, <2>3, <2>4, <1>5
  <2>7. Shown(p, n, u) BY <2>2, <2>4, <2>5, <2>6 DEF Shown
  <2>8. task[p].op # "idle" /\ n = task[p].name BY <1>1
  <2> QED BY <2>7, <2>8, CallListens
<1> QED BY <1>3, <1>4, <1>5

\* What an apply knows of its listeners stays true until it turns to them.
LEMMA ApplyNext ==
  ASSUME NEW t \in Task, t.op = "apply", t.todo # <<>>, Head(t.todo) \notin {"resolve", "unlisten", "listen"}, CallExposes(t),
         NEW n, n = t.name, NEW u, u = [t EXCEPT !.todo = Tail(@)], ListenersOf(n)' = ListenersOf(n),
         t.desired = "running" /\ (Head(t.todo) = "persist" \/ (store[n] # NoService /\ store[n].desired = "running"))
           => store'[n] # NoService /\ store'[n].desired = "running"
  PROVE  /\ Tail(t.todo) # <<>> => CallExposes(u)'
         /\ Tail(t.todo) = <<>> => t.desired = "stopped" /\ Head(t.todo) = "persist" /\ ListenersOf(n) = {}
<1>1. PICK d : d = t.todo OBVIOUS
<1>2. PICK r : r = Tail(d) OBVIOUS
<1>3. d \in Seq(StepName) /\ d # <<>> /\ Head(d) \notin {"resolve", "unlisten", "listen"} BY <1>1 DEF Task
<1>4. u.op = "apply" /\ u.name = n /\ u.todo = r /\ u.desired = t.desired /\ u.prev = t.prev BY <1>1, <1>2 DEF Task
<1>5. ApplyExposes(t) BY DEF CallExposes
<1>6. d # <<"resolve">> BY <1>3
<1>7. ApplyExposes(u)' => CallExposes(u)' BY <1>4 DEF CallExposes
<1>8. CASE t.desired = "stopped" /\ Ends(d, Plain, "publish", "persist") /\ ListenersOf(n) = {}
  <2>1. "publish" \notin Plain /\ "persist" \notin Plain BY DEF Plain
  <2>2. /\ Ends(r, Plain, "publish", "persist")
        /\ Head(d) \in Plain \cup {"publish", "persist"}
        /\ Head(d) \in Plain => r # <<>>
        /\ Head(d) = "publish" => r # <<>>
    BY <2>1, <1>2, <1>3, <1>8, EndsTail
  <2>3. ApplyExposes(u)' BY <2>2, <1>4, <1>8 DEF ApplyExposes
  <2> QED BY <2>2, <2>3, <1>1, <1>2, <1>7, <1>8
<1>9. CASE t.desired = "running"
  <2>1. PICK S : S = Plain \cup {"publish", "persist", "desire"} OBVIOUS
  <2>2. /\ Ends(d, S, "unlisten", "listen")
        /\ ListenersOf(n) \subseteq IF Has(d, {"unlisten"}) THEN EndpointsAs(n, t.prev) ELSE {}
        /\ Has(d, {"persist"}) \/ (store[n] # NoService /\ store[n].desired = "running")
    BY <2>1, <1>1, <1>5, <1>6, <1>9 DEF ApplyExposes
  <2>3. "unlisten" \notin S /\ "listen" \notin S BY <2>1 DEF Plain
  <2>4. Head(d) \in S BY <2>2, <2>3, <1>3, EndsTail
  <2>5. Ends(r, S, "unlisten", "listen") /\ Has(d, {"unlisten"}) /\ Has(r, {"unlisten"}) /\ r # <<>>
    BY <2>2, <2>3, <2>4, <1>2, <1>3, EndsTail
  <2>6. Has(r, {"persist"}) \/ (store'[n] # NoService /\ store'[n].desired = "running")
    BY <1>2, <1>3, <2>2, <1>1, <1>9, PlanTail
  <2>7. ApplyExposes(u)' BY <2>2, <2>5, <2>1, <2>6, <1>4, <1>9 DEF ApplyExposes, EndpointsAs
  <2> QED BY <2>5, <2>7, <1>1, <1>2, <1>7
<1> QED BY <1>1, <1>5, <1>6, <1>8, <1>9 DEF ApplyExposes

\* The first part of an apply: what the service is exposed on is what it replaces.
LEMMA ResolveListens ==
  ASSUME OneCaller, LInv, PInv', NEW p \in Proc, Resolve(p)
  PROVE  LInv'
<1>1. PICK t : t = task[p] OBVIOUS
<1>2. PICK n : n = t.name OBVIOUS
<1>3. t.todo # <<>> /\ Head(t.todo) = "resolve" /\ UNCHANGED <<store, manifests, listening>> BY <1>1 DEF Resolve, At
<1>4. /\ t \in Task /\ n \in Name /\ t.op # "idle" /\ t.todo \in Seq(StepName)
      /\ n \notin errored => CallExposes(t)
      /\ p \in Caller
  BY <1>1, <1>2, <1>3, InCall
<1>5. t.op = "apply" BY <1>1, <1>4, <1>3, PlanTail DEF LInv, PInv, CallShape
<1>6. \A m \in Name : store'[m] = store[m] /\ manifests'[m] = manifests[m] /\ ListenersOf(m)' = ListenersOf(m) /\ Wants(m)' = Wants(m)
  BY <1>3 DEF ListenersOf, Wants
<1>7. n \notin errored => ListenersOf(n) = Wants(n)
  <2> SUFFICES ASSUME n \notin errored PROVE ListenersOf(n) = Wants(n) OBVIOUS
  <2>1. ApplyExposes(t) BY <1>4, <1>5 DEF CallExposes
  <2>2. ~ Ends(t.todo, Plain, "publish", "persist")
    <3> SUFFICES ASSUME Ends(t.todo, Plain, "publish", "persist") PROVE FALSE OBVIOUS
    <3>1. "publish" \notin Plain /\ "persist" \notin Plain /\ "resolve" \notin Plain BY DEF Plain
    <3>2. Head(t.todo) \in Plain \cup {"publish", "persist"} BY <3>1, <1>3, <1>4, EndsTail
    <3> QED BY <3>1, <3>2, <1>3
  <2>3. ~ Ends(t.todo, Plain \cup {"publish", "persist", "desire"}, "unlisten", "listen")
    <3>1. PICK S : S = Plain \cup {"publish", "persist", "desire"} OBVIOUS
    <3>2. "unlisten" \notin S /\ "listen" \notin S /\ "resolve" \notin S BY <3>1 DEF Plain
    <3> SUFFICES ASSUME Ends(t.todo, S, "unlisten", "listen") PROVE FALSE BY <3>1
    <3>3. Head(t.todo) \in S \cup {"unlisten", "listen"} BY <3>2, <1>3, <1>4, EndsTail
    <3> QED BY <3>2, <3>3, <1>3
  <2> QED BY <2>1, <2>2, <2>3, <1>2 DEF ApplyExposes
<1>8. n \notin errored /\ store[n] # NoService => manifests[n] # NoManifest BY <1>1, <1>2, <1>3, CallPublished
<1>9. CASE Abort(p)
  <2>1. HalfWay(t) BY <1>5 DEF HalfWay
  <2> QED BY <2>1, <1>1, <1>2, <1>3, <1>6, <1>9, CallFails
<1>10. CASE ~ Abort(p)
  <2>1. PICK prev : prev = IF store[n] # NoService THEN store[n].man ELSE manifests[n] OBVIOUS
  <2>2. PICK d : d = IF store[n] # NoService THEN store[n].desired ELSE "stopped" OBVIOUS
  <2>3. PICK s : s = ApplyPlan(prev, t.man, d) OBVIOUS
  <2>4. PICK u : u = [t EXCEPT !.prev = prev, !.desired = d, !.todo = s] OBVIOUS
  <2>5. task' = [task EXCEPT ![p] = u] /\ UNCHANGED errored BY <2>1, <2>2, <2>3, <2>4, <1>1, <1>2, <1>10 DEF Resolve
  <2>6. u.op = "apply" /\ u.name = n /\ u.desired = d /\ u.prev = prev /\ u.todo = s
    BY <2>4, <1>2, <1>4, <1>5 DEF Task
  <2>7. /\ s # <<>> /\ Has(s, {"persist"})
        /\ d # "running" => Ends(s, Plain, "publish", "persist")
        /\ d = "running" => Ends(s, Plain \cup {"publish", "persist", "desire"}, "unlisten", "listen") /\ Has(s, {"unlisten"})
    BY <2>3, ApplyEnds, ApplyPlanFacts
  <2>8. d \in {"running", "stopped"} BY <1>4, <2>2 DEF LInv, PInv, DInv, TInv, Variables, Data, Service, DesiredState
  <2>9. ASSUME n \notin errored PROVE CallExposes(u)'
    <3>1. CASE d = "stopped" BY <2>2, <2>9, <3>1, <1>6, <1>7, <1>4, <2>7, <2>6 DEF Wants, ApplyExposes, CallExposes
    <3>2. CASE d = "running"
      BY <2>1, <2>2, <2>9, <3>2, <1>4, <1>6, <1>7, <2>6, <2>7 DEF Wants, ApplyExposes, EndpointsAs, CallExposes
    <3> QED BY <2>8, <3>1, <3>2
  <2>10. errored \cap Name \subseteq errored' /\ u.op # "idle" BY <2>5, <2>6
  <2>11. n \notin errored' => CallExposes(u)' /\ (store'[n] # NoService => manifests'[n] # NoManifest)
    BY <2>5, <2>9, <1>4, <1>6, <1>8
  <2>12. Shown(p, n, u) BY <2>5, <2>6, <2>7, <2>10, <2>11, <1>6 DEF Shown
  <2> QED BY <2>12, <1>1, <1>2, <1>4, CallListens
<1> QED BY <1>9, <1>10

\* What an apply publishes is on record next.
LEMMA PublishListens ==
  ASSUME OneCaller, LInv, PInv', NEW p \in Proc, Publish(p)
  PROVE  LInv'
<1>1. PICK t : t = task[p] OBVIOUS
<1>2. PICK n : n = t.name OBVIOUS
<1>3. /\ t.todo # <<>> /\ Head(t.todo) = "publish" /\ Continue(p) /\ UNCHANGED <<store, listening>>
      /\ manifests' = [manifests EXCEPT ![n] = t.man]
  BY <1>1, <1>2 DEF Publish, At
<1>4. /\ t \in Task /\ n \in Name /\ t.op \in {"apply", "start", "stop", "remove", "inspect"} /\ t.todo \in Seq(StepName)
      /\ n \notin errored => CallExposes(t)
      /\ p \in Caller
  BY <1>1, <1>2, <1>3, InCall
<1>5. t.op = "apply" BY <1>1, <1>4, <1>3, PlanTail DEF LInv, PInv, CallShape
<1>6. manifests \in [Name -> Manifest \cup {NoManifest}] BY DEF LInv, PInv, DInv, TInv, Variables, Data
<1>7. t.man \in Manifest BY <1>1, <1>4, AtFacts DEF Publish, LInv, PInv, DInv, Installs
<1>8. manifests'[n] # NoManifest /\ \A m \in Name \ {n} : manifests'[m] = manifests[m]
  BY <1>3, <1>4, <1>6, <1>7, RuntimeAssumption
<1>9. \A m \in Name : store'[m] = store[m] /\ ListenersOf(m)' = ListenersOf(m) BY <1>3 DEF ListenersOf
<1>10. PICK u : u = [t EXCEPT !.todo = Tail(@)] OBVIOUS
<1>11. n \notin errored => IF Tail(t.todo) # <<>> THEN CallExposes(u)' ELSE ListenersOf(n)' = Wants(n)'
  <2>1. Head(t.todo) \notin {"resolve", "unlisten", "listen", "persist"} BY <1>3
  <2>2. ASSUME n \notin errored
        PROVE  /\ Tail(t.todo) # <<>> => CallExposes(u)'
               /\ Tail(t.todo) = <<>> => Head(t.todo) = "persist"
    BY <2>1, <2>2, <1>2, <1>3, <1>4, <1>5, <1>9, <1>10, ApplyNext
  <2> QED BY <2>1, <2>2
<1> QED BY <1>1, <1>2, <1>3, <1>8, <1>9, <1>10, <1>11, CallGoesOn

\* An apply keeps the desired state it has read.
LEMMA PersistListens ==
  ASSUME OneCaller, LInv, PInv', NEW p \in Proc, Persist(p)
  PROVE  LInv'
<1>1. PICK t : t = task[p] OBVIOUS
<1>2. PICK n : n = t.name OBVIOUS
<1>3. t.todo # <<>> /\ Head(t.todo) = "persist" /\ UNCHANGED <<manifests, listening>> BY <1>1 DEF Persist, At
<1>4. /\ t \in Task /\ n \in Name /\ t.op # "idle" /\ t.todo \in Seq(StepName)
      /\ n \notin errored => CallExposes(t)
      /\ p \in Caller
  BY <1>1, <1>2, <1>3, InCall
<1>5. t.op = "apply" /\ t.man \in Manifest /\ t.id \in Id /\ manifests[n] = t.man
  BY <1>1, <1>2, <1>3, <1>4, PersistFacts DEF LInv
<1>6. /\ store \in [Name -> Service \cup {NoService}]
      /\ t.desired \in {"running", "stopped"}
  BY <1>4 DEF LInv, PInv, DInv, TInv, Variables, Data, Task, DesiredState
<1>7. HalfWay(t) BY <1>5 DEF HalfWay
<1>8. \A m \in Name : manifests'[m] = manifests[m] /\ ListenersOf(m)' = ListenersOf(m) BY <1>3 DEF ListenersOf
<1>9. PICK u : u = [t EXCEPT !.todo = Tail(@)] OBVIOUS
<1>10. manifests'[n] # NoManifest BY <1>5, <1>4, <1>8, RuntimeAssumption
<1>11. CASE store[n] = NoService \/ store[n].id = t.id
  <2>1. PICK s : s = Persisted(t) OBVIOUS
  <2>2. s \in Service /\ s.desired = t.desired BY <2>1, <1>5, <1>6 DEF Persisted, Service, DesiredState
  <2>3. store' = [store EXCEPT ![n] = s] /\ (Continue(p) \/ Abort(p)) BY <2>1, <1>1, <1>2, <1>11 DEF Persist, Save
  <2>4. store'[n] # NoService /\ store'[n].desired = t.desired /\ \A m \in Name \ {n} : store'[m] = store[m]
    BY <2>2, <2>3, <1>4, <1>6, RuntimeAssumption
  <2>5. ASSUME n \notin errored
        PROVE  /\ Tail(t.todo) # <<>> => CallExposes(u)'
               /\ Tail(t.todo) = <<>> => t.desired = "stopped" /\ ListenersOf(n) = {}
    BY <1>3, <2>4, <2>5, <1>2, <1>4, <1>5, <1>8, <1>9, ApplyNext
  <2>6. n \notin errored => IF Tail(t.todo) # <<>> THEN CallExposes(u)' ELSE ListenersOf(n)' = Wants(n)'
    BY <2>4, <2>5, <1>4, <1>8 DEF Wants
  <2> QED BY <2>3, <2>4, <2>6, <1>1, <1>2, <1>3, <1>7, <1>8, <1>9, <1>10, CallGoesOn
<1>12. CASE ~ (store[n] = NoService \/ store[n].id = t.id)
  BY <1>1, <1>2, <1>12, <1>3, <1>7, <1>8, CallFails DEF Persist
<1> QED BY <1>11, <1>12

\* Between two steps of a call that is not about to put its manifest on record or to drop the
\* record, the manifest in use is the one on record.
LEMMA CallAgrees ==
  ASSUME OneCaller, LInv, NEW p \in Proc, task[p].todo # <<>>, Head(task[p].todo) \in {"desire", "unlisten", "listen"},
         NEW n, n = task[p].name, n \notin errored, store[n] # NoService
  PROVE  manifests[n] # NoManifest /\ store[n].man = manifests[n]
<1>1. PICK t : t = task[p] OBVIOUS
<1>2. n \in Name /\ p \in Caller /\ t.todo \in Seq(StepName) BY <1>1, InCall
<1>3. manifests[n] # NoManifest BY CallPublished
<1>4. \A q \in Caller : ~ At(q, "persist")
  <2>1. {"desire", "unlisten", "listen"} \cap Looks = {} /\ "persist" \in StepName \ Looks BY DEF Looks, StepName
  <2>2. PICK h : h = Head(t.todo) OBVIOUS
  <2>3. h \notin Looks /\ h # "persist" /\ t \in Task /\ t.todo # <<>> BY <2>1, <2>2, <1>1, InCall
  <2>4. PInv BY DEF LInv
  <2>5. \A q \in Caller, s \in StepName \ Looks : At(q, s) => Head(t.todo) = s BY <2>2, <2>3, <2>4, <1>1, <1>2, Active
  <2> QED BY <2>1, <2>2, <2>3, <2>5
<1> QED BY <1>2, <1>3, <1>4 DEF LInv, PInv, Wanted, Agreed

\* The steps of a start and of a stop, and what is left to do after their record has changed.
LEMMA DesiredNext ==
  ASSUME NEW t \in Task, t.op \in {"start", "stop"}, t.todo # <<>>, Head(t.todo) = "desire", CallExposes(t),
         NEW n, n = t.name, NEW u, u = [t EXCEPT !.todo = Tail(@)], UNCHANGED <<listening, manifests>>,
         store'[n] # NoService, store'[n].desired = IF t.op = "stop" THEN "stopped" ELSE "running",
         store[n] # NoService, store'[n].man = store[n].man,
         manifests[n] # NoManifest, store[n].man = manifests[n]
  PROVE  Tail(t.todo) # <<>> /\ CallExposes(u)'
<1>1. PICK d : d = t.todo OBVIOUS
<1>2. PICK r : r = Tail(d) OBVIOUS
<1>3. d \in Seq(StepName) /\ d # <<>> /\ Head(d) = "desire" BY <1>1 DEF Task
<1>4. u.op = t.op /\ u.name = n /\ u.todo = r BY <1>1, <1>2 DEF Task
<1>5. "desire" \notin Plain /\ "listen" \notin Plain /\ "unlisten" \notin Plain BY DEF Plain
<1>6. \A S : Head(d) \in S => Has(d, S) BY <1>3, PlanTail
<1>7. ListenersOf(n) = Wants(n) BY <1>3, <1>6, <1>1 DEF CallExposes
<1>8. ListenersOf(n)' = ListenersOf(n) /\ Wants(n) \subseteq EndpointsAs(n, store[n].man) BY DEF ListenersOf, Wants
<1>9. CASE t.op = "start"
  <2>1. Ends(d, Plain, "desire", "listen") BY <1>1, <1>9 DEF CallExposes
  <2>2. Ends(r, Plain, "desire", "listen") /\ r # <<>> /\ ~ Has(r, {"desire"}) BY <2>1, <1>2, <1>3, <1>5, EndsTail
  <2>3. Wants(n)' = EndpointsAs(n, store[n].man) BY <1>9 DEF Wants, EndpointsAs
  <2>4. ListenersOf(n)' \subseteq Wants(n)' BY <2>3, <1>7, <1>8
  <2>5. CallExposes(u)' BY <2>2, <2>4, <1>4, <1>9 DEF CallExposes
  <2> QED BY <2>2, <2>5, <1>1, <1>2
<1>10. CASE t.op = "stop"
  <2>1. Ends(d, Plain, "desire", "unlisten") BY <1>1, <1>10 DEF CallExposes
  <2>2. Ends(r, Plain, "desire", "unlisten") /\ r # <<>> /\ ~ Has(r, {"desire"}) BY <2>1, <1>2, <1>3, <1>5, EndsTail
  <2>3. Wants(n)' = {} BY <1>10 DEF Wants
  <2>4. ListenersOf(n)' \subseteq EndpointsAs(n, manifests'[n]) BY <1>7, <1>8
  <2>5. CallExposes(u)' BY <2>2, <2>3, <2>4, <1>4, <1>10 DEF CallExposes, EndpointsAs
  <2> QED BY <2>2, <2>5, <1>1, <1>2
<1> QED BY <1>9, <1>10

\* A start and a stop put the desired state on record before they turn to the listeners.
LEMMA DesireListens ==
  ASSUME OneCaller, LInv, PInv', NEW p \in Proc, Desire(p)
  PROVE  LInv'
<1>1. PICK t : t = task[p] OBVIOUS
<1>2. PICK n : n = t.name OBVIOUS
<1>3. t.todo # <<>> /\ Head(t.todo) = "desire" /\ UNCHANGED <<manifests, listening>> BY <1>1 DEF Desire, At
<1>4. /\ t \in Task /\ n \in Name /\ t.op \in {"apply", "start", "stop", "remove", "inspect"} /\ t.todo \in Seq(StepName)
      /\ n \notin errored => CallExposes(t)
      /\ p \in Caller /\ ~ At(Boot, "publish")
  BY <1>1, <1>2, <1>3, InCall
<1>5. store \in [Name -> Service \cup {NoService}] BY DEF LInv, PInv, DInv, TInv, Variables, Data
<1>6. HalfWay(t) BY <1>3 DEF HalfWay
<1>7. \A m \in Name : manifests'[m] = manifests[m] /\ ListenersOf(m)' = ListenersOf(m) BY <1>3 DEF ListenersOf
<1>8. CASE store[n] = NoService BY <1>1, <1>2, <1>8, <1>3, <1>6, <1>7, CallFails DEF Desire
<1>9. CASE store[n] # NoService
  <2>1. PICK s : s = Desired(t) OBVIOUS
  <2>2. t.desired = IF t.op = "stop" THEN "stopped" ELSE "running"
    BY <1>1, <1>2, <1>3, <1>4, <1>9, DesireFacts DEF LInv
  <2>3. s \in Service /\ s.desired = t.desired /\ s.man = store[n].man
    BY <2>1, <1>2, <1>4, <1>5, <1>9 DEF Desired, Service, Task
  <2>4. store' = [store EXCEPT ![n] = s] /\ (Continue(p) \/ Abort(p)) BY <2>1, <1>1, <1>2, <1>9 DEF Desire, Save
  <2>5. store'[n] = s /\ s # NoService /\ \A m \in Name \ {n} : store'[m] = store[m]
    BY <2>3, <2>4, <1>4, <1>5, RuntimeAssumption
  <2>6. PICK u : u = [t EXCEPT !.todo = Tail(@)] OBVIOUS
  <2>7. n \notin errored => manifests[n] # NoManifest /\ store[n].man = manifests[n]
    BY <1>1, <1>2, <1>3, <1>9, CallAgrees
  <2>8. ASSUME n \notin errored PROVE Tail(t.todo) # <<>> /\ CallExposes(u)'
    <3>1. CASE t.op = "apply"
      <4>1. Head(t.todo) \notin {"resolve", "unlisten", "listen"} /\ Head(t.todo) # "persist" BY <1>3
      <4>2. t.desired = "running" => store'[n] # NoService /\ store'[n].desired = "running" BY <2>3, <2>5
      <4> QED BY <3>1, <4>1, <4>2, <2>6, <2>8, <1>2, <1>3, <1>4, <1>7, ApplyNext
    <3>2. CASE t.op \in {"start", "stop"}
      BY <2>2, <2>3, <2>5, <3>2, <2>6, <2>7, <2>8, <1>2, <1>3, <1>4, <1>9, DesiredNext
    <3>3. CASE t.op = "inspect" BY <2>8, <3>3, <1>4, <1>3, PlainPlan DEF CallExposes, Plain
    <3>4. CASE t.op = "remove"
      <4>1. PICK S : S = Plain \cup {"unpublish"} OBVIOUS
      <4>2. Ends(t.todo, S, "forget", "unlisten") /\ "forget" \notin S /\ "unlisten" \notin S /\ "desire" \notin S
        BY <2>8, <3>4, <4>1, <1>4 DEF CallExposes, Plain
      <4>3. Head(t.todo) \in S \cup {"forget", "unlisten"} BY <4>2, <1>3, <1>4, EndsTail
      <4> QED BY <4>2, <4>3, <1>3
    <3> QED BY <3>1, <3>2, <3>3, <3>4, <1>4
  <2>9. n \notin errored => manifests'[n] # NoManifest BY <2>7, <1>4, <1>7
  <2>10. Continue(p) \/ (Abort(p) /\ HalfWay(t)) BY <2>4, <1>6
  <2>11. \A m \in Name \ {n} : store'[m] = store[m] /\ manifests'[m] = manifests[m] /\ ListenersOf(m)' = ListenersOf(m)
    BY <2>5, <1>7
  <2>12. t.todo # <<>> BY <1>3
  <2>13. CASE n \in errored BY <2>13, <2>10, <2>11, <2>12, <2>6, <1>1, <1>2, CallGoesOn
  <2>14. CASE n \notin errored BY <2>14, <2>8, <2>9, <2>10, <2>11, <2>12, <2>6, <1>1, <1>2, CallGoesOn
  <2> QED BY <2>13, <2>14
<1> QED BY <1>8, <1>9

\* A removal withdraws the manifest, drops the record and takes down the listeners, in this order.
LEMMA RemoveAt ==
  ASSUME OneCaller, LInv, NEW p \in Proc, NEW t, t = task[p], t.todo # <<>>, Head(t.todo) \in {"unpublish", "forget"},
         NEW n, n = t.name
  PROVE  /\ t \in Task /\ t.op = "remove" /\ n \in Name /\ t.todo \in Seq(StepName)
         /\ n \notin errored =>
              /\ Tail(t.todo) # <<>> /\ ListenersOf(n) \subseteq EndpointsAs(n, t.prev)
              /\ Ends(Tail(t.todo), Plain \cup {"unpublish"}, "forget", "unlisten")
              /\ Followed(Tail(t.todo), "unpublish", "forget")
              /\ Head(t.todo) = "unpublish" => Head(Tail(t.todo)) = "forget" /\ Has(Tail(t.todo), {"forget"})
<1>1. PICK d : d = t.todo OBVIOUS
<1>2. /\ t \in Task /\ n \in Name /\ d \in Seq(StepName) /\ d # <<>> /\ p \in Caller
      /\ n \notin errored => CallExposes(t)
  BY <1>1, InCall
<1>3. t.op = "remove" BY <1>1, <1>2, PlanTail DEF LInv, PInv, CallShape
<1>4. ASSUME n \notin errored
      PROVE  /\ Tail(d) # <<>> /\ ListenersOf(n) \subseteq EndpointsAs(n, t.prev)
             /\ Ends(Tail(d), Plain \cup {"unpublish"}, "forget", "unlisten")
             /\ Followed(Tail(d), "unpublish", "forget")
             /\ Head(d) = "unpublish" => Head(Tail(d)) = "forget" /\ Has(Tail(d), {"forget"})
  <2>1. PICK S : S = Plain \cup {"unpublish"} OBVIOUS
  <2>2. /\ Ends(d, S, "forget", "unlisten") /\ Followed(d, "unpublish", "forget")
        /\ ListenersOf(n) \subseteq EndpointsAs(n, t.prev)
    BY <2>1, <1>1, <1>2, <1>3, <1>4 DEF CallExposes
  <2>3. "forget" \notin S /\ "unlisten" \notin S /\ "unpublish" \in S BY <2>1 DEF Plain
  <2>4. /\ Ends(Tail(d), S, "forget", "unlisten")
        /\ Head(d) \in S => Has(Tail(d), {"forget"}) /\ Tail(d) # <<>>
        /\ Head(d) = "forget" => Tail(d) # <<>>
    BY <2>2, <2>3, <1>2, EndsTail
  <2>5. Followed(Tail(d), "unpublish", "forget") BY <2>2, <1>2, PlanTail
  <2>6. Head(d) = "unpublish" => Head(Tail(d)) = "forget" BY <2>2, <1>2, PlanTail
  <2>7. Head(d) \in {"unpublish", "forget"} BY <1>1
  <2> QED BY <2>1, <2>2, <2>3, <2>4, <2>5, <2>6, <2>7
<1> QED BY <1>1, <1>2, <1>3, <1>4

\* A removal that has withdrawn the manifest drops the record with its next step.
LEMMA UnpublishListens ==
  ASSUME OneCaller, LInv, PInv', NEW p \in Proc, Unpublish(p)
  PROVE  LInv'
<1>1. PICK t : t = task[p] OBVIOUS
<1>2. PICK n : n = t.name OBVIOUS
<1>3. /\ t.todo # <<>> /\ Head(t.todo) = "unpublish" /\ Continue(p) /\ UNCHANGED <<store, listening>>
      /\ manifests' = [manifests EXCEPT ![n] = NoManifest]
  BY <1>1, <1>2 DEF Unpublish, At
<1>4. PICK r : r = Tail(t.todo) OBVIOUS
<1>5. /\ t \in Task /\ t.op = "remove" /\ n \in Name
      /\ n \notin errored =>
           /\ r # <<>> /\ ListenersOf(n) \subseteq EndpointsAs(n, t.prev)
           /\ Ends(r, Plain \cup {"unpublish"}, "forget", "unlisten") /\ Followed(r, "unpublish", "forget")
           /\ Head(r) = "forget" /\ Has(r, {"forget"})
  BY <1>1, <1>2, <1>3, <1>4, RemoveAt
<1>6. \A m \in Name \ {n} : store'[m] = store[m] /\ manifests'[m] = manifests[m] /\ ListenersOf(m)' = ListenersOf(m)
  BY <1>3 DEF LInv, PInv, DInv, TInv, Variables, Data, ListenersOf
<1>7. PICK u : u = [t EXCEPT !.todo = r] OBVIOUS
<1>8. u.op = "remove" /\ u.name = n /\ u.prev = t.prev /\ u.todo = r BY <1>2, <1>5, <1>7 DEF Task
<1>9. n \notin errored => CallExposes(u)' BY <1>3, <1>5, <1>8 DEF ListenersOf, CallExposes, EndpointsAs
<1>10. u = [t EXCEPT !.todo = Tail(@)] BY <1>4, <1>7
<1>11. Continue(p) \/ (Abort(p) /\ HalfWay(t)) BY <1>3, <1>10
<1>12. t.todo # <<>> BY <1>3
<1>13. \A m \in Name \ {n} : store'[m] = store[m] /\ manifests'[m] = manifests[m] /\ ListenersOf(m)' = ListenersOf(m)
  BY <1>6
<1>14. u = [t EXCEPT !.todo = Tail(@)] BY <1>10
<1>15. CASE n \in errored BY <1>15, <1>1, <1>2, <1>11, <1>12, <1>13, <1>14, CallGoesOn
<1>16. CASE n \notin errored BY <1>16, <1>4, <1>5, <1>6, <1>9, <1>1, <1>2, <1>11, <1>12, <1>13, <1>14, CallGoesOn
<1> QED BY <1>15, <1>16

\* A removal that has dropped the record has the listeners left to take down.
LEMMA ForgetListens ==
  ASSUME OneCaller, LInv, PInv', NEW p \in Proc, Forget(p)
  PROVE  LInv'
<1>1. PICK t : t = task[p] OBVIOUS
<1>2. PICK n : n = t.name OBVIOUS
<1>3. /\ t.todo # <<>> /\ Head(t.todo) = "forget" /\ (Continue(p) \/ Abort(p)) /\ UNCHANGED <<manifests, listening>>
      /\ store' = [store EXCEPT ![n] = NoService]
  BY <1>1, <1>2 DEF Forget, At
<1>4. PICK r : r = Tail(t.todo) OBVIOUS
<1>5. /\ t \in Task /\ t.op = "remove" /\ n \in Name
      /\ n \notin errored =>
           /\ r # <<>> /\ ListenersOf(n) \subseteq EndpointsAs(n, t.prev)
           /\ Ends(r, Plain \cup {"unpublish"}, "forget", "unlisten") /\ Followed(r, "unpublish", "forget")
  BY <1>1, <1>2, <1>3, <1>4, RemoveAt
<1>6. store'[n] = NoService /\ \A m \in Name \ {n} : store'[m] = store[m] /\ manifests'[m] = manifests[m] /\ ListenersOf(m)' = ListenersOf(m)
  BY <1>3, <1>5 DEF LInv, PInv, DInv, TInv, Variables, Data, ListenersOf
<1>7. PICK u : u = [t EXCEPT !.todo = r] OBVIOUS
<1>8. u.op = "remove" /\ u.name = n /\ u.prev = t.prev /\ u.todo = r BY <1>2, <1>5, <1>7 DEF Task
<1>9. n \notin errored => CallExposes(u)' BY <1>3, <1>5, <1>6, <1>8 DEF ListenersOf, CallExposes, EndpointsAs
<1>10. u = [t EXCEPT !.todo = Tail(@)] /\ HalfWay(t) BY <1>4, <1>5, <1>7 DEF HalfWay
<1>11. Continue(p) \/ (Abort(p) /\ HalfWay(t)) BY <1>3, <1>10
<1>12. t.todo # <<>> BY <1>3
<1>13. \A m \in Name \ {n} : store'[m] = store[m] /\ manifests'[m] = manifests[m] /\ ListenersOf(m)' = ListenersOf(m)
  BY <1>6
<1>14. u = [t EXCEPT !.todo = Tail(@)] BY <1>10
<1>15. CASE n \in errored BY <1>15, <1>1, <1>2, <1>11, <1>12, <1>13, <1>14, CallGoesOn
<1>16. CASE n \notin errored BY <1>16, <1>4, <1>5, <1>6, <1>9, <1>1, <1>2, <1>11, <1>12, <1>13, <1>14, CallGoesOn
<1> QED BY <1>15, <1>16

\* Taking down or putting up listeners of a service leaves those of the others as they are.
LEMMA ListenersChange ==
  ASSUME NEW n \in Name, NEW m,
         \/ listening' = listening \ EndpointsAs(n, m)
         \/ \E some \in SUBSET EndpointsAs(n, m) : listening' = listening \cup some
  PROVE  /\ \A k \in Name \ {n} : ListenersOf(k)' = ListenersOf(k)
         /\ listening' = listening \ EndpointsAs(n, m) => ListenersOf(n)' = ListenersOf(n) \ EndpointsAs(n, m)
         /\ listening' = listening \cup EndpointsAs(n, m) => ListenersOf(n)' = ListenersOf(n) \cup EndpointsAs(n, m)
<1>1. PICK E : E = EndpointsAs(n, m) OBVIOUS
<1>2. \A l \in E : l[1] = n BY <1>1 DEF EndpointsAs
<1>3. \A l : (l \in listening' /\ l \notin E) <=> (l \in listening /\ l \notin E) BY <1>1
<1>4. \A k : k # n => ListenersOf(k)' = ListenersOf(k) BY <1>2, <1>3 DEF ListenersOf
<1> QED BY <1>1, <1>2, <1>4 DEF ListenersOf

\* What a call that is about to take listeners down has still to do.
LEMMA UnlistenAt ==
  ASSUME OneCaller, LInv, NEW p \in Proc, NEW t, t = task[p], NEW d, d = t.todo, d # <<>>, Head(d) = "unlisten",
         NEW n, n = t.name, n \notin errored
  PROVE  /\ t.op \in {"apply", "stop", "remove"}
         /\ t.op = "stop" => /\ Tail(d) = <<>> /\ Wants(n) = {} /\ ListenersOf(n) \subseteq EndpointsAs(n, manifests[n])
                             /\ store[n] # NoService => manifests[n] # NoManifest
         /\ t.op = "remove" => Tail(d) = <<>> /\ store[n] = NoService /\ ListenersOf(n) \subseteq EndpointsAs(n, t.prev)
         /\ t.op = "apply" => /\ Tail(d) # <<>> /\ t.desired = "running" /\ ListenersOf(n) \subseteq EndpointsAs(n, t.prev)
                              /\ Ends(Tail(d), Plain \cup {"publish", "persist", "desire"}, "unlisten", "listen")
                              /\ Has(Tail(d), {"persist"}) \/ (store[n] # NoService /\ store[n].desired = "running")
                              /\ store[n] # NoService => manifests[n] # NoManifest
                              /\ ~ Has(Tail(d), {"unlisten"})
<1>1. /\ t \in Task /\ n \in Name /\ d \in Seq(StepName) /\ t.op \in {"apply", "start", "stop", "remove", "inspect"}
      /\ CallExposes(t)
  BY InCall
<1>2. "unlisten" \notin Plain /\ "desire" \notin Plain /\ "listen" \notin Plain /\ "forget" \notin Plain /\ "resolve" \notin Plain
      /\ "unpublish" \notin Plain /\ "persist" \notin Plain /\ "publish" \notin Plain
  BY DEF Plain
<1>3. store[n] # NoService => manifests[n] # NoManifest BY CallAgrees
<1>4. ASSUME t.op = "inspect" PROVE FALSE BY <1>1, <1>4, <1>2, PlainPlan DEF CallExposes
<1>5. ASSUME t.op = "start" PROVE FALSE
  <2>1. Ends(d, Plain, "desire", "listen") BY <1>1, <1>5 DEF CallExposes
  <2>2. Head(d) \in Plain \cup {"desire", "listen"} BY <2>1, <1>1, <1>2, EndsTail
  <2> QED BY <2>2, <1>2
<1>6. ASSUME t.op = "stop"
      PROVE  Tail(d) = <<>> /\ Wants(n) = {} /\ ListenersOf(n) \subseteq EndpointsAs(n, manifests[n])
  BY <1>1, <1>6, <1>2, EndsTail DEF CallExposes
<1>7. ASSUME t.op = "remove"
      PROVE  Tail(d) = <<>> /\ store[n] = NoService /\ ListenersOf(n) \subseteq EndpointsAs(n, t.prev)
  <2>1. PICK S : S = Plain \cup {"unpublish"} OBVIOUS
  <2>2. /\ Ends(d, S, "forget", "unlisten")
        /\ Has(d, {"forget"}) \/ store[n] = NoService
        /\ ListenersOf(n) \subseteq EndpointsAs(n, t.prev)
    BY <2>1, <1>1, <1>7 DEF CallExposes
  <2>3. "forget" \notin S /\ "unlisten" \notin S BY <2>1, <1>2
  <2>4. Tail(d) = <<>> /\ ~ Has(d, {"forget"}) BY <2>2, <2>3, <1>1, EndsTail
  <2> QED BY <2>2, <2>4
<1>8. ASSUME t.op = "apply"
      PROVE  /\ Tail(d) # <<>> /\ t.desired = "running" /\ ListenersOf(n) \subseteq EndpointsAs(n, t.prev)
             /\ Ends(Tail(d), Plain \cup {"publish", "persist", "desire"}, "unlisten", "listen")
             /\ Has(Tail(d), {"persist"}) \/ (store[n] # NoService /\ store[n].desired = "running")
             /\ ~ Has(Tail(d), {"unlisten"})
  <2>1. PICK S : S = Plain \cup {"publish", "persist", "desire"} OBVIOUS
  <2>2. d # <<"resolve">> OBVIOUS
  <2>3. ~ Ends(d, Plain, "publish", "persist")
    <3> SUFFICES ASSUME Ends(d, Plain, "publish", "persist") PROVE FALSE OBVIOUS
    <3>1. Head(d) \in Plain \cup {"publish", "persist"} BY <1>1, <1>2, EndsTail
    <3> QED BY <3>1, <1>2
  <2>4. ApplyExposes(t) BY <1>1, <1>8 DEF CallExposes
  <2>5. /\ t.desired = "running" /\ Ends(d, S, "unlisten", "listen")
        /\ ListenersOf(n) \subseteq IF Has(d, {"unlisten"}) THEN EndpointsAs(n, t.prev) ELSE {}
        /\ Has(d, {"persist"}) \/ (store[n] # NoService /\ store[n].desired = "running")
    BY <2>1, <2>2, <2>3, <2>4 DEF ApplyExposes
  <2>6. "unlisten" \notin S /\ "listen" \notin S BY <2>1, <1>2
  <2>7. /\ Ends(Tail(d), S, "unlisten", "listen")
        /\ Tail(d) # <<>> /\ ~ Has(Tail(d), {"unlisten"})
    BY <2>5, <2>6, <1>1, EndsTail
  <2>8. /\ Has(d, {"unlisten"})
        /\ Has(d, {"persist"}) => Has(Tail(d), {"persist"})
    BY <1>1, PlanTail
  <2> QED BY <2>1, <2>5, <2>7, <2>8
<1> QED BY <1>1, <1>3, <1>4, <1>5, <1>6, <1>7, <1>8

\* A stop and a removal end with no listeners, an apply of a running service goes on to put up its own.
LEMMA UnlistenListens ==
  ASSUME OneCaller, LInv, PInv', NEW p \in Proc, Unlisten(p)
  PROVE  LInv'
<1>1. PICK t : t = task[p] OBVIOUS
<1>2. PICK n : n = t.name OBVIOUS
<1>3. PICK m : m = IF t.op = "stop" THEN manifests[n] ELSE t.prev OBVIOUS
<1>4. /\ t.todo # <<>> /\ Head(t.todo) = "unlisten" /\ Continue(p) /\ UNCHANGED <<store, manifests>>
      /\ listening' = listening \ EndpointsAs(n, m)
  BY <1>1, <1>2, <1>3 DEF Unlisten, At
<1>5. n \in Name /\ t \in Task BY <1>1, <1>2, <1>4, InCall
<1>6. /\ \A k \in Name \ {n} : ListenersOf(k)' = ListenersOf(k)
      /\ ListenersOf(n)' = ListenersOf(n) \ EndpointsAs(n, m)
  BY <1>4, <1>5, ListenersChange
<1>7. \A k \in Name \ {n} : store'[k] = store[k] /\ manifests'[k] = manifests[k] /\ ListenersOf(k)' = ListenersOf(k)
  BY <1>4, <1>6
<1>8. PICK u : u = [t EXCEPT !.todo = Tail(@)] OBVIOUS
<1>9. CASE n \in errored BY <1>9, <1>1, <1>2, <1>4, <1>7, <1>8, CallGoesOn
<1>10. CASE n \notin errored
  <2>1. PICK d : d = t.todo OBVIOUS
  <2>2. /\ t.op \in {"apply", "stop", "remove"}
        /\ t.op = "stop" => /\ Tail(d) = <<>> /\ Wants(n) = {} /\ ListenersOf(n) \subseteq EndpointsAs(n, manifests[n])
                            /\ store[n] # NoService => manifests[n] # NoManifest
        /\ t.op = "remove" => Tail(d) = <<>> /\ store[n] = NoService /\ ListenersOf(n) \subseteq EndpointsAs(n, t.prev)
        /\ t.op = "apply" => /\ Tail(d) # <<>> /\ t.desired = "running" /\ ListenersOf(n) \subseteq EndpointsAs(n, t.prev)
                             /\ Ends(Tail(d), Plain \cup {"publish", "persist", "desire"}, "unlisten", "listen")
                             /\ Has(Tail(d), {"persist"}) \/ (store[n] # NoService /\ store[n].desired = "running")
                             /\ store[n] # NoService => manifests[n] # NoManifest
                             /\ ~ Has(Tail(d), {"unlisten"})
    BY <2>1, <1>1, <1>2, <1>4, <1>10, UnlistenAt
  <2>3. ListenersOf(n)' = {} BY <2>2, <1>3, <1>6
  <2>4. store[n] # NoService => manifests'[n] # NoManifest BY <2>2, <1>4
  <2>5. CASE t.op \in {"stop", "remove"}
    <3>1. Wants(n)' = {} /\ Tail(t.todo) = <<>> BY <2>2, <2>5, <2>1, <1>4 DEF Wants
    <3>2. ListenersOf(n)' = Wants(n)' /\ (store'[n] = NoService \/ manifests'[n] # NoManifest)
      BY <3>1, <2>3, <2>4, <1>4
    <3>3. Continue(p) /\ t.todo # <<>> BY <1>4
    <3>4. CASE store'[n] = NoService BY <3>1, <3>2, <3>3, <3>4, <1>1, <1>2, <1>7, <1>8, CallGoesOn
    <3>5. CASE manifests'[n] # NoManifest BY <3>1, <3>2, <3>3, <3>5, <1>1, <1>2, <1>7, <1>8, CallGoesOn
    <3> QED BY <3>2, <3>4, <3>5
  <2>6. CASE t.op = "apply"
    <3>1. u.op = "apply" /\ u.name = n /\ u.todo = Tail(d) /\ u.desired = "running" /\ u.prev = t.prev
      <4>1. PICK r : r = Tail(d) OBVIOUS
      <4>2. u = [t EXCEPT !.todo = r] /\ t.desired = "running" BY <4>1, <2>1, <2>2, <2>6, <1>8
      <4> QED BY <4>1, <4>2, <2>6, <1>2, <1>5 DEF Task
    <3>2. ApplyExposes(u)' BY <3>1, <2>2, <2>3, <2>6, <1>4 DEF ApplyExposes
    <3>3. CallExposes(u)' BY <3>1, <3>2 DEF CallExposes
    <3>4. Tail(t.todo) # <<>> /\ (store'[n] # NoService => manifests'[n] # NoManifest) BY <2>1, <2>2, <2>4, <2>6, <1>4
    <3> QED BY <3>3, <3>4, <1>1, <1>2, <1>4, <1>7, <1>8, CallGoesOn
  <2> QED BY <2>2, <2>5, <2>6
<1> QED BY <1>9, <1>10

\* A call that is about to put listeners up is at its end, and the service is on record to run.
LEMMA ListenAt ==
  ASSUME OneCaller, LInv, NEW p \in Proc, NEW t, t = task[p], NEW d, d = t.todo, d # <<>>, Head(d) = "listen",
         NEW n, n = t.name, n \notin errored
  PROVE  /\ Tail(d) = <<>> /\ ListenersOf(n) \subseteq Wants(n)
         /\ store[n] # NoService /\ store[n].desired = "running"
<1>1. /\ t \in Task /\ n \in Name /\ d \in Seq(StepName) /\ t.op \in {"apply", "start", "stop", "remove", "inspect"}
      /\ CallExposes(t)
  BY InCall
<1>2. "unlisten" \notin Plain /\ "desire" \notin Plain /\ "listen" \notin Plain /\ "forget" \notin Plain /\ "resolve" \notin Plain
      /\ "unpublish" \notin Plain /\ "persist" \notin Plain /\ "publish" \notin Plain
  BY DEF Plain
<1>3. ASSUME t.op = "inspect" PROVE FALSE BY <1>1, <1>3, <1>2, PlainPlan DEF CallExposes
<1>4. ASSUME t.op = "stop" PROVE FALSE
  <2>1. Ends(d, Plain, "desire", "unlisten") BY <1>1, <1>4 DEF CallExposes
  <2>2. Head(d) \in Plain \cup {"desire", "unlisten"} BY <2>1, <1>1, <1>2, EndsTail
  <2> QED BY <2>2, <1>2
<1>5. ASSUME t.op = "remove" PROVE FALSE
  <2>1. PICK S : S = Plain \cup {"unpublish"} OBVIOUS
  <2>2. Ends(d, S, "forget", "unlisten") BY <2>1, <1>1, <1>5 DEF CallExposes
  <2>3. "forget" \notin S /\ "unlisten" \notin S /\ "listen" \notin S BY <2>1, <1>2
  <2>4. Head(d) \in S \cup {"forget", "unlisten"} BY <2>2, <2>3, <1>1, EndsTail
  <2> QED BY <2>3, <2>4
<1>6. CASE t.op = "start" BY <1>1, <1>6, <1>2, EndsTail DEF CallExposes
<1>7. CASE t.op = "apply"
  <2>1. PICK S : S = Plain \cup {"publish", "persist", "desire"} OBVIOUS
  <2>2. d # <<"resolve">> OBVIOUS
  <2>3. ~ Ends(d, Plain, "publish", "persist")
    <3> SUFFICES ASSUME Ends(d, Plain, "publish", "persist") PROVE FALSE OBVIOUS
    <3>1. Head(d) \in Plain \cup {"publish", "persist"} BY <1>1, <1>2, EndsTail
    <3> QED BY <3>1, <1>2
  <2>4. ApplyExposes(t) BY <1>1, <1>7 DEF CallExposes
  <2>5. /\ Ends(d, S, "unlisten", "listen")
        /\ ListenersOf(n) \subseteq IF Has(d, {"unlisten"}) THEN EndpointsAs(n, t.prev) ELSE {}
        /\ Has(d, {"persist"}) \/ (store[n] # NoService /\ store[n].desired = "running")
    BY <2>1, <2>2, <2>3, <2>4 DEF ApplyExposes
  <2>6. "unlisten" \notin S /\ "listen" \notin S BY <2>1, <1>2
  <2>7. Tail(d) = <<>> /\ ~ Has(d, {"unlisten"}) BY <2>5, <2>6, <1>1, EndsTail
  <2>8. ~ Has(d, {"persist"})
    <3>1. Has(d, {"persist"}) => Has(Tail(d), {"persist"}) BY <1>1, PlanTail
    <3>2. PICK r : r = Tail(d) OBVIOUS
    <3>3. r = <<>> /\ Len(<<>>) = 0 BY <3>2, <2>7
    <3>4. Len(r) = 0 BY <3>3
    <3>5. ~ Has(r, {"persist"}) BY <3>4 DEF Has
    <3> QED BY <3>1, <3>2, <3>5
  <2> QED BY <2>5, <2>7, <2>8
<1> QED BY <1>1, <1>3, <1>4, <1>5, <1>6, <1>7

\* What a start and an apply put up at last are the endpoints of the manifest on record.
LEMMA ListenListens ==
  ASSUME OneCaller, LInv, PInv', NEW p \in Proc, Listen(p)
  PROVE  LInv'
<1>1. PICK t : t = task[p] OBVIOUS
<1>2. PICK n : n = t.name OBVIOUS
<1>3. /\ t.todo # <<>> /\ Head(t.todo) = "listen" /\ UNCHANGED <<store, manifests>>
      /\ \/ listening' = listening \cup EndpointsAs(n, manifests[n]) /\ Continue(p)
         \/ (\E some \in SUBSET EndpointsAs(n, manifests[n]) : listening' = listening \cup some) /\ Abort(p)
  BY <1>1, <1>2 DEF Listen, At
<1>4. n \in Name /\ HalfWay(t) BY <1>1, <1>2, <1>3, InCall DEF HalfWay
<1>5. /\ \A k \in Name \ {n} : ListenersOf(k)' = ListenersOf(k)
      /\ Continue(p) /\ ~ Abort(p) => ListenersOf(n)' = ListenersOf(n) \cup EndpointsAs(n, manifests[n])
  BY <1>3, <1>4, ListenersChange
<1>6. \A k \in Name \ {n} : store'[k] = store[k] /\ manifests'[k] = manifests[k] /\ ListenersOf(k)' = ListenersOf(k)
  BY <1>3, <1>5
<1>7. PICK u : u = [t EXCEPT !.todo = Tail(@)] OBVIOUS
<1>8. CASE Abort(p) BY <1>8, <1>1, <1>2, <1>3, <1>4, <1>6, CallFails
<1>9. CASE ~ Abort(p) /\ n \in errored BY <1>9, <1>1, <1>2, <1>3, <1>6, <1>7, CallGoesOn
<1>10. CASE ~ Abort(p) /\ n \notin errored
  <2>1. /\ Tail(t.todo) = <<>> /\ ListenersOf(n) \subseteq Wants(n)
        /\ store[n] # NoService /\ store[n].desired = "running"
    BY <1>1, <1>2, <1>3, <1>10, ListenAt
  <2>2. manifests[n] # NoManifest /\ store[n].man = manifests[n] BY <2>1, <1>1, <1>2, <1>3, <1>10, CallAgrees
  <2>3. Wants(n) = EndpointsAs(n, manifests[n]) BY <2>1, <2>2 DEF Wants
  <2>4. Wants(n)' = Wants(n) BY <1>3 DEF Wants
  <2>5. ListenersOf(n)' = Wants(n)' /\ manifests'[n] # NoManifest BY <2>1, <2>2, <2>3, <2>4, <1>3, <1>5, <1>10
  <2> QED BY <2>1, <2>5, <1>1, <1>2, <1>3, <1>6, <1>7, <1>10, CallGoesOn
<1> QED BY <1>8, <1>9, <1>10

\* Every step of a call keeps what is known of the listeners.
LEMMA CallerListens ==
  ASSUME OneCaller, LInv, PInv', NEW p \in Proc, Step(p)
  PROVE  LInv'
<1>1. p \in Caller /\ PInv BY DEF Caller, LInv
<1>2. CASE Ensure(p) \/ Restore(p) \/ Spawn(p) \/ Take(p) \/ Reap(p) \/ Drop(p) \/ Build(p)
  BY <1>1, <1>2, EntriesAlone, PlainListens
<1>3. CASE DockerCreate(p) \/ DockerStart(p) \/ DockerStop(p) \/ DockerRemove(p) \/ DockerInspect(p)
  BY <1>1, <1>3, ContainersAlone, PlainListens
<1>4. CASE Resolve(p) \/ Desire(p) \/ Publish(p) \/ Persist(p)
  BY <1>4, ResolveListens, DesireListens, PublishListens, PersistListens
<1>5. CASE Unpublish(p) \/ Forget(p) \/ Unlisten(p) \/ Listen(p)
  BY <1>5, UnpublishListens, ForgetListens, UnlistenListens, ListenListens
<1> QED BY <1>2, <1>3, <1>4, <1>5 DEF Step

\* Every step does: of the callers, of the start, a restart, and the end of a process or a container.
LEMMA NextListens ==
  ASSUME OneCaller, LInv, [Next]_vars
  PROVE  LInv'
<1>1. PInv' BY NextKnows DEF LInv
<1>2. ASSUME NEW p \in Proc, NEW n \in Name,
             \/ StartBegin(p, n) \/ StopBegin(p, n) \/ RemoveBegin(p, n) \/ InspectBegin(p, n)
             \/ \E m \in Manifest, i \in Id : ApplyBegin(p, n, m, i)
      PROVE  LInv'
  BY <1>1, <1>2, StartBeginListens, StopBeginListens, RemoveBeginListens, InspectBeginListens, ApplyBeginListens
<1>3. ASSUME NEW p \in Caller, Step(p) PROVE LInv' BY <1>1, <1>3, CallerListens, BootRestores DEF Caller
<1>4. ASSUME NEW n \in Name, BootNext(n) PROVE LInv' BY <1>1, <1>4, BootNextListens
<1>5. ASSUME BootRestored \/ BootListRunning \/ BootListDesired \/ BootListen PROVE LInv'
  BY <1>1, <1>5, BootRestoredListens, BootListRunningListens, BootListDesiredListens, BootListenListens
<1>6. ASSUME Restart PROVE LInv' BY <1>1, <1>6, RestartListens
<1>7. ASSUME \/ \E n \in Name : ChildExits(n)
             \/ \E i \in Id : ContainerExits(i) \/ ContainerVanishes(i)
      PROVE  LInv'
  BY <1>7, <1>1, SameListens DEF ChildExits, ContainerExits, ContainerVanishes
<1>8. CASE UNCHANGED vars BY <1>8, <1>1, SameListens DEF vars
<1> QED BY <1>2, <1>3, <1>4, <1>5, <1>6, <1>7, <1>8 DEF Next

\* With one caller at a time, whatever fails and whenever the daemon crashes: each call knows which
\* listeners of its service are still up and which it has still to put up, and the start knows it of
\* the services it has yet to come to.
THEOREM ListenersKnown ==
  ASSUME OneCaller
  PROVE  Spec => []LInv
<1>1. Init => LInv BY InitListens
<1>2. LInv /\ [Next]_vars => LInv' BY NextListens
<1> QED BY <1>1, <1>2, PTL DEF Spec

\* When no call is in progress and the start has come to its end, nothing is left to put up or to
\* take down.
LEMMA ListenersFromInv == LInv => ListenersMatchDesired
<1> SUFFICES ASSUME LInv, Quiet, NEW n \in Name \ errored PROVE ListenersOf(n) = Wants(n)
  BY DEF ListenersMatchDesired, ListenersOf, Wants
<1>1. task[Boot].op = "idle" /\ task[Boot].todo = <<>> /\ task[Boot].found = {} BY IdleFacts DEF Quiet, Started
<1>2. ~ Busy(n) BY DEF LInv, Quiet, Busy, Caller
<1>3. BootExposes(n) BY <1>2 DEF LInv
<1>4. Found(n) = {} BY <1>1 DEF Found
<1> QED BY <1>1, <1>3, <1>4 DEF BootExposes

\* When no call is in progress a service is exposed on the endpoints of its manifest if it is on
\* record as desired to run, and on none otherwise, unless a call on it failed half-way or met the
\* start of the daemon, or the start found it running against its record: control.rs has the
\* listeners follow the record at the end of every call, and apply takes those of the manifest it
\* replaces down before it puts its own up.
THEOREM ExposedAsDesired ==
  ASSUME OneCaller
  PROVE  Spec => []ListenersMatchDesired
<1>1. LInv => ListenersMatchDesired BY ListenersFromInv
<1> QED BY <1>1, ListenersKnown, PTL

==============================================================================
