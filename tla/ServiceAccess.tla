---------------------------- MODULE ServiceAccess ----------------------------
(***************************************************************************)
(* Local access to the services of remote devices                          *)
(* (crates/daemon/src/service_accesses.rs).                                *)
(*                                                                         *)
(* A saved preference binds one endpoint of a remote service to a local    *)
(* port; a forwarding rule is the listener that serves it.  attach, the    *)
(* two forget operations and each step of a restore hold the asynchronous  *)
(* mutex `operations'; detach is synchronous and does not, so it           *)
(* interleaves with the holder at every access to the shared rule table    *)
(* and to the set of detached services.  The steps below are split at      *)
(* exactly those accesses.                                                 *)
(***************************************************************************)
EXTENDS Naturals, FiniteSets

CONSTANTS
  Proc,          \* callers of the API
  Boot,          \* the restore task the daemon spawns when it starts
  Service,       \* (device, service name) pairs
  Endpoint,      \* named entries of those services
  ServiceOf,     \* [Endpoint -> Service]
  Device,
  DeviceOf,      \* [Service -> Device]
  Port,          \* local ports
  Protocol,      \* libp2p protocols
  ProtocolsOf,   \* [Endpoint -> SUBSET Protocol]: those it can be served under
  NoPort, NoProtocol, NoRule, NoProc, NoEndpoint,
  Operations,    \* the operations the callers of a run use
  MayFail        \* can binding, starting a rule or writing the file fail?

Caller == Proc \cup {Boot}

ASSUME ConstantsAssumption ==
  /\ ServiceOf \in [Endpoint -> Service]
  /\ DeviceOf \in [Service -> Device]
  /\ NoPort \notin Port
  /\ NoProtocol \notin Protocol
  /\ ProtocolsOf \in [Endpoint -> SUBSET Protocol]
  /\ NoProc \notin Proc \cup {Boot}
  /\ NoEndpoint \notin Endpoint
  /\ NoRule \notin [ep : Endpoint, port : Port, proto : Protocol]
  /\ MayFail \in BOOLEAN

VARIABLES
  prefs,      \* cache/local_preferences.json: the port saved for each endpoint
  readable,   \* does that file still parse?
  rules,      \* TcpTunnelingControl.forwarding_rules
  detached,   \* ServiceAccessRuntimeState.detached_services
  cached,     \* the protocol the cached device snapshot gives each endpoint
  lock,       \* holder of ServiceAccessesInner.operations
  task,       \* what each caller is doing
  errored     \* history: services for which a call has reported an error
              \* since the last successful attach

vars == <<prefs, readable, rules, detached, cached, lock, task, errored>>

Rule  == [ep : Endpoint, port : Port, proto : Protocol]
Prefs == [Endpoint -> Port \cup {NoPort}]

\* A restore makes two passes over the records, one before and one after it
\* has refreshed the snapshots of the devices concerned.
RestoreOp == {"restore_cached", "restore_refreshed"}
Op == {"idle", "attach", "detach", "forget_service", "forget_device"} \cup RestoreOp

\* The program counters at which the task owns `operations'.
Locked == {"next", "start", "save", "rollback", "undo_check", "undo_add",
           "undo_recheck", "find", "replace", "recheck", "forget_scan",
           "forget_remove", "records"}
Unlocked == {"idle", "attach_wait", "forget_wait", "records_wait", "candidate",
             "restore_wait", "refresh_wait", "refresh", "detach_scan",
             "detach_remove"}

Task == [op : Op, pc : Locked \cup Unlocked,
         svcs : SUBSET Service,            \* the services the call is about
         todo : SUBSET Endpoint,           \* endpoints still to be processed
         want : Port \cup {NoPort},        \* local port the user asked for
         proto : [Endpoint -> Protocol \cup {NoProtocol}],
                                           \* protocols seen before locking
         ep : Endpoint \cup {NoEndpoint},  \* the endpoint being processed
         port : Port \cup {NoPort},        \* the port selected for it
         copy : Prefs,                     \* local_preferences
         active : SUBSET Rule,             \* active_rules
         old : Rule \cup {NoRule},         \* removed_active_rule
         new : Rule \cup {NoRule},         \* started_rule_id
         victims : SUBSET Rule]            \* rules_to_remove

\* What the devices may say of the endpoints.
Snapshots ==
  {c \in [Endpoint -> Protocol \cup {NoProtocol}] :
     \A e \in Endpoint : c[e] \in ProtocolsOf[e] \cup {NoProtocol}}

NoPrefs == [e \in Endpoint |-> NoPort]

Idle == [op |-> "idle", pc |-> "idle", svcs |-> {}, todo |-> {},
         want |-> NoPort, proto |-> [e \in Endpoint |-> NoProtocol],
         ep |-> NoEndpoint, port |-> NoPort, copy |-> NoPrefs, active |-> {},
         old |-> NoRule, new |-> NoRule, victims |-> {}]

RestoreTask == [Idle EXCEPT !.op = "restore_cached", !.pc = "records_wait"]

TypeOK ==
  /\ prefs \in Prefs
  /\ readable \in BOOLEAN
  /\ rules \subseteq Rule
  /\ detached \subseteq Service
  /\ cached \in [Endpoint -> Protocol \cup {NoProtocol}]
  /\ lock \in Caller \cup {NoProc}
  /\ task \in [Caller -> Task]
  /\ errored \subseteq Service

-----------------------------------------------------------------------------
\* Operators

EndpointsOf(s) == {e \in Endpoint : ServiceOf[e] = s}

\* No two saved records have the same port (with_upserted_record).
DistinctPorts(f) ==
  \A d, e \in Endpoint : d # e /\ f[d] = f[e] => f[d] = NoPort

\* generate_forwarding_rule_id: local address, peer and protocol.
SameRuleId(r, q) ==
  /\ r.port = q.port
  /\ r.proto = q.proto
  /\ DeviceOf[ServiceOf[r.ep]] = DeviceOf[ServiceOf[q.ep]]

\* add_forwarding_rule and remove_forwarding_rule go by the identifier.
CanAdd(r) == \A q \in rules : ~ SameRuleId(r, q)
HasRule(r) == ~ CanAdd(r)
WithoutRule(r) == {q \in rules : ~ SameRuleId(r, q)}

\* find_active_rule
RulesFor(e, R) == {r \in R : r.ep = e}

\* The ports attach may not take for e (reserved_local_ports with the record
\* and the rule of e taken out).
Reserved(t, e) ==
  {t.copy[d] : d \in Endpoint \ {e}} \cup {r.port : r \in {q \in t.active : q.ep # e}}

\* local_port, else the port of the saved record, else a free one.
SelectablePorts(t, e) ==
  CASE t.want # NoPort    -> {t.want}
    [] t.copy[e] # NoPort -> {t.copy[e]}
    [] OTHER              -> Port \ Reserved(t, e)

OwnsPort(t, e, port) == \E r \in RulesFor(e, t.active) : r.port = port
Matches(t, e, port) ==
  \E r \in RulesFor(e, t.active) : r.port = port /\ r.proto = t.proto[e]

\* Mutant: the port the user asks for is taken as it is.
PortUnchecked(t, e, port) == TRUE

\* ensure_local_port_available and the check of with_upserted_record.
PortAllowed(t, e, port) ==
  /\ \A d \in Endpoint \ {e} : t.copy[d] # port
  /\ OwnsPort(t, e, port) \/ port \notin Reserved(t, e)

\* remove_matching_rules: the rules of the services a call is about.
MatchingRules(t) == {r \in rules : ServiceOf[r.ep] \in t.svcs}

\* What std::fs::write can leave behind when it fails: the file as it was, or
\* a truncated one that no longer parses.
FailedWrite == MayFail /\ readable' \in {readable, FALSE} /\ prefs' = prefs

Goto(p, pc) == task' = [task EXCEPT ![p].pc = pc]
Release == lock' = NoProc

\* The call of p returns; err tells the caller of a failure.
Return(p, err) ==
  /\ task' = [task EXCEPT ![p] = Idle]
  /\ errored' = IF err THEN errored \cup task[p].svcs ELSE errored

\* The restore of one candidate is over, whatever its outcome was: errors are
\* only logged.
NextCandidate(p) ==
  /\ Release
  /\ task' = [task EXCEPT ![p] = [Idle EXCEPT !.op = task[p].op,
                                !.pc = "candidate", !.todo = task[p].todo]]
  /\ UNCHANGED errored

\* An operation that holds the mutex fails.
Fail(p) ==
  IF task[p].op \in RestoreOp THEN NextCandidate(p)
                            ELSE Release /\ Return(p, TRUE)

-----------------------------------------------------------------------------
Init ==
  /\ prefs \in {f \in Prefs : DistinctPorts(f)}
  /\ readable = TRUE
  /\ rules = {}
  /\ detached = {}
  /\ cached \in Snapshots
  /\ lock = NoProc
  /\ task = [p \in Caller |-> IF p = Boot THEN RestoreTask ELSE Idle]
  /\ errored = {}

\* A refresh of a device stores what the device now says of an endpoint.
Refresh(e, pr) ==
  /\ "refresh" \in Operations
  /\ cached' = [cached EXCEPT ![e] = pr]
  /\ UNCHANGED <<prefs, readable, rules, detached, lock, task, errored>>

-----------------------------------------------------------------------------
\* attach

\* The caller has inspected the service, which also refreshed the snapshot.
\* A fixed port needs a single entry.
AttachBegin(p, s, eps, w) ==
  /\ "attach" \in Operations
  /\ task[p].pc = "idle"
  /\ eps # {} /\ eps \subseteq {e \in EndpointsOf(s) : cached[e] # NoProtocol}
  /\ \/ eps = {e \in EndpointsOf(s) : cached[e] # NoProtocol}
     \/ Cardinality(eps) = 1
  /\ w # NoPort => Cardinality(eps) = 1
  /\ task' = [task EXCEPT ![p] =
       [Idle EXCEPT !.op = "attach", !.pc = "attach_wait", !.svcs = {s},
                    !.todo = eps, !.want = w, !.proto = cached]]
  /\ UNCHANGED <<prefs, readable, rules, detached, cached, lock, errored>>

\* Mutant: the records are read before the mutex is waited for.
AttachReadsEarly(p) ==
  /\ task[p].pc = "attach_wait" /\ readable
  /\ \/ /\ task[p].copy = NoPrefs /\ lock # NoProc
        /\ task' = [task EXCEPT ![p].copy = prefs]
        /\ UNCHANGED lock
     \/ /\ lock = NoProc
        /\ lock' = p
        /\ task' = [task EXCEPT ![p].pc = "next", ![p].active = rules,
             ![p].copy = IF @ = NoPrefs THEN prefs ELSE @]
  /\ UNCHANGED <<prefs, readable, rules, detached, cached, errored>>

\* operations.lock(), then local_preferences()? and forwarding_rules().
AttachLock(p) ==
  /\ task[p].pc = "attach_wait"
  /\ lock = NoProc
  /\ IF readable
     THEN /\ lock' = p
          /\ task' = [task EXCEPT ![p].pc = "next", ![p].copy = prefs,
                                  ![p].active = rules]
          /\ UNCHANGED errored
     ELSE Return(p, TRUE) /\ UNCHANGED lock
  /\ UNCHANGED <<prefs, readable, rules, detached, cached>>

\* One endpoint: select its port and take down the rule in its way.
AttachEndpoint(p, e, port) ==
  LET t == task[p]
      u == [t EXCEPT !.ep = e, !.port = port, !.todo = t.todo \ {e}]
  IN
  /\ t.pc = "next" /\ e \in t.todo
  /\ port \in SelectablePorts(t, e)
  /\ PortAllowed(t, e, port)
  /\ \/ /\ Matches(t, e, port)
        /\ task' = [task EXCEPT ![p] = [u EXCEPT !.pc = "save"]]
        /\ UNCHANGED <<rules, lock, errored>>
     \/ /\ RulesFor(e, t.active) = {}
        /\ task' = [task EXCEPT ![p] = [u EXCEPT !.pc = "start"]]
        /\ UNCHANGED <<rules, lock, errored>>
     \/ /\ ~ Matches(t, e, port)
        /\ \E r \in RulesFor(e, t.active) :
             IF HasRule(r)
             THEN /\ rules' = WithoutRule(r)
                  /\ task' = [task EXCEPT ![p] =
                                [u EXCEPT !.pc = "start", !.old = r]]
                  /\ UNCHANGED <<lock, errored>>
             ELSE Fail(p) /\ UNCHANGED rules
  /\ UNCHANGED <<prefs, readable, detached, cached>>

\* The port is taken by another program or another record, or none is free.
AttachNoPort(p, e) ==
  LET t == task[p] IN
  /\ t.pc = "next" /\ e \in t.todo
  /\ \/ \E port \in SelectablePorts(t, e) :
          \/ ~ PortAllowed(t, e, port)
          \/ MayFail /\ ~ OwnsPort(t, e, port)
     \/ SelectablePorts(t, e) = {}
  /\ Fail(p)
  /\ UNCHANGED <<prefs, readable, rules, detached, cached>>

\* start_forwarding_rule, for attach and for restore.
StartRule(p) ==
  LET t == task[p]
      r == [ep |-> t.ep, port |-> t.port, proto |-> t.proto[t.ep]]
      failed == IF t.old # NoRule
                THEN Goto(p, "undo_check") /\ UNCHANGED <<lock, errored>>
                ELSE Fail(p)
  IN
  /\ t.pc = "start"
  /\ \/ /\ CanAdd(r)
        /\ rules' = rules \cup {r}
        /\ task' = [task EXCEPT ![p].new = r,
             ![p].pc = IF t.op = "attach" THEN "save" ELSE "recheck"]
        /\ UNCHANGED <<lock, errored>>
     \/ /\ ~ CanAdd(r) \/ MayFail
        /\ failed
        /\ UNCHANGED rules
  /\ UNCHANGED <<prefs, readable, detached, cached>>

\* save_to_file writes the whole of the copy; the next endpoint sees the new
\* copy and, if a rule changed, a new list of rules.
AttachSave(p) ==
  LET t == task[p]
      saved == [t.copy EXCEPT ![t.ep] = t.port]
  IN
  /\ t.pc = "save"
  /\ \/ /\ prefs' = saved
        /\ task' = [task EXCEPT ![p] =
             [t EXCEPT !.pc = "next", !.copy = saved,
                       !.active = IF t.new # NoRule THEN rules ELSE t.active,
                       !.ep = NoEndpoint, !.port = NoPort,
                       !.old = NoRule, !.new = NoRule]]
        /\ UNCHANGED <<readable, lock, errored>>
     \/ /\ FailedWrite
        /\ IF t.new # NoRule
           THEN Goto(p, "rollback") /\ UNCHANGED <<lock, errored>>
           ELSE Fail(p)
  /\ UNCHANGED <<rules, detached, cached>>

\* Mutant: the listener stays.
NoRollback(p) ==
  /\ task[p].pc = "rollback"
  /\ IF task[p].old # NoRule
     THEN Goto(p, "undo_check") /\ UNCHANGED <<lock, errored>>
     ELSE Fail(p)
  /\ UNCHANGED <<prefs, readable, rules, detached, cached>>

\* Mutant: the old listener is brought back, the new one stays.
RollbackBeside(p) ==
  LET t == task[p] IN
  /\ t.pc = "rollback"
  /\ IF t.old # NoRule
     THEN Goto(p, "undo_check") /\ UNCHANGED <<rules, lock, errored>>
     ELSE rules' = WithoutRule(t.new) /\ Fail(p)
  /\ UNCHANGED <<prefs, readable, detached, cached>>

\* The listener started for a record that could not be saved is taken down;
\* that it is gone already is only logged.
Rollback(p) ==
  LET t == task[p] IN
  /\ t.pc = "rollback"
  /\ rules' = WithoutRule(t.new)
  /\ IF t.old # NoRule
     THEN Goto(p, "undo_check") /\ UNCHANGED <<lock, errored>>
     ELSE Fail(p)
  /\ UNCHANGED <<prefs, readable, detached, cached>>

\* restore_forwarding_rule_if_attached, up to the insertion ...
UndoCheck(p) ==
  /\ task[p].pc = "undo_check"
  /\ IF ServiceOf[task[p].old.ep] \in detached
     THEN Fail(p)
     ELSE Goto(p, "undo_add") /\ UNCHANGED <<lock, errored>>
  /\ UNCHANGED <<prefs, readable, rules, detached, cached>>

UndoAdd(p) ==
  LET r == task[p].old IN
  /\ task[p].pc = "undo_add"
  /\ \/ /\ CanAdd(r)
        /\ rules' = rules \cup {r}
        /\ Goto(p, "undo_recheck")
        /\ UNCHANGED <<lock, errored>>
     \/ /\ ~ CanAdd(r) \/ MayFail
        /\ UNCHANGED rules
        /\ Fail(p)
  /\ UNCHANGED <<prefs, readable, detached, cached>>

\* ... and after it.
UndoRecheck(p) ==
  LET r == task[p].old IN
  /\ task[p].pc = "undo_recheck"
  /\ rules' = IF ServiceOf[r.ep] \in detached THEN WithoutRule(r) ELSE rules
  /\ Fail(p)
  /\ UNCHANGED <<prefs, readable, detached, cached>>

\* clear_detached and the return that drops the mutex guard.
AttachDone(p) ==
  LET t == task[p] IN
  /\ t.pc = "next" /\ t.todo = {}
  /\ detached' = detached \ t.svcs
  /\ errored' = errored \ t.svcs
  /\ task' = [task EXCEPT ![p] = Idle]
  /\ Release
  /\ UNCHANGED <<prefs, readable, rules, cached>>

-----------------------------------------------------------------------------
\* detach: not under `operations'

DetachBegin(p, s) ==
  /\ "detach" \in Operations
  /\ task[p].pc = "idle"
  /\ detached' = detached \cup {s}
  /\ task' = [task EXCEPT ![p] = [Idle EXCEPT !.op = "detach",
                                              !.pc = "detach_scan", !.svcs = {s}]]
  /\ UNCHANGED <<prefs, readable, rules, cached, lock, errored>>

DetachScan(p) ==
  /\ task[p].pc = "detach_scan"
  /\ task' = [task EXCEPT ![p].victims = MatchingRules(task[p]),
                          ![p].pc = "detach_remove"]
  /\ UNCHANGED <<prefs, readable, rules, detached, cached, lock, errored>>

\* The table is a hash map: the order of the removals is arbitrary.  A rule
\* that is gone already ends the call with an error.
DetachRemove(p) ==
  LET t == task[p] IN
  /\ t.pc = "detach_remove"
  /\ \/ /\ t.victims = {}
        /\ Return(p, FALSE)
        /\ UNCHANGED rules
     \/ \E r \in t.victims :
          IF HasRule(r)
          THEN /\ rules' = WithoutRule(r)
               /\ task' = [task EXCEPT ![p].victims = @ \ {r}]
               /\ UNCHANGED errored
          ELSE Return(p, TRUE) /\ UNCHANGED rules
  /\ UNCHANGED <<prefs, readable, detached, cached, lock>>

-----------------------------------------------------------------------------
\* forget_service and forget_device

ForgetServiceBegin(p, s) ==
  /\ "forget_service" \in Operations
  /\ task[p].pc = "idle"
  /\ task' = [task EXCEPT ![p] = [Idle EXCEPT !.op = "forget_service",
                                              !.pc = "forget_wait", !.svcs = {s}]]
  /\ UNCHANGED <<prefs, readable, rules, detached, cached, lock, errored>>

ForgetDeviceBegin(p, d) ==
  /\ "forget_device" \in Operations
  /\ task[p].pc = "idle"
  /\ task' = [task EXCEPT ![p] =
       [Idle EXCEPT !.op = "forget_device", !.pc = "forget_wait",
                    !.svcs = {s \in Service : DeviceOf[s] = d}]]
  /\ UNCHANGED <<prefs, readable, rules, detached, cached, lock, errored>>

\* forget_device reads the file first and flags the services that have
\* records; forget_service flags its service and reads the file only later.
ForgetLock(p) ==
  LET t == task[p]
      recorded == {s \in t.svcs : \E e \in EndpointsOf(s) : prefs[e] # NoPort}
  IN
  /\ t.pc = "forget_wait"
  /\ lock = NoProc
  /\ IF t.op = "forget_device" /\ ~ readable
     THEN Return(p, TRUE) /\ UNCHANGED <<lock, detached>>
     ELSE /\ lock' = p
          /\ Goto(p, "forget_scan")
          /\ detached' = detached \cup
               (IF t.op = "forget_device" THEN recorded ELSE t.svcs)
          /\ UNCHANGED errored
  /\ UNCHANGED <<prefs, readable, rules, cached>>

ForgetScan(p) ==
  /\ task[p].pc = "forget_scan"
  /\ task' = [task EXCEPT ![p].victims = MatchingRules(task[p]),
                          ![p].pc = "forget_remove"]
  /\ UNCHANGED <<prefs, readable, rules, detached, cached, lock, errored>>

ForgetRemove(p) ==
  LET t == task[p] IN
  /\ t.pc = "forget_remove"
  /\ \/ /\ t.victims = {}
        /\ Goto(p, "records")
        /\ UNCHANGED <<rules, lock, errored>>
     \/ \E r \in t.victims :
          IF HasRule(r)
          THEN /\ rules' = WithoutRule(r)
               /\ task' = [task EXCEPT ![p].victims = @ \ {r}]
               /\ UNCHANGED <<lock, errored>>
          ELSE Fail(p) /\ UNCHANGED rules
  /\ UNCHANGED <<prefs, readable, detached, cached>>

\* remove_service_records / remove_device_records
ForgetRecords(p) ==
  LET t == task[p] IN
  /\ t.pc = "records"
  /\ \/ /\ readable
        /\ prefs' = [e \in Endpoint |->
                       IF ServiceOf[e] \in t.svcs THEN NoPort ELSE prefs[e]]
        /\ Release
        /\ Return(p, FALSE)
        /\ UNCHANGED readable
     \/ /\ ~ readable
        /\ Fail(p)
        /\ UNCHANGED <<prefs, readable>>
     \/ /\ readable
        /\ FailedWrite
        /\ Fail(p)
  /\ UNCHANGED <<rules, detached, cached>>

-----------------------------------------------------------------------------
\* restore_from_cached_snapshots

RestoreBegin(p) ==
  /\ "restore" \in Operations
  /\ task[p].pc = "idle"
  /\ task' = [task EXCEPT ![p] = RestoreTask]
  /\ UNCHANGED <<prefs, readable, rules, detached, cached, lock, errored>>

\* preference_records: the mutex is taken and dropped again.
PreferenceRecords(p) ==
  /\ task[p].pc = "records_wait"
  /\ lock = NoProc
  /\ task' = [task EXCEPT ![p] =
       IF readable
       THEN [task[p] EXCEPT !.pc = "candidate",
                            !.todo = {e \in Endpoint : prefs[e] # NoPort}]
       ELSE Idle]
  /\ UNCHANGED <<prefs, readable, rules, detached, cached, lock, errored>>

\* The cached snapshot is consulted before the mutex is taken.
RestoreCandidate(p, e) ==
  LET t == task[p] IN
  /\ t.pc = "candidate" /\ e \in t.todo
  /\ task' = [task EXCEPT ![p] =
       IF cached[e] = NoProtocol
       THEN [t EXCEPT !.todo = @ \ {e}]
       ELSE [t EXCEPT !.todo = @ \ {e}, !.ep = e, !.pc = "restore_wait",
                      !.proto[e] = cached[e]]]
  /\ UNCHANGED <<prefs, readable, rules, detached, cached, lock, errored>>

\* The end of a pass.
RestoreDone(p) ==
  LET t == task[p] IN
  /\ t.pc = "candidate" /\ t.todo = {}
  /\ task' = [task EXCEPT ![p] =
       IF t.op = "restore_cached" THEN [t EXCEPT !.pc = "refresh_wait"] ELSE Idle]
  /\ UNCHANGED <<prefs, readable, rules, detached, cached, lock, errored>>

\* restore_saved_service_accesses between the passes: preference_records names
\* the devices ...
RestoreRefreshList(p) ==
  LET t == task[p] IN
  /\ t.pc = "refresh_wait"
  /\ lock = NoProc
  /\ task' = [task EXCEPT ![p] =
       IF readable
       THEN [t EXCEPT !.pc = "refresh",
                      !.svcs = {s \in Service : \E e \in Endpoint :
                         prefs[e] # NoPort /\ DeviceOf[ServiceOf[e]] = DeviceOf[s]}]
       ELSE Idle]
  /\ UNCHANGED <<prefs, readable, rules, detached, cached, lock, errored>>

\* Mutant: the records are not gone through again.
RefreshWithoutRestore(p, live, devices) ==
  LET t == task[p] IN
  /\ t.pc = "refresh"
  /\ devices \subseteq {DeviceOf[s] : s \in t.svcs}
  /\ cached' = [e \in Endpoint |->
       IF DeviceOf[ServiceOf[e]] \in devices THEN live[e] ELSE cached[e]]
  /\ task' = [task EXCEPT ![p] = Idle]
  /\ UNCHANGED <<prefs, readable, rules, detached, lock, errored>>

\* ... that are refreshed together; a device that does not answer keeps its
\* snapshot, one that does now offers live.
RestoreRefresh(p, live, devices) ==
  LET t == task[p] IN
  /\ t.pc = "refresh"
  /\ devices \subseteq {DeviceOf[s] : s \in t.svcs}
  /\ cached' = [e \in Endpoint |->
       IF DeviceOf[ServiceOf[e]] \in devices THEN live[e] ELSE cached[e]]
  /\ task' = [task EXCEPT ![p] = [RestoreTask EXCEPT !.op = "restore_refreshed"]]
  /\ UNCHANGED <<prefs, readable, rules, detached, lock, errored>>

\* restore_current_record: skip a detached service, read the record again.
RestoreLock(p) ==
  LET t == task[p] IN
  /\ t.pc = "restore_wait"
  /\ lock = NoProc
  /\ IF ServiceOf[t.ep] \in detached \/ ~ readable \/ prefs[t.ep] = NoPort
     THEN NextCandidate(p)
     ELSE /\ lock' = p
          /\ task' = [task EXCEPT ![p].pc = "find", ![p].port = prefs[t.ep]]
          /\ UNCHANGED errored
  /\ UNCHANGED <<prefs, readable, rules, detached, cached>>

\* restore_forwarding_record: what is active for the endpoint?
RestoreFind(p) ==
  LET t == task[p] IN
  /\ t.pc = "find"
  /\ \/ /\ RulesFor(t.ep, rules) = {}
        /\ Goto(p, "start")
        /\ UNCHANGED <<lock, errored>>
     \/ \E r \in RulesFor(t.ep, rules) :
          IF r.port = t.port /\ r.proto = t.proto[t.ep]
          THEN NextCandidate(p)
          ELSE /\ task' = [task EXCEPT ![p].pc = "replace", ![p].old = r]
               /\ UNCHANGED <<lock, errored>>
  /\ UNCHANGED <<prefs, readable, rules, detached, cached>>

RestoreReplace(p) ==
  LET t == task[p] IN
  /\ t.pc = "replace"
  /\ IF HasRule(t.old)
     THEN /\ rules' = WithoutRule(t.old)
          /\ Goto(p, "start")
          /\ UNCHANGED <<lock, errored>>
     ELSE Fail(p) /\ UNCHANGED rules
  /\ UNCHANGED <<prefs, readable, detached, cached>>

\* Mutant: no second look at the detached services.
RestoreNoRecheck(p) ==
  /\ task[p].pc = "recheck"
  /\ NextCandidate(p)
  /\ UNCHANGED <<prefs, readable, rules, detached, cached>>

\* "Re-check after insertion": a detach that came meanwhile wins.
RestoreRecheck(p) ==
  LET t == task[p] IN
  /\ t.pc = "recheck"
  /\ rules' = IF ServiceOf[t.ep] \in detached THEN WithoutRule(t.new) ELSE rules
  /\ NextCandidate(p)
  /\ UNCHANGED <<prefs, readable, detached, cached>>

-----------------------------------------------------------------------------
\* The daemon stops at any point and starts again; what was in memory is gone,
\* and a file being written may be left truncated.
Restart ==
  /\ "restart" \in Operations
  /\ rules' = {} /\ detached' = {} /\ errored' = {}
  /\ lock' = NoProc
  /\ task' = [p \in Caller |-> IF p = Boot THEN RestoreTask ELSE Idle]
  /\ readable' \in {readable} \cup
       (IF \E p \in Caller : task[p].pc \in {"save", "records"} THEN {FALSE} ELSE {})
  /\ UNCHANGED <<prefs, cached>>

AttachStep(p) ==
  \/ AttachLock(p)
  \/ \E e \in Endpoint, port \in Port : AttachEndpoint(p, e, port)
  \/ \E e \in Endpoint : AttachNoPort(p, e)
  \/ AttachSave(p) \/ Rollback(p) \/ AttachDone(p)

SharedStep(p) == StartRule(p) \/ UndoCheck(p) \/ UndoAdd(p) \/ UndoRecheck(p)

DetachStep(p) == DetachScan(p) \/ DetachRemove(p)

ForgetStep(p) ==
  ForgetLock(p) \/ ForgetScan(p) \/ ForgetRemove(p) \/ ForgetRecords(p)

RestoreStep(p) ==
  \/ PreferenceRecords(p) \/ RestoreDone(p) \/ RestoreLock(p)
  \/ \E e \in Endpoint : RestoreCandidate(p, e)
  \/ RestoreFind(p) \/ RestoreReplace(p) \/ RestoreRecheck(p)
  \/ RestoreRefreshList(p)
  \/ \E live \in Snapshots, devices \in SUBSET Device :
       RestoreRefresh(p, live, devices)

Begin(p) ==
  \/ \E s \in Service, eps \in SUBSET Endpoint, w \in Port \cup {NoPort} :
       AttachBegin(p, s, eps, w)
  \/ \E s \in Service : DetachBegin(p, s) \/ ForgetServiceBegin(p, s)
  \/ \E d \in Device : ForgetDeviceBegin(p, d)
  \/ RestoreBegin(p)

Step(p) ==
  AttachStep(p) \/ SharedStep(p) \/ DetachStep(p) \/ ForgetStep(p) \/ RestoreStep(p)

Next ==
  \/ \E p \in Proc : Begin(p)
  \/ \E p \in Caller : Step(p)
  \/ \E e \in Endpoint : \E pr \in ProtocolsOf[e] \cup {NoProtocol} : Refresh(e, pr)
  \/ Restart

Spec == Init /\ [][Next]_vars

\* A call in progress runs on (tokio polls a ready task again); the mutex is
\* handed out in the order of the requests, so a waiting call is not passed
\* over for ever.
FairSpec == Spec /\ \A p \in Caller : SF_vars(Step(p))

-----------------------------------------------------------------------------
\* Properties

\* No call is in progress.
Quiet == \A p \in Caller : task[p].pc = "idle"

\* No two active listeners forward the same local port, whichever attach,
\* restore and detach calls overlap: attach chooses a port against the records
\* and rules it read when it took `operations'.
ListenerPortsUnique ==
  \A r, q \in rules : r.port = q.port => r = q

\* An endpoint never has two listeners: replacing one takes the old one down
\* first, and undoing a failed replacement does not bring it back beside the
\* new one.
OneListenerPerEndpoint ==
  \A r, q \in rules : r.ep = q.ep => r = q

\* Whenever no operation holds the mutex, an active listener is backed by a
\* saved record with its port: a failed save is rolled back, and a restore
\* that started from stale records does not revive a forgotten access.
ListenerHasRecord ==
  lock = NoProc /\ readable => \A r \in rules : prefs[r.ep] = r.port

\* A step changes the saved port only of the endpoint being attached or of the
\* services being forgotten: no call overwrites the record another one saved
\* (each writes the whole file from its own copy).
SavedRecordsSurvive ==
  [][\A e \in Endpoint : prefs'[e] # prefs[e] =>
       \E p \in Caller :
         \/ task[p].pc = "save" /\ task[p].ep = e
         \/ task[p].pc = "records" /\ ServiceOf[e] \in task[p].svcs]_vars

\* Once all calls have returned, a service marked as detached has an active
\* listener only if some call reported an error to its caller since the last
\* successful attach: a background restore never revives it silently.
DetachNeverFailsSilently ==
  Quiet => \A r \in rules : ServiceOf[r.ep] \in detached => ServiceOf[r.ep] \in errored

\* A daemon that is no longer restarted ends up serving every saved record it
\* has a cached endpoint for, unless its service was detached in this session.
SavedAccessesRestored ==
  <>[](readable => \A e \in Endpoint :
         prefs[e] # NoPort /\ cached[e] # NoProtocol /\ ServiceOf[e] \notin detached
           => \E r \in rules : r.ep = e /\ r.port = prefs[e] /\ r.proto = cached[e])
=============================================================================
