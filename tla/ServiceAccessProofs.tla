------------------------ MODULE ServiceAccessProofs ------------------------
(***************************************************************************)
(* For any number of callers, devices, services, endpoints and ports, with *)
(* every operation and every failure: an endpoint has one listener, a port *)
(* one owner, a listener a saved record, a record is not overwritten by    *)
(* the save of another one, and a detached service has a listener only     *)
(* after a call has reported an error.                                     *)
(***************************************************************************)
EXTENDS ServiceAccess, TLAPS

Backed(r) == prefs[r.ep] = r.port
Vacant(e) == \A r \in rules : r.ep # e

\* What a call knows by itself: which operation it belongs to, and that the
\* endpoints it works on are those of its services, with a protocol.
Call(t) ==
  /\ t.pc \in {"attach_wait", "next", "save", "rollback"} => t.op = "attach"
  /\ t.pc \in {"records_wait", "candidate", "restore_wait", "refresh_wait",
               "refresh", "find", "replace", "recheck"} => t.op \in RestoreOp
  /\ t.pc \in {"start", "undo_check", "undo_add", "undo_recheck"} =>
       t.op \in {"attach"} \cup RestoreOp
  /\ t.pc \in {"forget_wait", "forget_scan", "forget_remove", "records"} =>
       t.op \in {"forget_service", "forget_device"}
  /\ t.op = "attach" =>
       \A e \in t.todo : t.proto[e] \in Protocol /\ ServiceOf[e] \in t.svcs
  /\ t.op = "attach" /\ t.pc \in {"start", "save", "rollback"} => ServiceOf[t.ep] \in t.svcs
  /\ t.pc \in {"restore_wait", "find", "replace", "start", "save", "rollback", "recheck"} =>
       t.ep \in Endpoint /\ t.proto[t.ep] \in Protocol
  /\ t.pc \in {"find", "replace", "start", "save", "rollback"} => t.port \in Port
  /\ t.pc \in {"attach_wait", "next", "records_wait", "candidate", "restore_wait",
               "find", "replace", "start"} => t.new = NoRule
  /\ t.pc \in {"rollback", "recheck"} => t.new # NoRule
  /\ t.pc \in {"save", "rollback", "recheck"} /\ t.new # NoRule =>
       t.new.ep = t.ep /\ t.new.port = t.port
  /\ t.pc \in {"attach_wait", "next", "records_wait", "candidate", "restore_wait",
               "find"} => t.old = NoRule
  /\ t.pc \in {"replace", "undo_check", "undo_add", "undo_recheck"} => t.old # NoRule
  /\ t.pc \in {"replace", "start", "save", "rollback"} /\ t.old # NoRule => t.old.ep = t.ep

\* The copy of the file and the list of rules an attach works with are current,
\* but for the rule it has started itself and those a detach has removed.
Copied(t) ==
  t.op = "attach" /\ t.pc \in {"next", "start", "save", "rollback"} =>
    /\ t.copy = prefs
    /\ \A r \in t.active : Backed(r)
    /\ \A r, q \in t.active : r.ep = q.ep => r = q
    /\ rules \subseteq t.active \cup {t.new}

\* What the holder of the mutex knows about the table and the file.
Known(t) ==
  /\ t.pc \in {"find", "replace"} => t.port = prefs[t.ep]
  /\ t.pc = "start" /\ t.op # "attach" => t.port = prefs[t.ep]
  /\ t.pc \in {"start", "save", "rollback"} =>
       /\ \A d \in Endpoint : d # t.ep => prefs[d] # t.port
       /\ t.old # NoRule => Backed(t.old)
  /\ t.pc = "start" => Vacant(t.ep)
  /\ t.pc \in {"save", "rollback"} =>
       /\ t.new = NoRule => t.port = prefs[t.ep]
       /\ t.new # NoRule => \A r \in rules : r.ep = t.ep => r = t.new
  /\ t.pc = "replace" => Backed(t.old) /\ \A r \in rules : r.ep = t.ep => r = t.old
  /\ t.pc \in {"undo_check", "undo_add"} => Backed(t.old) /\ Vacant(t.old.ep)
  /\ t.pc = "forget_remove" => MatchingRules(t) \subseteq t.victims
  /\ t.pc = "records" => MatchingRules(t) = {}

\* r is the listener of the record that t saves.
Saving(t, r) == t.pc \in {"save", "rollback"} /\ t.new = r

\* t will take r down, clear the detachment of its service or report an error.
Handles(t, r) ==
  LET s == ServiceOf[r.ep] IN
  \/ t.pc = "detach_scan" /\ s \in t.svcs
  \/ t.pc = "detach_remove" /\ s \in t.svcs /\ r \in t.victims
  \/ t.pc \in Locked /\ t.op = "attach" /\ s \in t.svcs
  \/ t.pc = "forget_scan" /\ s \in t.svcs
  \/ t.pc = "forget_remove" /\ s \in t.svcs /\ r \in t.victims
  \/ t.pc = "recheck" /\ r = t.new
  \/ t.pc = "undo_recheck" /\ r = t.old

\* Who is between taking and dropping `operations' is its holder.
LockInv == \A p \in Caller : task[p].pc \in Locked <=> lock = p

CallInv == \A p \in Caller : Call(task[p]) /\ Copied(task[p]) /\ Known(task[p])

\* A rule is backed by its record unless it is the one being saved.
BackedInv ==
  \A r \in rules : Backed(r) \/ \E p \in Caller : Saving(task[p], r)

DetachInv ==
  \A r \in rules :
    ServiceOf[r.ep] \in detached =>
      ServiceOf[r.ep] \in errored \/ \E p \in Caller : Handles(task[p], r)

RulesInv == DistinctPorts(prefs) /\ OneListenerPerEndpoint /\ ListenerPortsUnique

IInv == TypeOK /\ LockInv /\ CallInv /\ RulesInv /\ BackedInv /\ DetachInv

-----------------------------------------------------------------------------
\* A step of p alone.
Moves(p, u) == task' = [task EXCEPT ![p] = u]

\* The mutex is taken, dropped or left alone by p.
LockMoves(p, u) ==
  /\ u.pc \in Locked <=> lock' = p
  /\ lock' = lock \/ (lock = NoProc /\ lock' = p) \/ (lock = p /\ lock' = NoProc)

\* What other callers rely on is left: the file and the rules belong to the
\* holder of the mutex, except that anyone may remove a rule.
Gentle(p) == task[p].pc \in Locked \/ (prefs' = prefs /\ rules' \subseteq rules)

\* The types of the variables no other caller relies on.
Others ==
  /\ readable' \in BOOLEAN
  /\ detached' \subseteq Service
  /\ cached' \in [Endpoint -> Protocol \cup {NoProtocol}]
  /\ errored' \subseteq Service

\* A step of p keeps the ownership of `operations' and what every call knows:
\* another call relies on the file and the rules only while it holds the mutex,
\* and then p can at most remove rules (detach).
LEMMA MoveInv ==
  ASSUME TypeOK, LockInv, CallInv, NEW p \in Caller, NEW u \in Task,
         Moves(p, u), LockMoves(p, u), Gentle(p),
         Call(u), Copied(u)', Known(u)'
  PROVE  LockInv' /\ CallInv'
<1>1. /\ task' \in [Caller -> Task] /\ task'[p] = u
      /\ \A q \in Caller : q # p => task'[q] = task[q]
  BY DEF Moves, TypeOK
<1>2. LockInv'
  BY <1>1, ConstantsAssumption DEF LockInv, LockMoves, Caller
<1>3. ASSUME NEW q \in Caller, q # p PROVE Copied(task[q])' /\ Known(task[q])'
  <2>1. task'[q] = task[q]
    BY <1>1, <1>3
  <2>2. CASE task[q].pc \in Locked
    <3>1. prefs' = prefs /\ rules' \subseteq rules
      BY <1>3, <2>2 DEF LockInv, Gentle
    <3> QED
      BY <2>1, <3>1 DEF CallInv, Copied, Known, Backed, Vacant, MatchingRules
  <2>3. CASE task[q].pc \notin Locked
    BY <2>1, <2>3 DEF Copied, Known, Locked
  <2> QED
    BY <2>2, <2>3
<1> QED
  BY <1>1, <1>2, <1>3 DEF CallInv, Call

-----------------------------------------------------------------------------
\* A step that adds no rule and leaves the file alone keeps the invariant; what
\* the rest of the invariant asks of it is asked of p only.
LEMMA StepInv ==
  ASSUME IInv, NEW p \in Caller, NEW t \in Task, t = task[p],
         NEW u \in Task, Moves(p, u), LockMoves(p, u),
         prefs' = prefs, rules' \subseteq rules, Others,
         Call(u), Copied(u)', Known(u)',
         \A r \in rules' : Saving(t, r) => Saving(u, r) \/ Backed(r),
         \A r \in rules' : ServiceOf[r.ep] \in detached' =>
           \/ ServiceOf[r.ep] \in errored'
           \/ Handles(u, r)
           \/ /\ ServiceOf[r.ep] \in detached
              /\ ServiceOf[r.ep] \notin errored
              /\ ~ Handles(t, r)
  PROVE  IInv'
<1>1. /\ task'[p] = u
      /\ \A q \in Caller : q # p => task'[q] = task[q]
  BY DEF Moves, IInv, TypeOK
<1>2. LockInv' /\ CallInv'
  BY MoveInv DEF IInv, Gentle
<1>3. RulesInv'
  BY DEF IInv, RulesInv, OneListenerPerEndpoint, ListenerPortsUnique, DistinctPorts
<1>4. BackedInv'
  BY <1>1 DEF IInv, BackedInv, Backed, Saving
<1>5. DetachInv'
  <2> SUFFICES ASSUME NEW r \in rules', ServiceOf[r.ep] \in detached',
                      ServiceOf[r.ep] \notin errored'
               PROVE  \E q \in Caller : Handles(task'[q], r)
    BY DEF DetachInv, Handles
  <2>1. CASE Handles(u, r)
    BY <1>1, <2>1
  <2>2. CASE /\ ServiceOf[r.ep] \in detached
             /\ ServiceOf[r.ep] \notin errored
             /\ ~ Handles(t, r)
    <3>1. PICK q \in Caller : Handles(task[q], r)
      BY <2>2 DEF IInv, DetachInv
    <3>2. q # p
      BY <2>2, <3>1
    <3> QED
      BY <1>1, <3>1, <3>2
  <2> QED
    BY <2>1, <2>2
<1>6. TypeOK'
  BY DEF IInv, TypeOK, Moves, LockMoves, Others
<1> QED
  BY <1>2, <1>3, <1>4, <1>5, <1>6 DEF IInv

-----------------------------------------------------------------------------
\* The task of a caller between two calls.
LEMMA IdleTask ==
  /\ Idle \in Task
  /\ Idle.op = "idle" /\ Idle.pc = "idle" /\ Idle.svcs = {} /\ Idle.todo = {}
  /\ Idle.old = NoRule /\ Idle.new = NoRule
  BY DEF Idle, Task, Op, Locked, Unlocked, Prefs, NoPrefs

\* A call may return at any point at which it is not saving a listener, if it
\* reports an error for the detached services it was still responsible for.
LEMMA ReturnInv ==
  ASSUME IInv, NEW p \in Caller, NEW err \in BOOLEAN, Return(p, err),
         lock' = IF task[p].pc \in Locked THEN NoProc ELSE lock,
         prefs' = prefs, rules' \subseteq rules,
         readable' \in BOOLEAN, detached' = detached, cached' = cached,
         \A r \in rules' : Saving(task[p], r) => Backed(r),
         \A r \in rules' : ServiceOf[r.ep] \in detached /\ Handles(task[p], r) =>
            err /\ ServiceOf[r.ep] \in task[p].svcs
  PROVE  IInv'
<1>1. PICK t \in Task : t = task[p]
  BY DEF IInv, TypeOK
<1>2. PICK u \in Task : u = Idle
  BY IdleTask
<1>3. Moves(p, u) /\ Others
  BY <1>1, <1>2 DEF Moves, Return, Others, IInv, TypeOK, Task
<1>4. LockMoves(p, u)
  BY <1>1, <1>2, IdleTask, ConstantsAssumption
  DEF LockMoves, Locked, IInv, LockInv, Caller
<1>5. Call(u) /\ Copied(u)' /\ Known(u)'
  BY <1>2, IdleTask DEF Call, Copied, Known
<1>6. \A r \in rules' : ServiceOf[r.ep] \in detached' =>
        \/ ServiceOf[r.ep] \in errored'
        \/ /\ ServiceOf[r.ep] \in detached
           /\ ServiceOf[r.ep] \notin errored
           /\ ~ Handles(t, r)
  BY <1>1 DEF Return
<1> QED
  BY <1>1, <1>3, <1>4, <1>5, <1>6, StepInv

\* A restore may turn to the next candidate at any point at which it is not
\* responsible for the listener of a detached service.
LEMMA NextCandidateInv ==
  ASSUME IInv, NEW p \in Caller, NextCandidate(p), task[p].op \in RestoreOp,
         lock \in {p, NoProc},
         prefs' = prefs, rules' \subseteq rules,
         readable' \in BOOLEAN, detached' = detached, cached' = cached,
         \A r \in rules' : Saving(task[p], r) => Backed(r),
         \A r \in rules' : ServiceOf[r.ep] \in detached => ~ Handles(task[p], r)
  PROVE  IInv'
<1>1. PICK t \in Task : t = task[p]
  BY DEF IInv, TypeOK
<1>2. PICK u : u = [Idle EXCEPT !.op = t.op, !.pc = "candidate", !.todo = t.todo]
  OBVIOUS
<1>3. /\ u \in Task /\ u.op = t.op /\ u.pc = "candidate"
      /\ u.old = NoRule /\ u.new = NoRule
  BY <1>1, <1>2, IdleTask DEF Task, Unlocked
<1>4. Moves(p, u) /\ Others
  BY <1>1, <1>2 DEF Moves, NextCandidate, Others, IInv, TypeOK
<1>5. LockMoves(p, u)
  BY <1>3, ConstantsAssumption
  DEF LockMoves, Locked, NextCandidate, Release, Caller
<1>6. Call(u) /\ Copied(u)' /\ Known(u)'
  BY <1>1, <1>3 DEF Call, Copied, Known, RestoreOp
<1>7. errored' = errored
  BY DEF NextCandidate
<1> QED
  BY <1>1, <1>3, <1>4, <1>5, <1>6, <1>7, StepInv

\* An operation that fails under the mutex keeps the invariant: attach and
\* forget report the error, a restore has nothing left to undo.
LEMMA FailInv ==
  ASSUME IInv, NEW p \in Caller, Fail(p), task[p].pc \in Locked,
         prefs' = prefs, rules' \subseteq rules,
         readable' \in BOOLEAN, detached' = detached, cached' = cached,
         \A r \in rules' : Saving(task[p], r) => Backed(r),
         \A r \in rules' : ServiceOf[r.ep] \in detached /\ Handles(task[p], r) =>
            /\ task[p].op \notin RestoreOp
            /\ ServiceOf[r.ep] \in task[p].svcs
  PROVE  IInv'
<1>1. lock = p
  BY DEF IInv, LockInv
<1>2. CASE task[p].op \in RestoreOp
  BY <1>1, <1>2, NextCandidateInv DEF Fail
<1>3. CASE task[p].op \notin RestoreOp
  BY <1>1, <1>3, ReturnInv DEF Fail, Release
<1> QED
  BY <1>2, <1>3

-----------------------------------------------------------------------------
\* attach up to `operations.lock()'.
LEMMA AttachBeginInv ==
  ASSUME IInv, NEW p \in Caller, NEW s \in Service, NEW eps \in SUBSET Endpoint,
         NEW w \in Port \cup {NoPort}, AttachBegin(p, s, eps, w)
  PROVE  IInv'
<1>1. PICK t \in Task : t = task[p]
  BY DEF IInv, TypeOK
<1>2. PICK u : u = [Idle EXCEPT !.op = "attach", !.pc = "attach_wait", !.svcs = {s},
                                !.todo = eps, !.want = w, !.proto = cached]
  OBVIOUS
<1>3. /\ u \in Task /\ u.op = "attach" /\ u.pc = "attach_wait"
      /\ u.svcs = {s} /\ u.todo = eps /\ u.proto = cached
      /\ u.old = NoRule /\ u.new = NoRule
  BY <1>2, IdleTask DEF Task, Unlocked, Op, IInv, TypeOK
<1>4. Moves(p, u) /\ Others /\ UNCHANGED <<prefs, rules, lock, detached, errored>>
  BY <1>2 DEF Moves, AttachBegin, Others, IInv, TypeOK
<1>5. t.pc = "idle" /\ LockMoves(p, u)
  BY <1>1, <1>3, <1>4 DEF AttachBegin, LockMoves, Locked, IInv, LockInv
<1>6. Call(u)
  BY <1>3 DEF AttachBegin, Call, EndpointsOf, IInv, TypeOK
<1>7. Copied(u)' /\ Known(u)'
  BY <1>3 DEF Copied, Known
<1>8. \A r \in rules : ~ Saving(t, r) /\ ~ Handles(t, r)
  BY <1>5 DEF Saving, Handles, Locked
<1> QED
  BY <1>1, <1>3, <1>4, <1>5, <1>6, <1>7, <1>8, StepInv

\* attach takes the mutex: what it copies of the file and of the rules is
\* current, and every rule is backed, since no one else is saving.
LEMMA AttachLockInv ==
  ASSUME IInv, NEW p \in Caller, AttachLock(p)
  PROVE  IInv'
<1>1. PICK t \in Task : t = task[p]
  BY DEF IInv, TypeOK
<1>2. t.pc = "attach_wait" /\ t.op = "attach" /\ lock = NoProc
  BY <1>1 DEF AttachLock, IInv, CallInv, Call
<1>3. \A r \in rules : ~ Saving(t, r) /\ ~ Handles(t, r)
  BY <1>2 DEF Saving, Handles, Locked
<1>4. CASE readable
  <2>1. PICK u : u = [t EXCEPT !.pc = "next", !.copy = prefs, !.active = rules]
    OBVIOUS
  <2>2. /\ u \in Task /\ u.pc = "next" /\ u.op = t.op /\ u.svcs = t.svcs
        /\ u.copy = prefs /\ u.active = rules /\ u.proto = t.proto
        /\ u.todo = t.todo /\ u.old = t.old /\ u.new = t.new
    BY <2>1 DEF Task, Locked, IInv, TypeOK
  <2>3. Moves(p, u) /\ Others /\ UNCHANGED <<prefs, rules, detached, errored>> /\ lock' = p
    BY <1>1, <1>4, <2>1 DEF Moves, AttachLock, Others, IInv, TypeOK
  <2>4. LockMoves(p, u)
    BY <1>2, <2>2, <2>3 DEF LockMoves, Locked
  <2>5. Call(u)
    BY <1>1, <1>2, <2>2 DEF IInv, CallInv, Call
  <2>6. \A r \in rules : Backed(r)
    BY <1>2, ConstantsAssumption
    DEF IInv, BackedInv, Saving, LockInv, Locked, Caller
  <2>7. Copied(u)' /\ Known(u)'
    BY <2>2, <2>3, <2>6 DEF Copied, Known, Backed, IInv, RulesInv, OneListenerPerEndpoint
  <2> QED
    BY <1>1, <1>3, <2>2, <2>3, <2>4, <2>5, <2>7, StepInv
<1>5. CASE ~ readable
  BY <1>1, <1>2, <1>3, <1>5, ReturnInv DEF AttachLock, IInv, TypeOK, Locked
<1> QED
  BY <1>4, <1>5

\* The holder of the mutex takes a step, adds no rule and keeps the mutex.
LEMMA HolderStepInv ==
  ASSUME IInv, NEW p \in Caller, NEW t \in Task, t = task[p], t.pc \in Locked,
         NEW u \in Task, u.pc \in Locked, Moves(p, u), lock' = lock,
         prefs' = prefs, rules' \subseteq rules, Others,
         errored' = errored, detached' = detached,
         Call(u), Copied(u)', Known(u)',
         \A r \in rules' : Saving(t, r) => Saving(u, r) \/ Backed(r),
         \A r \in rules' : Handles(t, r) => Handles(u, r)
  PROVE  IInv'
<1>1. LockMoves(p, u)
  BY DEF LockMoves, IInv, LockInv
<1> QED
  BY <1>1, StepInv

\* attach selects a port for one endpoint and takes down the rule in its way:
\* no other record has the port, and no rule is left for the endpoint.
LEMMA AttachEndpointInv ==
  ASSUME IInv, NEW p \in Caller, NEW e \in Endpoint, NEW port \in Port,
         AttachEndpoint(p, e, port)
  PROVE  IInv'
<1>1. PICK t \in Task : t = task[p]
  BY DEF IInv, TypeOK
<1>2. /\ t.pc = "next" /\ t.op = "attach" /\ e \in t.todo /\ PortAllowed(t, e, port)
      /\ t.new = NoRule /\ t.old = NoRule /\ t.todo \subseteq Endpoint
      /\ t.pc \in Locked
  BY <1>1 DEF AttachEndpoint, IInv, CallInv, Call, Task, Locked
<1>3. /\ t.copy = prefs /\ rules \subseteq t.active
      /\ \A r \in t.active : Backed(r)
      /\ \A r, q \in t.active : r.ep = q.ep => r = q
  <2>1. Copied(t) /\ NoRule \notin rules
    BY <1>1, ConstantsAssumption DEF IInv, CallInv, TypeOK, Rule
  <2> QED
    BY <1>2, <2>1 DEF Copied
<1>4. \A r : ~ Saving(t, r)
  BY <1>2 DEF Saving
<1>5. \A d \in Endpoint : d # e => prefs[d] # port
  BY <1>2, <1>3 DEF PortAllowed
<1>6. Others
  BY DEF AttachEndpoint, Fail, NextCandidate, Return, Others, IInv, TypeOK, Task
<1>7. ASSUME NEW pc \in {"save", "start"}, NEW old \in Rule \cup {NoRule}, NEW u,
             u = [t EXCEPT !.ep = e, !.port = port, !.todo = t.todo \ {e},
                           !.pc = pc, !.old = old],
             Moves(p, u), UNCHANGED <<lock, errored, prefs, detached>>,
             rules' \subseteq rules,
             pc = "save" => old = NoRule /\ port = prefs[e],
             pc = "start" => Vacant(e)',
             old # NoRule => old.ep = e /\ Backed(old)
      PROVE  IInv'
  <2>1. /\ u \in Task /\ u.pc = pc /\ u.op = "attach" /\ u.svcs = t.svcs
        /\ u.ep = e /\ u.port = port /\ u.todo = t.todo \ {e} /\ u.old = old
        /\ u.new = NoRule /\ u.copy = t.copy /\ u.active = t.active
        /\ u.proto = t.proto
    BY <1>2, <1>7 DEF Task, Locked
  <2>2. Call(u)
    BY <1>1, <1>2, <1>7, <2>1 DEF IInv, CallInv, Call
  <2>3. Copied(u)'
    BY <1>3, <1>7, <2>1 DEF Copied, Backed
  <2>4. Known(u)'
    BY <1>5, <1>7, <2>1 DEF Known, Backed
  <2>5. u.pc \in Locked
    BY <1>7, <2>1 DEF Locked
  <2>6. \A r \in rules' : Handles(t, r) => Handles(u, r)
    BY <1>2, <2>1, <2>5 DEF Handles
  <2> QED
    BY <1>1, <1>2, <1>4, <1>6, <1>7, <2>1, <2>2, <2>3, <2>4, <2>5, <2>6, HolderStepInv
<1>8. CASE /\ Matches(t, e, port)
           /\ task' = [task EXCEPT ![p] = [t EXCEPT !.ep = e, !.port = port,
                         !.todo = t.todo \ {e}, !.pc = "save"]]
           /\ UNCHANGED <<rules, lock, errored>>
  <2>1. port = prefs[e]
    BY <1>3, <1>8 DEF Matches, RulesFor, Backed
  <2>2. PICK u : u = [t EXCEPT !.ep = e, !.port = port, !.todo = t.todo \ {e},
                               !.pc = "save", !.old = NoRule]
    OBVIOUS
  <2>3. Moves(p, u)
    BY <1>2, <1>8, <2>2 DEF Moves, Task
  <2> QED
    BY <1>7, <1>8, <2>1, <2>2, <2>3 DEF AttachEndpoint
<1>9. CASE /\ RulesFor(e, t.active) = {}
           /\ task' = [task EXCEPT ![p] = [t EXCEPT !.ep = e, !.port = port,
                         !.todo = t.todo \ {e}, !.pc = "start"]]
           /\ UNCHANGED <<rules, lock, errored>>
  <2>1. Vacant(e)'
    BY <1>3, <1>9 DEF Vacant, RulesFor
  <2>2. PICK u : u = [t EXCEPT !.ep = e, !.port = port, !.todo = t.todo \ {e},
                               !.pc = "start", !.old = NoRule]
    OBVIOUS
  <2>3. Moves(p, u)
    BY <1>2, <1>9, <2>2 DEF Moves, Task
  <2> QED
    BY <1>7, <1>9, <2>1, <2>2, <2>3 DEF AttachEndpoint
<1>10. ASSUME NEW r \in RulesFor(e, t.active), HasRule(r), rules' = WithoutRule(r),
              task' = [task EXCEPT ![p] = [t EXCEPT !.ep = e, !.port = port,
                         !.todo = t.todo \ {e}, !.pc = "start", !.old = r]],
              UNCHANGED <<lock, errored>>
       PROVE  IInv'
  <2>1. r \in Rule /\ r.ep = e /\ Backed(r)
    BY <1>3, <1>10 DEF RulesFor, Task
  <2>2. rules' \subseteq rules /\ Vacant(e)'
    BY <1>3, <1>10, <2>1 DEF WithoutRule, SameRuleId, Vacant, RulesFor
  <2>3. r # NoRule
    BY <2>1, ConstantsAssumption DEF Rule
  <2>4. PICK u : u = [t EXCEPT !.ep = e, !.port = port, !.todo = t.todo \ {e},
                               !.pc = "start", !.old = r]
    OBVIOUS
  <2>5. Moves(p, u)
    BY <1>10, <2>4 DEF Moves
  <2> QED
    BY <1>7, <1>10, <2>1, <2>2, <2>3, <2>4, <2>5 DEF AttachEndpoint
<1>11. CASE Fail(p) /\ UNCHANGED rules
  <2>1. \A r \in rules : Handles(t, r) => ServiceOf[r.ep] \in t.svcs
    BY <1>2 DEF Handles
  <2> QED
    BY <1>1, <1>2, <1>4, <1>11, <2>1, FailInv DEF AttachEndpoint, RestoreOp, IInv, TypeOK
<1> QED
  BY <1>1, <1>8, <1>9, <1>10, <1>11 DEF AttachEndpoint

\* attach gives up for want of a port.
LEMMA AttachNoPortInv ==
  ASSUME IInv, NEW p \in Caller, NEW e \in Endpoint, AttachNoPort(p, e)
  PROVE  IInv'
<1>1. PICK t \in Task : t = task[p]
  BY DEF IInv, TypeOK
<1>2. t.pc = "next" /\ t.pc \in Locked /\ t.op = "attach"
  BY <1>1 DEF AttachNoPort, IInv, CallInv, Call, Locked
<1>3. \A r : ~ Saving(t, r) /\ (Handles(t, r) => ServiceOf[r.ep] \in t.svcs)
  BY <1>2 DEF Saving, Handles
<1> QED
  BY <1>1, <1>2, <1>3, FailInv DEF AttachNoPort, RestoreOp, IInv, TypeOK

\* The holder adds a rule for an endpoint that has none, with a port no other
\* record has: then no other rule has the port either.
LEMMA AddRuleInv ==
  ASSUME IInv, NEW p \in Caller, NEW t \in Task, t = task[p], t.pc \in Locked,
         \A q : ~ Saving(t, q),
         NEW u \in Task, u.pc \in Locked, Moves(p, u),
         UNCHANGED <<prefs, readable, detached, cached, lock, errored>>,
         NEW r \in Rule, rules' = rules \cup {r},
         Vacant(r.ep), \A d \in Endpoint : d # r.ep => prefs[d] # r.port,
         Call(u), Copied(u)', Known(u)',
         Saving(u, r) \/ Backed(r),
         Handles(u, r), \A q \in rules : Handles(t, q) => Handles(u, q)
  PROVE  IInv'
<1>1. /\ task'[p] = u
      /\ \A q \in Caller : q # p => task'[q] = task[q]
  BY DEF Moves, IInv, TypeOK
<1>2. LockInv' /\ CallInv'
  BY MoveInv DEF IInv, Gentle, LockMoves, LockInv
<1>3. \A q \in rules : Backed(q)
  BY DEF IInv, BackedInv, LockInv, Saving, Locked
<1>4. RulesInv'
  <2>1. \A q \in rules : q.ep # r.ep /\ q.port # r.port
    BY <1>3 DEF Vacant, Backed, IInv, TypeOK, Rule
  <2> QED
    BY <2>1 DEF IInv, RulesInv, OneListenerPerEndpoint, ListenerPortsUnique, DistinctPorts
<1>5. BackedInv'
  BY <1>1, <1>3 DEF BackedInv, Backed, Saving
<1>6. DetachInv'
  <2> SUFFICES ASSUME NEW q \in rules', ServiceOf[q.ep] \in detached,
                      ServiceOf[q.ep] \notin errored
               PROVE  \E x \in Caller : Handles(task'[x], q)
    BY DEF DetachInv, Handles
  <2>1. CASE q = r
    BY <1>1, <2>1
  <2>2. CASE q \in rules
    <3>1. PICK x \in Caller : Handles(task[x], q)
      BY <2>2 DEF IInv, DetachInv
    <3> QED
      BY <1>1, <2>2, <3>1
  <2> QED
    BY <2>1, <2>2
<1>7. TypeOK'
  BY DEF IInv, TypeOK, Moves
<1> QED
  BY <1>2, <1>4, <1>5, <1>6, <1>7 DEF IInv

\* start_forwarding_rule, for attach and for restore, succeeds or fails.
LEMMA StartRuleInv ==
  ASSUME IInv, NEW p \in Caller, StartRule(p)
  PROVE  IInv'
<1>1. PICK t \in Task : t = task[p]
  BY DEF IInv, TypeOK
<1>2. t.pc = "start" /\ t.pc \in Locked /\ Call(t) /\ Copied(t) /\ Known(t)
  BY <1>1 DEF StartRule, IInv, CallInv, Locked
<1>3. \A r : ~ Saving(t, r) /\ (Handles(t, r) => t.op = "attach" /\ ServiceOf[r.ep] \in t.svcs)
  BY <1>2 DEF Saving, Handles
<1>4. t.ep \in Endpoint /\ t.port \in Port /\ t.proto[t.ep] \in Protocol
  BY <1>2 DEF Call
<1>5. Others /\ UNCHANGED <<prefs, readable, detached, cached>>
  BY DEF StartRule, Fail, NextCandidate, Return, Others, IInv, TypeOK, Task
<1>6. ASSUME NEW r, r = [ep |-> t.ep, port |-> t.port, proto |-> t.proto[t.ep]],
             rules' = rules \cup {r},
             task' = [task EXCEPT ![p].new = r,
                        ![p].pc = IF t.op = "attach" THEN "save" ELSE "recheck"],
             UNCHANGED <<lock, errored>>
      PROVE  IInv'
  <2>1. r \in Rule /\ r.ep = t.ep /\ r.port = t.port /\ r # NoRule
    BY <1>4, <1>6, ConstantsAssumption DEF Rule
  <2>2. PICK pc \in {"save", "recheck"} : pc = IF t.op = "attach" THEN "save" ELSE "recheck"
    OBVIOUS
  <2>3. PICK u : u = [t EXCEPT !.new = r, !.pc = pc]
    OBVIOUS
  <2>4. /\ u \in Task /\ u.pc = pc /\ u.op = t.op /\ u.svcs = t.svcs /\ u.todo = t.todo /\ u.proto = t.proto
        /\ u.ep = t.ep /\ u.port = t.port /\ u.copy = t.copy /\ u.active = t.active
        /\ u.old = t.old /\ u.new = r
    <3>1. r \in Rule \cup {NoRule} /\ pc \in Locked \cup Unlocked
      BY <2>1 DEF Locked
    <3> QED
      BY <2>3, <3>1 DEF Task
  <2>5. Moves(p, u) /\ u.pc \in Locked
    BY <1>1, <1>6, <2>2, <2>3, <2>4 DEF Moves, Locked
  <2>6. Call(u)
    BY <1>2, <2>2, <2>1, <2>4 DEF Call
  <2>7. Copied(u)'
    <3>1. NoRule \notin rules /\ t.new = NoRule
      BY <1>2, ConstantsAssumption DEF IInv, TypeOK, Rule, Call
    <3> QED
      BY <1>2, <1>5, <1>6, <2>2, <2>4, <3>1 DEF Copied, Backed
  <2>8. Known(u)'
    BY <1>2, <1>5, <1>6, <2>2, <2>1, <2>4 DEF Known, Backed, Vacant
  <2>9. Saving(u, r) \/ Backed(r)
    BY <1>2, <2>2, <2>1, <2>4 DEF Saving, Backed, Known
  <2>10. Handles(u, r)
    BY <1>2, <2>2, <2>1, <2>4, <2>5 DEF Handles, Call
  <2>11. \A q \in rules : Handles(t, q) => Handles(u, q)
    BY <1>3, <2>2, <2>4, <2>5 DEF Handles
  <2>12. Vacant(r.ep) /\ \A d \in Endpoint : d # r.ep => prefs[d] # r.port
    BY <1>2, <2>1 DEF Known
  <2> QED
    BY <1>1, <1>2, <1>3, <1>5, <1>6, <2>1, <2>4, <2>5, <2>6, <2>7, <2>8, <2>9,
       <2>10, <2>11, <2>12, AddRuleInv
<1>7. CASE t.old # NoRule /\ Goto(p, "undo_check") /\ UNCHANGED <<rules, lock, errored>>
  <2>1. PICK u : u = [t EXCEPT !.pc = "undo_check"]
    OBVIOUS
  <2>2. /\ u \in Task /\ u.pc = "undo_check" /\ u.op = t.op /\ u.svcs = t.svcs
        /\ u.todo = t.todo /\ u.proto = t.proto /\ u.old = t.old
    BY <2>1 DEF Task, Locked
  <2>3. Moves(p, u) /\ u.pc \in Locked
    BY <1>1, <1>7, <2>1, <2>2 DEF Moves, Goto, Locked
  <2>4. Call(u)
    BY <1>2, <1>7, <2>2 DEF Call
  <2>5. Copied(u)' /\ Known(u)'
    BY <1>2, <1>5, <1>7, <2>2 DEF Copied, Known, Call, Backed, Vacant
  <2>6. \A q \in rules : Handles(t, q) => Handles(u, q)
    BY <1>3, <2>2, <2>3 DEF Handles
  <2> QED
    BY <1>1, <1>2, <1>3, <1>5, <1>7, <2>2, <2>3, <2>4, <2>5, <2>6, HolderStepInv
<1>8. CASE Fail(p) /\ UNCHANGED rules
  BY <1>1, <1>2, <1>3, <1>5, <1>8, FailInv DEF Others, RestoreOp
<1> QED
  BY <1>1, <1>6, <1>7, <1>8 DEF StartRule

\* save_to_file: the copy that is written differs from the file only at the
\* endpoint being attached; afterwards every rule is backed again.
LEMMA AttachSaveInv ==
  ASSUME IInv, NEW p \in Caller, AttachSave(p)
  PROVE  IInv'
<1>1. PICK t \in Task : t = task[p]
  BY DEF IInv, TypeOK
<1>2. t.pc = "save" /\ t.pc \in Locked /\ t.op = "attach" /\ Call(t) /\ Copied(t) /\ Known(t)
  BY <1>1 DEF AttachSave, IInv, CallInv, Call, Locked
<1>3. t.ep \in Endpoint /\ t.port \in Port
  BY <1>2 DEF Call
<1>4. /\ t.copy = prefs
      /\ \A r \in t.active : Backed(r)
      /\ \A r, q \in t.active : r.ep = q.ep => r = q
      /\ rules \subseteq t.active \cup {t.new}
  BY <1>2 DEF Copied
<1>5. lock = p /\ \A q \in Caller : q # p => task[q].pc \notin Locked
  BY <1>1, <1>2 DEF IInv, LockInv
<1>6. NoRule \notin rules
  BY ConstantsAssumption DEF IInv, TypeOK, Rule
<1>7. ASSUME NEW saved, saved = [t.copy EXCEPT ![t.ep] = t.port], prefs' = saved,
             task' = [task EXCEPT ![p] =
               [t EXCEPT !.pc = "next", !.copy = saved,
                         !.active = IF t.new # NoRule THEN rules ELSE t.active,
                         !.ep = NoEndpoint, !.port = NoPort,
                         !.old = NoRule, !.new = NoRule]],
             UNCHANGED <<readable, rules, detached, cached, lock, errored>>
      PROVE  IInv'
  <2>1. /\ saved \in Prefs /\ saved[t.ep] = t.port
        /\ \A d \in Endpoint : d # t.ep => saved[d] = prefs[d]
    BY <1>3, <1>4, <1>7 DEF IInv, TypeOK, Prefs
  <2>2. PICK active \in SUBSET Rule : active = IF t.new # NoRule THEN rules ELSE t.active
    BY DEF IInv, TypeOK, Task
  <2>3. PICK u : u = [t EXCEPT !.pc = "next", !.copy = saved, !.active = active,
                         !.ep = NoEndpoint, !.port = NoPort,
                         !.old = NoRule, !.new = NoRule]
    OBVIOUS
  <2>4. /\ u \in Task /\ u.pc = "next" /\ u.op = t.op /\ u.svcs = t.svcs
        /\ u.todo = t.todo /\ u.proto = t.proto /\ u.old = NoRule /\ u.new = NoRule
        /\ u.copy = saved /\ u.active = active
    BY <2>1, <2>3 DEF Task, Locked
  <2>5. Moves(p, u) /\ u.pc \in Locked
    BY <1>1, <1>7, <2>2, <2>3, <2>4 DEF Moves, Locked
  <2>6. \A r \in rules : Backed(r)'
    <3> SUFFICES ASSUME NEW r \in rules PROVE saved[r.ep] = r.port
      BY <1>7 DEF Backed
    <3>1. r \in Rule
      BY DEF IInv, TypeOK
    <3>2. CASE r = t.new
      BY <1>2, <1>6, <2>1, <3>2 DEF Call
    <3>3. CASE r # t.new
      <4>1. Backed(r) /\ r \in t.active
        BY <1>4, <3>3
      <4>2. CASE r.ep = t.ep
        BY <1>2, <2>1, <3>3, <4>1, <4>2 DEF Known, Backed
      <4>3. CASE r.ep # t.ep
        BY <2>1, <3>1, <4>1, <4>3 DEF Backed, Rule
      <4> QED
        BY <4>2, <4>3
    <3> QED
      BY <3>2, <3>3
  <2>7. Call(u) /\ Known(u)'
    BY <1>2, <2>4 DEF Call, Known
  <2>8. Copied(u)'
    <3>1. CASE t.new # NoRule
      BY <1>7, <2>2, <2>4, <2>6, <3>1
      DEF Copied, IInv, RulesInv, OneListenerPerEndpoint
    <3>2. CASE t.new = NoRule
      <4>1. saved = prefs
        BY <1>2, <1>3, <1>4, <1>7, <3>2 DEF Known, IInv, TypeOK, Prefs
      <4> QED
        BY <1>4, <1>6, <1>7, <2>2, <2>4, <3>2, <4>1 DEF Copied, Backed
    <3> QED
      BY <3>1, <3>2
  <2>9. LockInv' /\ CallInv'
    BY <1>1, <1>2, <1>5, <1>7, <2>4, <2>5, <2>7, <2>8, MoveInv DEF IInv, Gentle, LockMoves
  <2>10. DistinctPorts(prefs)'
    BY <1>2, <1>3, <1>7, <2>1 DEF DistinctPorts, Known, IInv, RulesInv
  <2>11. RulesInv'
    BY <1>7, <2>10 DEF IInv, RulesInv, OneListenerPerEndpoint, ListenerPortsUnique
  <2>12. BackedInv'
    BY <1>7, <2>6 DEF BackedInv
  <2>13. \A r \in rules : Handles(t, r) => Handles(u, r)
    BY <1>2, <2>4, <2>5 DEF Handles
  <2>14. \A q \in Caller, r \in rules : Handles(task[q], r) => Handles(task'[q], r)
    BY <1>1, <2>5, <2>13 DEF Moves, IInv, TypeOK
  <2>15. DetachInv'
    BY <1>7, <2>14 DEF IInv, DetachInv, Handles
  <2>16. TypeOK'
    BY <1>7, <2>1, <2>4, <2>5 DEF IInv, TypeOK, Moves
  <2> QED
    BY <2>9, <2>11, <2>12, <2>15, <2>16 DEF IInv
<1>8. Others \/ prefs' # prefs
  BY DEF AttachSave, FailedWrite, Fail, NextCandidate, Return, Others, IInv, TypeOK, Task
<1>9. CASE FailedWrite /\ t.new # NoRule /\ Goto(p, "rollback") /\ UNCHANGED <<lock, errored>>
  <2>1. PICK u : u = [t EXCEPT !.pc = "rollback"]
    OBVIOUS
  <2>2. /\ u \in Task /\ u.pc = "rollback" /\ u.op = t.op /\ u.svcs = t.svcs
        /\ u.todo = t.todo /\ u.proto = t.proto /\ u.ep = t.ep /\ u.port = t.port
        /\ u.old = t.old /\ u.new = t.new /\ u.copy = t.copy /\ u.active = t.active
    BY <2>1 DEF Task, Locked
  <2>3. Moves(p, u) /\ u.pc \in Locked
    BY <1>1, <1>9, <2>1, <2>2 DEF Moves, Goto, Locked
  <2>4. UNCHANGED <<prefs, rules, detached>>
    BY <1>9 DEF AttachSave, FailedWrite
  <2>5. Call(u)
    BY <1>2, <1>9, <2>2 DEF Call
  <2>6. Copied(u)' /\ Known(u)'
    BY <1>2, <2>2, <2>4 DEF Copied, Known, Backed
  <2>7. \A r \in rules : (Saving(t, r) => Saving(u, r)) /\ (Handles(t, r) => Handles(u, r))
    BY <1>2, <2>2, <2>3 DEF Saving, Handles
  <2> QED
    BY <1>1, <1>2, <1>8, <1>9, <2>2, <2>3, <2>4, <2>5, <2>6, <2>7, HolderStepInv
<1>10. CASE FailedWrite /\ t.new = NoRule /\ Fail(p)
  <2>1. \A r \in rules : ~ Saving(t, r) /\ (Handles(t, r) => ServiceOf[r.ep] \in t.svcs)
    BY <1>2, <1>6, <1>10 DEF Saving, Handles
  <2> QED
    BY <1>1, <1>2, <1>8, <1>10, <2>1, FailInv DEF AttachSave, FailedWrite, RestoreOp, Others
<1> QED
  BY <1>1, <1>7, <1>9, <1>10 DEF AttachSave

\* The listener whose record could not be saved is taken down.
LEMMA RollbackInv ==
  ASSUME IInv, NEW p \in Caller, Rollback(p)
  PROVE  IInv'
<1>1. PICK t \in Task : t = task[p]
  BY DEF IInv, TypeOK
<1>2. t.pc = "rollback" /\ t.pc \in Locked /\ t.op = "attach" /\ Call(t) /\ Known(t)
  BY <1>1 DEF Rollback, IInv, CallInv, Call, Locked
<1>3. rules' \subseteq rules /\ t.new \notin rules' /\ Vacant(t.ep)'
  BY <1>1, <1>2 DEF Rollback, WithoutRule, SameRuleId, Known, Call, Vacant
<1>4. \A r \in rules' : ~ Saving(t, r) /\ (Handles(t, r) => ServiceOf[r.ep] \in t.svcs)
  BY <1>2, <1>3 DEF Saving, Handles
<1>5. Others /\ UNCHANGED <<prefs, readable, detached, cached>>
  BY DEF Rollback, Fail, NextCandidate, Return, Others, IInv, TypeOK, Task
<1>6. CASE t.old # NoRule /\ Goto(p, "undo_check") /\ UNCHANGED <<lock, errored>>
  <2>1. PICK u : u = [t EXCEPT !.pc = "undo_check"]
    OBVIOUS
  <2>2. /\ u \in Task /\ u.pc = "undo_check" /\ u.op = t.op /\ u.svcs = t.svcs
        /\ u.todo = t.todo /\ u.proto = t.proto /\ u.old = t.old
    BY <2>1 DEF Task, Locked
  <2>3. Moves(p, u) /\ u.pc \in Locked
    BY <1>1, <1>6, <2>1, <2>2 DEF Moves, Goto, Locked
  <2>4. Call(u)
    BY <1>2, <1>6, <2>2 DEF Call
  <2>5. Copied(u)' /\ Known(u)'
    BY <1>2, <1>3, <1>5, <1>6, <2>2 DEF Copied, Known, Call, Backed, Vacant
  <2>6. \A r \in rules' : Handles(t, r) => Handles(u, r)
    BY <1>2, <2>2, <2>3 DEF Handles
  <2> QED
    BY <1>1, <1>2, <1>3, <1>4, <1>5, <1>6, <2>2, <2>3, <2>4, <2>5, <2>6, HolderStepInv
<1>7. CASE Fail(p)
  BY <1>1, <1>2, <1>3, <1>4, <1>5, <1>7, FailInv DEF Others, RestoreOp
<1> QED
  BY <1>1, <1>6, <1>7 DEF Rollback

\* restore_forwarding_rule_if_attached looks for a detach.
LEMMA UndoCheckInv ==
  ASSUME IInv, NEW p \in Caller, UndoCheck(p)
  PROVE  IInv'
<1>1. PICK t \in Task : t = task[p]
  BY DEF IInv, TypeOK
<1>2. t.pc = "undo_check" /\ t.pc \in Locked /\ Call(t) /\ Known(t)
  BY <1>1 DEF UndoCheck, IInv, CallInv, Locked
<1>3. \A r : ~ Saving(t, r) /\ (Handles(t, r) => t.op = "attach" /\ ServiceOf[r.ep] \in t.svcs)
  BY <1>2 DEF Saving, Handles
<1>4. Others /\ UNCHANGED <<prefs, readable, rules, detached, cached>>
  BY DEF UndoCheck, Fail, NextCandidate, Return, Others, IInv, TypeOK, Task
<1>5. CASE Goto(p, "undo_add") /\ UNCHANGED <<lock, errored>>
  <2>1. PICK u : u = [t EXCEPT !.pc = "undo_add"]
    OBVIOUS
  <2>2. /\ u \in Task /\ u.pc = "undo_add" /\ u.op = t.op /\ u.svcs = t.svcs
        /\ u.todo = t.todo /\ u.proto = t.proto /\ u.old = t.old
    BY <2>1 DEF Task, Locked
  <2>3. Moves(p, u) /\ u.pc \in Locked
    BY <1>1, <1>5, <2>1, <2>2 DEF Moves, Goto, Locked
  <2>4. Call(u)
    BY <1>2, <2>2 DEF Call
  <2>5. Copied(u)' /\ Known(u)'
    BY <1>2, <1>4, <2>2 DEF Copied, Known, Backed, Vacant
  <2>6. \A r \in rules : Handles(t, r) => Handles(u, r)
    BY <1>3, <2>2, <2>3 DEF Handles
  <2> QED
    BY <1>1, <1>2, <1>3, <1>4, <1>5, <2>2, <2>3, <2>4, <2>5, <2>6, HolderStepInv
<1>6. CASE Fail(p)
  BY <1>1, <1>2, <1>3, <1>4, <1>6, FailInv DEF Others, RestoreOp
<1> QED
  BY <1>1, <1>5, <1>6 DEF UndoCheck

\* The replaced rule comes back only where no rule is left for its endpoint.
LEMMA UndoAddInv ==
  ASSUME IInv, NEW p \in Caller, UndoAdd(p)
  PROVE  IInv'
<1>1. PICK t \in Task : t = task[p]
  BY DEF IInv, TypeOK
<1>2. t.pc = "undo_add" /\ t.pc \in Locked /\ Call(t) /\ Known(t)
  BY <1>1 DEF UndoAdd, IInv, CallInv, Locked
<1>3. \A r : ~ Saving(t, r) /\ (Handles(t, r) => t.op = "attach" /\ ServiceOf[r.ep] \in t.svcs)
  BY <1>2 DEF Saving, Handles
<1>4. Others /\ UNCHANGED <<prefs, readable, detached, cached>>
  BY DEF UndoAdd, Fail, NextCandidate, Return, Others, IInv, TypeOK, Task
<1>5. PICK r \in Rule : r = t.old
  BY <1>2 DEF Call, Task
<1>6. CASE rules' = rules \cup {r} /\ Goto(p, "undo_recheck") /\ UNCHANGED <<lock, errored>>
  <2>1. PICK u : u = [t EXCEPT !.pc = "undo_recheck"]
    OBVIOUS
  <2>2. /\ u \in Task /\ u.pc = "undo_recheck" /\ u.op = t.op /\ u.svcs = t.svcs
        /\ u.todo = t.todo /\ u.proto = t.proto /\ u.old = t.old
    BY <2>1 DEF Task, Locked
  <2>3. Moves(p, u) /\ u.pc \in Locked
    BY <1>1, <1>6, <2>1, <2>2 DEF Moves, Goto, Locked
  <2>4. Call(u)
    BY <1>2, <2>2 DEF Call
  <2>5. Copied(u)' /\ Known(u)'
    BY <2>2 DEF Copied, Known
  <2>6. Handles(u, r) /\ \A q \in rules : Handles(t, q) => Handles(u, q)
    BY <1>3, <1>5, <2>2, <2>3 DEF Handles
  <2>7. Backed(r) /\ Vacant(r.ep)
    BY <1>2, <1>5 DEF Known
  <2>8. \A d \in Endpoint : d # r.ep => prefs[d] # r.port
    BY <1>5, <2>7, ConstantsAssumption DEF Rule, Backed, DistinctPorts, IInv, RulesInv
  <2> QED
    BY <1>1, <1>2, <1>3, <1>4, <1>5, <1>6, <2>2, <2>3, <2>4, <2>5, <2>6, <2>7, <2>8, AddRuleInv
<1>7. CASE Fail(p) /\ UNCHANGED rules
  BY <1>1, <1>2, <1>3, <1>4, <1>7, FailInv DEF Others, RestoreOp
<1> QED
  BY <1>1, <1>5, <1>6, <1>7 DEF UndoAdd

\* The second look takes the rule down again if a detach came meanwhile.
LEMMA UndoRecheckInv ==
  ASSUME IInv, NEW p \in Caller, UndoRecheck(p)
  PROVE  IInv'
<1>1. PICK t \in Task : t = task[p]
  BY DEF IInv, TypeOK
<1>2. t.pc = "undo_recheck" /\ t.pc \in Locked
  BY <1>1 DEF UndoRecheck, Locked
<1>3. Fail(p) /\ UNCHANGED <<prefs, readable, detached, cached>> /\ rules' \subseteq rules
  BY DEF UndoRecheck, WithoutRule
<1>4. ServiceOf[t.old.ep] \in detached => t.old \notin rules'
  BY <1>1 DEF UndoRecheck, WithoutRule, SameRuleId
<1>5. \A r \in rules' : ~ Saving(t, r)
  BY <1>2 DEF Saving
<1>6. \A r \in rules' : ServiceOf[r.ep] \in detached /\ Handles(t, r) =>
        t.op = "attach" /\ ServiceOf[r.ep] \in t.svcs
  BY <1>2, <1>4 DEF Handles
<1> QED
  BY <1>1, <1>2, <1>3, <1>5, <1>6, FailInv DEF RestoreOp, IInv, TypeOK

\* clear_detached and the return of attach.
LEMMA AttachDoneInv ==
  ASSUME IInv, NEW p \in Caller, AttachDone(p)
  PROVE  IInv'
<1>1. PICK t \in Task : t = task[p]
  BY DEF IInv, TypeOK
<1>2. PICK u \in Task : u = Idle
  BY IdleTask
<1>3. t.pc = "next" /\ t.op = "attach" /\ lock = p
  BY <1>1 DEF AttachDone, IInv, CallInv, Call, LockInv, Locked
<1>4. /\ Moves(p, u) /\ Others /\ lock' = NoProc /\ UNCHANGED <<prefs, rules>>
      /\ detached' = detached \ t.svcs /\ errored' = errored \ t.svcs
  BY <1>1, <1>2 DEF AttachDone, Release, Moves, Others, IInv, TypeOK
<1>5. LockMoves(p, u)
  BY <1>2, <1>3, <1>4, IdleTask, ConstantsAssumption DEF LockMoves, Locked, Caller
<1>6. Call(u) /\ Copied(u)' /\ Known(u)'
  BY <1>2, IdleTask DEF Call, Copied, Known
<1>7. \A r \in rules : ~ Saving(t, r) /\ (Handles(t, r) => ServiceOf[r.ep] \in t.svcs)
  BY <1>3 DEF Saving, Handles
<1> QED
  BY <1>1, <1>4, <1>5, <1>6, <1>7, StepInv

-----------------------------------------------------------------------------
\* detach marks the service: it has yet to scan the table, so it is responsible
\* for every rule of the service.
LEMMA DetachBeginInv ==
  ASSUME IInv, NEW p \in Caller, NEW s \in Service, DetachBegin(p, s)
  PROVE  IInv'
<1>1. PICK t \in Task : t = task[p]
  BY DEF IInv, TypeOK
<1>2. PICK u : u = [Idle EXCEPT !.op = "detach", !.pc = "detach_scan", !.svcs = {s}]
  OBVIOUS
<1>3. /\ u \in Task /\ u.op = "detach" /\ u.pc = "detach_scan" /\ u.svcs = {s}
      /\ u.old = NoRule /\ u.new = NoRule
  BY <1>2, IdleTask DEF Task, Unlocked, Op
<1>4. /\ Moves(p, u) /\ Others /\ UNCHANGED <<prefs, rules, lock, errored>>
      /\ detached' = detached \cup {s}
  BY <1>2 DEF Moves, DetachBegin, Others, IInv, TypeOK
<1>5. t.pc = "idle" /\ LockMoves(p, u)
  BY <1>1, <1>3, <1>4 DEF DetachBegin, LockMoves, Locked, IInv, LockInv
<1>6. Call(u) /\ Copied(u)' /\ Known(u)'
  BY <1>3 DEF Call, Copied, Known
<1>7. \A r \in rules : /\ ~ Saving(t, r) /\ ~ Handles(t, r)
                       /\ ServiceOf[r.ep] = s => Handles(u, r)
  BY <1>3, <1>5 DEF Saving, Handles, Locked
<1> QED
  BY <1>1, <1>3, <1>4, <1>5, <1>6, <1>7, StepInv

\* detach lists the rules it will remove.
LEMMA DetachScanInv ==
  ASSUME IInv, NEW p \in Caller, DetachScan(p)
  PROVE  IInv'
<1>1. PICK t \in Task : t = task[p]
  BY DEF IInv, TypeOK
<1>2. PICK u : u = [t EXCEPT !.victims = MatchingRules(t), !.pc = "detach_remove"]
  OBVIOUS
<1>3. MatchingRules(t) \in SUBSET Rule
  BY DEF MatchingRules, IInv, TypeOK
<1>4. /\ u \in Task /\ u.op = t.op /\ u.pc = "detach_remove" /\ u.svcs = t.svcs
      /\ u.victims = MatchingRules(t) /\ u.todo = t.todo /\ u.proto = t.proto
      /\ u.old = t.old /\ u.new = t.new
  BY <1>2, <1>3 DEF Task, Unlocked
<1>5. Moves(p, u) /\ Others /\ UNCHANGED <<prefs, rules, lock, errored, detached>>
  BY <1>1, <1>2 DEF Moves, DetachScan, Others, IInv, TypeOK
<1>6. t.pc = "detach_scan" /\ LockMoves(p, u) /\ Call(t)
  BY <1>1, <1>4, <1>5 DEF DetachScan, LockMoves, Locked, IInv, LockInv, CallInv
<1>7. Call(u) /\ Copied(u)' /\ Known(u)'
  BY <1>4, <1>6 DEF Call, Copied, Known
<1>8. \A r \in rules : ~ Saving(t, r) /\ (Handles(t, r) => Handles(u, r))
  BY <1>4, <1>6 DEF Saving, Handles, Locked, MatchingRules
<1> QED
  BY <1>1, <1>4, <1>5, <1>6, <1>7, <1>8, StepInv

\* detach removes a rule, finishes, or reports that one was gone.
LEMMA DetachRemoveInv ==
  ASSUME IInv, NEW p \in Caller, DetachRemove(p)
  PROVE  IInv'
<1>1. PICK t \in Task : t = task[p]
  BY DEF IInv, TypeOK
<1>2. t.pc = "detach_remove" /\ t.pc \notin Locked /\ Call(t)
  BY <1>1 DEF DetachRemove, IInv, CallInv, Locked
<1>3. \A r : /\ ~ Saving(t, r)
             /\ Handles(t, r) => ServiceOf[r.ep] \in t.svcs /\ r \in t.victims
  BY <1>2 DEF Saving, Handles, Locked
<1>4. CASE t.victims = {} /\ Return(p, FALSE) /\ UNCHANGED rules
  BY <1>1, <1>2, <1>3, <1>4, ReturnInv DEF DetachRemove, IInv, TypeOK
<1>5. CASE Return(p, TRUE) /\ UNCHANGED rules
  BY <1>1, <1>2, <1>3, <1>5, ReturnInv DEF DetachRemove, IInv, TypeOK
<1>6. ASSUME NEW r \in t.victims, rules' = WithoutRule(r), UNCHANGED errored,
             task' = [task EXCEPT ![p].victims = @ \ {r}]
      PROVE  IInv'
  <2>1. PICK u : u = [t EXCEPT !.victims = t.victims \ {r}]
    OBVIOUS
  <2>2. /\ u \in Task /\ u.op = t.op /\ u.pc = t.pc /\ u.svcs = t.svcs
        /\ u.victims = t.victims \ {r} /\ u.todo = t.todo /\ u.proto = t.proto
        /\ u.old = t.old /\ u.new = t.new
    BY <2>1 DEF Task
  <2>3. Moves(p, u)
    BY <1>1, <1>6, <2>1 DEF Moves
  <2>4. /\ Others /\ UNCHANGED <<prefs, lock, detached>>
        /\ rules' \subseteq rules /\ r \notin rules'
    BY <1>6 DEF DetachRemove, Others, IInv, TypeOK, WithoutRule, SameRuleId
  <2>5. LockMoves(p, u)
    BY <1>1, <1>2, <2>2, <2>4 DEF LockMoves, IInv, LockInv
  <2>6. Call(u) /\ Copied(u)' /\ Known(u)'
    BY <1>2, <2>2 DEF Call, Copied, Known
  <2>7. \A q \in rules' : Handles(t, q) => Handles(u, q)
    BY <1>2, <1>3, <2>2, <2>4 DEF Handles
  <2> QED
    BY <1>1, <1>3, <1>6, <2>2, <2>3, <2>4, <2>5, <2>6, <2>7, StepInv
<1> QED
  BY <1>1, <1>4, <1>5, <1>6 DEF DetachRemove

-----------------------------------------------------------------------------
\* A call that does not hold the mutex and removes nothing goes on.
LEMMA WaitStepInv ==
  ASSUME IInv, NEW p \in Caller, NEW t \in Task, t = task[p], NEW u \in Task,
         t.pc \notin Locked \cup {"detach_scan", "detach_remove"},
         u.pc \notin Locked, Moves(p, u), Call(u),
         UNCHANGED <<prefs, readable, rules, detached, lock, errored>>,
         cached' \in [Endpoint -> Protocol \cup {NoProtocol}]
  PROVE  IInv'
<1>1. Others /\ LockMoves(p, u)
  BY DEF Others, LockMoves, IInv, LockInv, TypeOK
<1>2. Copied(u)' /\ Known(u)'
  BY DEF Copied, Known, Locked
<1>3. \A r \in rules : ~ Saving(t, r) /\ ~ Handles(t, r)
  BY DEF Saving, Handles, Locked
<1> QED
  BY <1>1, <1>2, <1>3, StepInv

\* forget_service and forget_device up to `operations.lock()'.
LEMMA ForgetBeginInv ==
  ASSUME IInv, NEW p \in Caller, NEW svcs \in SUBSET Service,
         NEW op \in {"forget_service", "forget_device"}, task[p].pc = "idle",
         task' = [task EXCEPT ![p] = [Idle EXCEPT !.op = op, !.pc = "forget_wait",
                                                  !.svcs = svcs]],
         UNCHANGED <<prefs, readable, rules, detached, cached, lock, errored>>
  PROVE  IInv'
<1>1. PICK t \in Task : t = task[p]
  BY DEF IInv, TypeOK
<1>2. PICK u : u = [Idle EXCEPT !.op = op, !.pc = "forget_wait", !.svcs = svcs]
  OBVIOUS
<1>3. op \in Op
  BY DEF Op
<1>4. u \in Task /\ u.op = op /\ u.pc = "forget_wait" /\ u.old = NoRule /\ u.new = NoRule
  BY <1>2, <1>3, IdleTask DEF Task, Unlocked
<1>5. Moves(p, u) /\ Call(u) /\ u.pc \notin Locked
  BY <1>2, <1>4 DEF Moves, Call, Locked
<1> QED
  BY <1>1, <1>4, <1>5, WaitStepInv DEF Locked, IInv, TypeOK

\* A forget operation takes the mutex and marks the services it is about.
LEMMA ForgetLockInv ==
  ASSUME IInv, NEW p \in Caller, ForgetLock(p)
  PROVE  IInv'
<1>1. PICK t \in Task : t = task[p]
  BY DEF IInv, TypeOK
<1>2. t.pc = "forget_wait" /\ lock = NoProc /\ Call(t)
  BY <1>1 DEF ForgetLock, IInv, CallInv
<1>3. \A r : ~ Saving(t, r) /\ ~ Handles(t, r)
  BY <1>2 DEF Saving, Handles, Locked
<1>4. CASE Return(p, TRUE) /\ UNCHANGED <<lock, detached>>
  BY <1>1, <1>2, <1>3, <1>4, ReturnInv DEF ForgetLock, IInv, TypeOK, Locked
<1>5. ASSUME NEW marked \in SUBSET t.svcs, lock' = p, Goto(p, "forget_scan"),
             detached' = detached \cup marked, UNCHANGED errored
      PROVE  IInv'
  <2>1. PICK u : u = [t EXCEPT !.pc = "forget_scan"]
    OBVIOUS
  <2>2. /\ u \in Task /\ u.op = t.op /\ u.pc = "forget_scan" /\ u.svcs = t.svcs
        /\ u.todo = t.todo /\ u.proto = t.proto /\ u.old = t.old /\ u.new = t.new
    BY <2>1 DEF Task, Locked
  <2>3. Moves(p, u)
    BY <1>1, <1>5, <2>1 DEF Moves, Goto
  <2>4. Others /\ UNCHANGED <<prefs, rules>>
    BY <1>5 DEF ForgetLock, Others, IInv, TypeOK, Task
  <2>5. LockMoves(p, u)
    BY <1>2, <1>5, <2>2 DEF LockMoves, Locked
  <2>6. Call(u) /\ Copied(u)' /\ Known(u)'
    BY <1>2, <2>2 DEF Call, Copied, Known
  <2>7. \A r \in rules : ServiceOf[r.ep] \in marked => Handles(u, r)
    BY <1>5, <2>2 DEF Handles
  <2> QED
    BY <1>1, <1>3, <1>5, <2>2, <2>3, <2>4, <2>5, <2>6, <2>7, StepInv
<1>6. {s \in t.svcs : \E e \in EndpointsOf(s) : prefs[e] # NoPort} \in SUBSET t.svcs
  OBVIOUS
<1> QED
  BY <1>1, <1>4, <1>5, <1>6 DEF ForgetLock

\* A forget operation lists the rules it will remove; no one can add another
\* while it holds the mutex.
LEMMA ForgetScanInv ==
  ASSUME IInv, NEW p \in Caller, ForgetScan(p)
  PROVE  IInv'
<1>1. PICK t \in Task : t = task[p]
  BY DEF IInv, TypeOK
<1>2. PICK u : u = [t EXCEPT !.victims = MatchingRules(t), !.pc = "forget_remove"]
  OBVIOUS
<1>3. MatchingRules(t) \in SUBSET Rule
  BY DEF MatchingRules, IInv, TypeOK
<1>4. /\ u \in Task /\ u.op = t.op /\ u.pc = "forget_remove" /\ u.svcs = t.svcs
      /\ u.victims = MatchingRules(t) /\ u.todo = t.todo /\ u.proto = t.proto
      /\ u.old = t.old /\ u.new = t.new
  BY <1>2, <1>3 DEF Task, Locked
<1>5. /\ Moves(p, u) /\ Others /\ u.pc \in Locked
      /\ UNCHANGED <<prefs, rules, lock, errored, detached>>
  BY <1>1, <1>2, <1>4 DEF Moves, ForgetScan, Others, IInv, TypeOK, Locked
<1>6. t.pc = "forget_scan" /\ t.pc \in Locked /\ Call(t)
  BY <1>1 DEF ForgetScan, Locked, IInv, CallInv
<1>7. Call(u) /\ Copied(u)' /\ Known(u)'
  BY <1>4, <1>5, <1>6 DEF Call, Copied, Known, MatchingRules
<1>8. \A r \in rules : ~ Saving(t, r) /\ (Handles(t, r) => Handles(u, r))
  BY <1>4, <1>6 DEF Saving, Handles, Call, MatchingRules
<1> QED
  BY <1>1, <1>4, <1>5, <1>6, <1>7, <1>8, HolderStepInv

\* A forget operation removes a rule, goes on to the records, or fails.
LEMMA ForgetRemoveInv ==
  ASSUME IInv, NEW p \in Caller, ForgetRemove(p)
  PROVE  IInv'
<1>1. PICK t \in Task : t = task[p]
  BY DEF IInv, TypeOK
<1>2. /\ t.pc = "forget_remove" /\ t.pc \in Locked /\ Call(t)
      /\ t.op \notin {"attach"} \cup RestoreOp /\ MatchingRules(t) \subseteq t.victims
  BY <1>1 DEF ForgetRemove, IInv, CallInv, Call, Known, Locked, RestoreOp
<1>3. \A r : /\ ~ Saving(t, r)
             /\ Handles(t, r) => ServiceOf[r.ep] \in t.svcs /\ r \in t.victims
  BY <1>2 DEF Saving, Handles
<1>4. Others /\ UNCHANGED <<prefs, readable, detached, cached>>
  BY DEF ForgetRemove, Fail, NextCandidate, Return, Others, IInv, TypeOK, Task
<1>5. CASE t.victims = {} /\ Goto(p, "records") /\ UNCHANGED <<rules, lock, errored>>
  <2>1. PICK u : u = [t EXCEPT !.pc = "records"]
    OBVIOUS
  <2>2. /\ u \in Task /\ u.op = t.op /\ u.pc = "records" /\ u.svcs = t.svcs
        /\ u.todo = t.todo /\ u.proto = t.proto /\ u.old = t.old /\ u.new = t.new
    BY <2>1 DEF Task, Locked
  <2>3. Moves(p, u) /\ u.pc \in Locked
    BY <1>1, <1>5, <2>1, <2>2 DEF Moves, Goto, Locked
  <2>4. Call(u) /\ Copied(u)' /\ Known(u)'
    BY <1>2, <1>5, <2>2 DEF Call, Copied, Known, MatchingRules
  <2> QED
    BY <1>1, <1>2, <1>3, <1>4, <1>5, <2>2, <2>3, <2>4, HolderStepInv
<1>6. ASSUME NEW r \in t.victims, rules' = WithoutRule(r), UNCHANGED <<lock, errored>>,
             task' = [task EXCEPT ![p].victims = @ \ {r}]
      PROVE  IInv'
  <2>1. PICK u : u = [t EXCEPT !.victims = t.victims \ {r}]
    OBVIOUS
  <2>2. /\ u \in Task /\ u.op = t.op /\ u.pc = t.pc /\ u.svcs = t.svcs
        /\ u.victims = t.victims \ {r} /\ u.todo = t.todo /\ u.proto = t.proto
        /\ u.old = t.old /\ u.new = t.new
    BY <2>1 DEF Task
  <2>3. Moves(p, u)
    BY <1>1, <1>6, <2>1 DEF Moves
  <2>4. rules' \subseteq rules /\ r \notin rules'
    BY <1>6 DEF WithoutRule, SameRuleId
  <2>5. Call(u) /\ Copied(u)' /\ Known(u)'
    BY <1>2, <2>2, <2>4 DEF Call, Copied, Known, MatchingRules
  <2>6. \A q \in rules' : Handles(t, q) => Handles(u, q)
    BY <1>2, <1>3, <2>2, <2>4 DEF Handles
  <2> QED
    BY <1>1, <1>2, <1>3, <1>4, <1>6, <2>2, <2>3, <2>4, <2>5, <2>6, HolderStepInv
<1>7. CASE Fail(p) /\ UNCHANGED rules
  BY <1>1, <1>2, <1>3, <1>4, <1>7, FailInv DEF Others
<1> QED
  BY <1>1, <1>5, <1>6, <1>7 DEF ForgetRemove

\* The records go only after the rules they backed.
LEMMA ForgetRecordsInv ==
  ASSUME IInv, NEW p \in Caller, ForgetRecords(p)
  PROVE  IInv'
<1>1. PICK t \in Task : t = task[p]
  BY DEF IInv, TypeOK
<1>2. /\ t.pc = "records" /\ t.pc \in Locked /\ t.op \notin {"attach"} \cup RestoreOp
      /\ MatchingRules(t) = {} /\ lock = p
  BY <1>1 DEF ForgetRecords, IInv, CallInv, Call, Known, Locked, RestoreOp, LockInv
<1>3. \A r : ~ Saving(t, r) /\ ~ Handles(t, r)
  BY <1>2 DEF Saving, Handles
<1>4. CASE Fail(p) /\ prefs' = prefs /\ readable' \in BOOLEAN
  BY <1>1, <1>2, <1>3, <1>4, FailInv DEF ForgetRecords
<1>5. CASE /\ prefs' = [e \in Endpoint |->
                          IF ServiceOf[e] \in t.svcs THEN NoPort ELSE prefs[e]]
           /\ Release /\ Return(p, FALSE) /\ UNCHANGED readable
  <2>1. PICK u \in Task : u = Idle
    BY IdleTask
  <2>2. /\ Moves(p, u) /\ lock' = NoProc
        /\ UNCHANGED <<readable, rules, detached, cached, errored>>
    BY <1>5, <2>1 DEF Moves, Return, Release, ForgetRecords
  <2>3. LockMoves(p, u)
    BY <1>2, <2>1, <2>2, IdleTask, ConstantsAssumption DEF LockMoves, Locked, Caller
  <2>4. Call(u) /\ Copied(u)' /\ Known(u)'
    BY <2>1, IdleTask DEF Call, Copied, Known
  <2>5. LockInv' /\ CallInv'
    BY <1>1, <1>2, <2>2, <2>3, <2>4, MoveInv DEF IInv, Gentle
  <2>6. prefs' \in Prefs /\ DistinctPorts(prefs)'
    BY <1>5 DEF DistinctPorts, IInv, RulesInv, TypeOK, Prefs
  <2>7. RulesInv'
    BY <2>2, <2>6 DEF IInv, RulesInv, OneListenerPerEndpoint, ListenerPortsUnique
  <2>8. \A r \in rules : Backed(r)
    BY <1>1, <1>2, <1>3 DEF IInv, BackedInv, LockInv, Saving, Locked
  <2>9. \A r \in rules : Backed(r)'
    BY <1>2, <1>5, <2>2, <2>8 DEF Backed, MatchingRules, IInv, TypeOK, Rule
  <2>10. BackedInv'
    BY <2>2, <2>9 DEF BackedInv
  <2>11. \A q \in Caller, r \in rules : Handles(task[q], r) => Handles(task'[q], r)
    BY <1>1, <1>3, <2>2 DEF Moves, IInv, TypeOK
  <2>12. DetachInv'
    BY <2>2, <2>11 DEF IInv, DetachInv, Handles
  <2>13. TypeOK'
    BY <2>2, <2>6 DEF IInv, TypeOK, Moves
  <2> QED
    BY <2>5, <2>7, <2>10, <2>12, <2>13 DEF IInv
<1> QED
  BY <1>1, <1>4, <1>5 DEF ForgetRecords, FailedWrite, IInv, TypeOK

-----------------------------------------------------------------------------
\* The task of a restore that begins.
LEMMA RestoreTaskFacts ==
  /\ RestoreTask \in Task /\ RestoreTask.op = "restore_cached"
  /\ RestoreTask.pc = "records_wait"
  /\ RestoreTask.old = NoRule /\ RestoreTask.new = NoRule
  BY IdleTask DEF RestoreTask, Task, Op, RestoreOp, Unlocked

\* A restore is requested.
LEMMA RestoreBeginInv ==
  ASSUME IInv, NEW p \in Caller, RestoreBegin(p)
  PROVE  IInv'
<1>1. PICK t \in Task : t = task[p]
  BY DEF IInv, TypeOK
<1>2. PICK u \in Task : u = RestoreTask
  BY RestoreTaskFacts
<1>3. Moves(p, u) /\ Call(u) /\ u.pc \notin Locked
  BY <1>2, RestoreTaskFacts DEF Moves, RestoreBegin, Call, Locked, RestoreOp
<1> QED
  BY <1>1, <1>3, WaitStepInv DEF RestoreBegin, Locked, IInv, TypeOK

\* A restore reads which records there are.
LEMMA PreferenceRecordsInv ==
  ASSUME IInv, NEW p \in Caller, PreferenceRecords(p)
  PROVE  IInv'
<1>1. PICK t \in Task : t = task[p]
  BY DEF IInv, TypeOK
<1>2. t.pc = "records_wait" /\ Call(t)
  BY <1>1 DEF PreferenceRecords, IInv, CallInv
<1>3. ASSUME NEW u \in Task, Moves(p, u), Call(u), u.pc \notin Locked
      PROVE  IInv'
  BY <1>1, <1>2, <1>3, WaitStepInv DEF PreferenceRecords, Locked, IInv, TypeOK
<1>4. CASE readable
  <2>1. PICK todo \in SUBSET Endpoint : todo = {e \in Endpoint : prefs[e] # NoPort}
    OBVIOUS
  <2>2. PICK u : u = [t EXCEPT !.pc = "candidate", !.todo = todo]
    OBVIOUS
  <2>3. /\ u \in Task /\ u.op = t.op /\ u.pc = "candidate"
        /\ u.old = t.old /\ u.new = t.new
    BY <2>2 DEF Task, Unlocked
  <2>4. Call(u) /\ u.pc \notin Locked
    BY <1>2, <2>3 DEF Call, Locked, RestoreOp
  <2> QED
    BY <1>1, <1>3, <1>4, <2>1, <2>2, <2>3, <2>4 DEF Moves, PreferenceRecords
<1>5. CASE ~ readable
  BY <1>3, <1>5, IdleTask DEF PreferenceRecords, Moves, Call, Locked
<1> QED
  BY <1>4, <1>5

\* A restore reads the cached snapshot of its next candidate.
LEMMA RestoreCandidateInv ==
  ASSUME IInv, NEW p \in Caller, NEW e \in Endpoint, RestoreCandidate(p, e)
  PROVE  IInv'
<1>1. PICK t \in Task : t = task[p]
  BY DEF IInv, TypeOK
<1>2. t.pc = "candidate" /\ Call(t)
  BY <1>1 DEF RestoreCandidate, IInv, CallInv
<1>3. ASSUME NEW u \in Task, Moves(p, u), Call(u), u.pc \notin Locked
      PROVE  IInv'
  BY <1>1, <1>2, <1>3, WaitStepInv DEF RestoreCandidate, Locked, IInv, TypeOK
<1>4. CASE cached[e] = NoProtocol
  <2>1. PICK u : u = [t EXCEPT !.todo = t.todo \ {e}]
    OBVIOUS
  <2>2. u \in Task /\ u.op = t.op /\ u.pc = t.pc /\ u.old = t.old /\ u.new = t.new
    BY <2>1 DEF Task
  <2>3. Call(u) /\ u.pc \notin Locked
    BY <1>2, <2>2 DEF Call, Locked, RestoreOp
  <2> QED
    BY <1>1, <1>3, <1>4, <2>1, <2>2, <2>3 DEF Moves, RestoreCandidate
<1>5. CASE cached[e] # NoProtocol
  <2>1. PICK proto \in [Endpoint -> Protocol \cup {NoProtocol}] :
          proto = [t.proto EXCEPT ![e] = cached[e]]
    BY DEF Task, IInv, TypeOK
  <2>2. proto[e] \in Protocol
    BY <1>5, <2>1 DEF Task, IInv, TypeOK
  <2>3. PICK u : u = [t EXCEPT !.todo = t.todo \ {e}, !.ep = e, !.pc = "restore_wait",
                               !.proto = proto]
    OBVIOUS
  <2>4. /\ u \in Task /\ u.op = t.op /\ u.pc = "restore_wait" /\ u.ep = e
        /\ u.proto = proto /\ u.old = t.old /\ u.new = t.new
    BY <2>3 DEF Task, Unlocked
  <2>5. Call(u) /\ u.pc \notin Locked
    BY <1>2, <2>2, <2>4 DEF Call, Locked, RestoreOp
  <2>6. Moves(p, u)
    BY <1>1, <1>5, <2>1, <2>3 DEF Moves, RestoreCandidate
  <2> QED
    BY <1>3, <2>4, <2>5, <2>6
<1> QED
  BY <1>4, <1>5

\* A pass of a restore ends.
LEMMA RestoreDoneInv ==
  ASSUME IInv, NEW p \in Caller, RestoreDone(p)
  PROVE  IInv'
<1>1. PICK t \in Task : t = task[p]
  BY DEF IInv, TypeOK
<1>2. t.pc = "candidate" /\ Call(t)
  BY <1>1 DEF RestoreDone, IInv, CallInv
<1>3. ASSUME NEW u \in Task, Moves(p, u), Call(u), u.pc \notin Locked
      PROVE  IInv'
  BY <1>1, <1>2, <1>3, WaitStepInv DEF RestoreDone, Locked, IInv, TypeOK
<1>4. CASE t.op = "restore_cached"
  <2>1. PICK u : u = [t EXCEPT !.pc = "refresh_wait"]
    OBVIOUS
  <2>2. u \in Task /\ u.op = t.op /\ u.pc = "refresh_wait"
    BY <2>1 DEF Task, Unlocked
  <2>3. Call(u) /\ u.pc \notin Locked
    BY <1>4, <2>2 DEF Call, Locked, RestoreOp
  <2> QED
    BY <1>1, <1>3, <1>4, <2>1, <2>2, <2>3 DEF Moves, RestoreDone
<1>5. CASE t.op # "restore_cached"
  BY <1>1, <1>3, <1>5, IdleTask DEF RestoreDone, Moves, Call, Locked
<1> QED
  BY <1>4, <1>5

\* A restore reads which devices it has to refresh.
LEMMA RestoreRefreshListInv ==
  ASSUME IInv, NEW p \in Caller, RestoreRefreshList(p)
  PROVE  IInv'
<1>1. PICK t \in Task : t = task[p]
  BY DEF IInv, TypeOK
<1>2. t.pc = "refresh_wait" /\ Call(t)
  BY <1>1 DEF RestoreRefreshList, IInv, CallInv
<1>3. ASSUME NEW u \in Task, Moves(p, u), Call(u), u.pc \notin Locked
      PROVE  IInv'
  BY <1>1, <1>2, <1>3, WaitStepInv DEF RestoreRefreshList, Locked, IInv, TypeOK
<1>4. CASE readable
  <2>1. PICK svcs \in SUBSET Service :
          svcs = {s \in Service : \E e \in Endpoint :
                    prefs[e] # NoPort /\ DeviceOf[ServiceOf[e]] = DeviceOf[s]}
    OBVIOUS
  <2>2. PICK u : u = [t EXCEPT !.pc = "refresh", !.svcs = svcs]
    OBVIOUS
  <2>3. u \in Task /\ u.op = t.op /\ u.pc = "refresh"
    BY <2>2 DEF Task, Unlocked
  <2>4. Call(u) /\ u.pc \notin Locked
    BY <1>2, <2>3 DEF Call, Locked, RestoreOp
  <2> QED
    BY <1>1, <1>3, <1>4, <2>1, <2>2, <2>3, <2>4 DEF Moves, RestoreRefreshList
<1>5. CASE ~ readable
  BY <1>3, <1>5, IdleTask DEF RestoreRefreshList, Moves, Call, Locked
<1> QED
  BY <1>4, <1>5

\* A restore refreshes the devices and begins its second pass.
LEMMA RestoreRefreshInv ==
  ASSUME IInv, NEW p \in Caller, NEW live \in Snapshots, NEW devices \in SUBSET Device,
         RestoreRefresh(p, live, devices)
  PROVE  IInv'
<1>1. PICK t \in Task : t = task[p]
  BY DEF IInv, TypeOK
<1>2. t.pc = "refresh"
  BY <1>1 DEF RestoreRefresh
<1>3. PICK u : u = [RestoreTask EXCEPT !.op = "restore_refreshed"]
  OBVIOUS
<1>4. /\ u \in Task /\ u.op = "restore_refreshed" /\ u.pc = "records_wait"
      /\ u.old = NoRule /\ u.new = NoRule
  BY <1>3, RestoreTaskFacts DEF Task, Op, RestoreOp
<1>5. Moves(p, u) /\ Call(u) /\ u.pc \notin Locked
  BY <1>3, <1>4 DEF Moves, RestoreRefresh, Call, Locked, RestoreOp
<1>6. cached' \in [Endpoint -> Protocol \cup {NoProtocol}]
  BY DEF RestoreRefresh, Snapshots, IInv, TypeOK
<1> QED
  BY <1>1, <1>2, <1>4, <1>5, <1>6, WaitStepInv DEF RestoreRefresh, Locked

\* A restore takes the mutex and reads the record again: the port it goes on
\* with is the one in the file.
LEMMA RestoreLockInv ==
  ASSUME IInv, NEW p \in Caller, RestoreLock(p)
  PROVE  IInv'
<1>1. PICK t \in Task : t = task[p]
  BY DEF IInv, TypeOK
<1>2. t.pc = "restore_wait" /\ lock = NoProc /\ Call(t)
  BY <1>1 DEF RestoreLock, IInv, CallInv
<1>3. t.op \in RestoreOp /\ t.ep \in Endpoint
  BY <1>2 DEF Call
<1>4. \A r : ~ Saving(t, r) /\ ~ Handles(t, r)
  BY <1>2 DEF Saving, Handles, Locked
<1>5. CASE NextCandidate(p)
  BY <1>1, <1>2, <1>3, <1>4, <1>5, NextCandidateInv DEF RestoreLock, IInv, TypeOK
<1>6. CASE /\ prefs[t.ep] # NoPort /\ lock' = p /\ UNCHANGED errored
           /\ task' = [task EXCEPT ![p].pc = "find", ![p].port = prefs[t.ep]]
  <2>1. PICK port \in Port : port = prefs[t.ep]
    BY <1>3, <1>6 DEF IInv, TypeOK, Prefs
  <2>2. PICK u : u = [t EXCEPT !.pc = "find", !.port = port]
    OBVIOUS
  <2>3. /\ u \in Task /\ u.op = t.op /\ u.pc = "find" /\ u.ep = t.ep
        /\ u.port = port /\ u.proto = t.proto /\ u.old = t.old /\ u.new = t.new
    BY <2>2 DEF Task, Locked
  <2>4. /\ Moves(p, u) /\ Others
        /\ UNCHANGED <<prefs, rules, detached, errored>>
    BY <1>1, <1>6, <2>1, <2>2 DEF Moves, RestoreLock, Others, IInv, TypeOK
  <2>5. LockMoves(p, u)
    BY <1>2, <1>6, <2>3 DEF LockMoves, Locked
  <2>6. Call(u)
    BY <1>2, <2>3 DEF Call, RestoreOp
  <2>7. Copied(u)' /\ Known(u)'
    BY <1>3, <2>1, <2>3, <2>4 DEF Copied, Known, RestoreOp
  <2> QED
    BY <1>1, <1>4, <2>3, <2>4, <2>5, <2>6, <2>7, StepInv
<1> QED
  BY <1>1, <1>5, <1>6 DEF RestoreLock

\* A restore compares the record with the rule of its endpoint.
LEMMA RestoreFindInv ==
  ASSUME IInv, NEW p \in Caller, RestoreFind(p)
  PROVE  IInv'
<1>1. PICK t \in Task : t = task[p]
  BY DEF IInv, TypeOK
<1>2. t.pc = "find" /\ t.pc \in Locked /\ lock = p /\ Call(t) /\ Known(t)
  BY <1>1 DEF RestoreFind, IInv, CallInv, Locked, LockInv
<1>3. /\ t.op \in RestoreOp /\ t.ep \in Endpoint /\ t.port \in Port
      /\ t.old = NoRule /\ t.new = NoRule /\ t.port = prefs[t.ep]
  BY <1>2 DEF Call, Known
<1>4. \A r : ~ Saving(t, r) /\ ~ Handles(t, r)
  BY <1>2, <1>3 DEF Saving, Handles, RestoreOp
<1>5. Others /\ UNCHANGED <<prefs, readable, rules, detached, cached>>
  BY DEF RestoreFind, NextCandidate, Others, IInv, TypeOK
<1>6. CASE RulesFor(t.ep, rules) = {} /\ Goto(p, "start") /\ UNCHANGED <<lock, errored>>
  <2>1. PICK u : u = [t EXCEPT !.pc = "start"]
    OBVIOUS
  <2>2. /\ u \in Task /\ u.op = t.op /\ u.pc = "start" /\ u.ep = t.ep
        /\ u.port = t.port /\ u.proto = t.proto /\ u.old = t.old /\ u.new = t.new
    BY <2>1 DEF Task, Locked
  <2>3. Moves(p, u) /\ u.pc \in Locked
    BY <1>1, <1>6, <2>1, <2>2 DEF Moves, Goto, Locked
  <2>4. Call(u)
    BY <1>2, <1>3, <2>2 DEF Call, RestoreOp
  <2>5. \A d \in Endpoint : d # t.ep => prefs[d] # t.port
    BY <1>3, ConstantsAssumption DEF IInv, RulesInv, DistinctPorts
  <2>6. Copied(u)' /\ Known(u)'
    BY <1>3, <1>5, <1>6, <2>2, <2>5 DEF Copied, Known, RulesFor, Vacant, RestoreOp
  <2> QED
    BY <1>1, <1>2, <1>4, <1>5, <1>6, <2>2, <2>3, <2>4, <2>6, HolderStepInv
<1>7. CASE NextCandidate(p)
  BY <1>1, <1>2, <1>3, <1>4, <1>5, <1>7, NextCandidateInv DEF Others
<1>8. ASSUME NEW r \in RulesFor(t.ep, rules), UNCHANGED <<lock, errored>>,
             task' = [task EXCEPT ![p].pc = "replace", ![p].old = r]
      PROVE  IInv'
  <2>1. r \in Rule /\ r \in rules /\ r.ep = t.ep /\ r # NoRule
    BY <1>8, ConstantsAssumption DEF RulesFor, IInv, TypeOK, Rule
  <2>2. Backed(r)
    BY <1>1, <1>2, <1>4, <2>1 DEF IInv, BackedInv, LockInv, Saving, Locked
  <2>3. PICK u : u = [t EXCEPT !.pc = "replace", !.old = r]
    OBVIOUS
  <2>4. /\ u \in Task /\ u.op = t.op /\ u.pc = "replace" /\ u.ep = t.ep
        /\ u.port = t.port /\ u.proto = t.proto /\ u.old = r /\ u.new = t.new
    BY <2>1, <2>3 DEF Task, Locked
  <2>5. Moves(p, u) /\ u.pc \in Locked
    BY <1>1, <1>8, <2>3, <2>4 DEF Moves, Locked
  <2>6. Call(u)
    BY <1>2, <1>3, <2>1, <2>4 DEF Call, RestoreOp
  <2>7. Copied(u)' /\ Known(u)'
    BY <1>3, <1>5, <2>1, <2>2, <2>4
    DEF Copied, Known, Backed, RestoreOp, IInv, RulesInv, OneListenerPerEndpoint
  <2> QED
    BY <1>1, <1>2, <1>4, <1>5, <1>8, <2>4, <2>5, <2>6, <2>7, HolderStepInv
<1> QED
  BY <1>1, <1>6, <1>7, <1>8 DEF RestoreFind

\* A restore takes down the rule that differs from the record.
LEMMA RestoreReplaceInv ==
  ASSUME IInv, NEW p \in Caller, RestoreReplace(p)
  PROVE  IInv'
<1>1. PICK t \in Task : t = task[p]
  BY DEF IInv, TypeOK
<1>2. t.pc = "replace" /\ t.pc \in Locked /\ Call(t) /\ Known(t)
  BY <1>1 DEF RestoreReplace, IInv, CallInv, Locked
<1>3. /\ t.op \in RestoreOp /\ t.ep \in Endpoint /\ t.port \in Port
      /\ t.old # NoRule /\ t.old.ep = t.ep /\ t.new = NoRule /\ t.port = prefs[t.ep]
      /\ Backed(t.old) /\ \A r \in rules : r.ep = t.ep => r = t.old
  BY <1>2 DEF Call, Known
<1>4. \A r : ~ Saving(t, r) /\ ~ Handles(t, r)
  BY <1>2, <1>3 DEF Saving, Handles, RestoreOp
<1>5. Others /\ UNCHANGED <<prefs, readable, detached, cached>>
  BY DEF RestoreReplace, Fail, NextCandidate, Return, Others, IInv, TypeOK, Task
<1>6. CASE rules' = WithoutRule(t.old) /\ Goto(p, "start") /\ UNCHANGED <<lock, errored>>
  <2>1. PICK u : u = [t EXCEPT !.pc = "start"]
    OBVIOUS
  <2>2. /\ u \in Task /\ u.op = t.op /\ u.pc = "start" /\ u.ep = t.ep
        /\ u.port = t.port /\ u.proto = t.proto /\ u.old = t.old /\ u.new = t.new
    BY <2>1 DEF Task, Locked
  <2>3. Moves(p, u) /\ u.pc \in Locked
    BY <1>1, <1>6, <2>1, <2>2 DEF Moves, Goto, Locked
  <2>4. Call(u)
    BY <1>2, <1>3, <2>2 DEF Call, RestoreOp
  <2>5. \A d \in Endpoint : d # t.ep => prefs[d] # t.port
    BY <1>3, ConstantsAssumption DEF IInv, RulesInv, DistinctPorts
  <2>6. rules' \subseteq rules /\ Vacant(t.ep)'
    BY <1>3, <1>6 DEF WithoutRule, SameRuleId, Vacant
  <2>7. Copied(u)' /\ Known(u)'
    BY <1>3, <1>5, <2>2, <2>5, <2>6 DEF Copied, Known, Backed, RestoreOp
  <2> QED
    BY <1>1, <1>2, <1>4, <1>5, <1>6, <2>2, <2>3, <2>4, <2>6, <2>7, HolderStepInv
<1>7. CASE Fail(p) /\ UNCHANGED rules
  BY <1>1, <1>2, <1>4, <1>5, <1>7, FailInv DEF Others
<1> QED
  BY <1>1, <1>6, <1>7 DEF RestoreReplace

\* The re-check after insertion: the restore leaves no rule behind for a
\* service that has been detached.
LEMMA RestoreRecheckInv ==
  ASSUME IInv, NEW p \in Caller, RestoreRecheck(p)
  PROVE  IInv'
<1>1. PICK t \in Task : t = task[p]
  BY DEF IInv, TypeOK
<1>2. t.pc = "recheck" /\ lock = p /\ t.op \in RestoreOp /\ t.new.ep = t.ep
  BY <1>1 DEF RestoreRecheck, IInv, CallInv, Call, Locked, LockInv
<1>3. /\ NextCandidate(p) /\ UNCHANGED <<prefs, readable, detached, cached>>
      /\ rules' \subseteq rules
  BY DEF RestoreRecheck, WithoutRule
<1>4. ServiceOf[t.new.ep] \in detached => t.new \notin rules'
  BY <1>1, <1>2 DEF RestoreRecheck, WithoutRule, SameRuleId
<1>5. \A r \in rules' : /\ ~ Saving(t, r)
                        /\ ServiceOf[r.ep] \in detached => ~ Handles(t, r)
  BY <1>2, <1>4 DEF Saving, Handles, RestoreOp
<1> QED
  BY <1>1, <1>2, <1>3, <1>5, NextCandidateInv DEF IInv, TypeOK

-----------------------------------------------------------------------------
\* A daemon that has just started has no rule and no call but the restore it
\* spawns.
LEMMA InitIInv == Init => IInv
<1> SUFFICES ASSUME Init PROVE IInv
  OBVIOUS
<1>1. /\ task \in [Caller -> Task]
      /\ \A p \in Caller : task[p] \in {RestoreTask, Idle}
  BY IdleTask, RestoreTaskFacts DEF Init
<1>2. LockInv
  BY <1>1, IdleTask, RestoreTaskFacts, ConstantsAssumption DEF Init, LockInv, Locked, Caller
<1>3. CallInv
  BY <1>1, IdleTask, RestoreTaskFacts DEF CallInv, Call, Copied, Known, RestoreOp
<1> QED
  BY <1>1, <1>2, <1>3 DEF Init, Snapshots, IInv, TypeOK, RulesInv, BackedInv, DetachInv,
     OneListenerPerEndpoint, ListenerPortsUnique

\* Nothing but the file and the cached snapshots survives a restart, at
\* whatever step it comes.
LEMMA RestartInv == ASSUME IInv, Restart PROVE IInv'
<1>1. /\ prefs' \in Prefs /\ DistinctPorts(prefs)' /\ readable' \in BOOLEAN
      /\ cached' \in [Endpoint -> Protocol \cup {NoProtocol}]
  BY DEF Restart, IInv, TypeOK, RulesInv, DistinctPorts
<1>2. /\ lock' = NoProc /\ rules' = {} /\ detached' = {} /\ errored' = {}
      /\ task' = [p \in Caller |-> IF p = Boot THEN RestoreTask ELSE Idle]
  BY DEF Restart
<1>3. /\ task' \in [Caller -> Task]
      /\ \A p \in Caller : task'[p] \in {RestoreTask, Idle}
  BY <1>2, IdleTask, RestoreTaskFacts
<1>4. LockInv'
  BY <1>2, <1>3, IdleTask, RestoreTaskFacts, ConstantsAssumption DEF LockInv, Locked, Caller
<1>5. CallInv'
  BY <1>3, IdleTask, RestoreTaskFacts DEF CallInv, Call, Copied, Known, RestoreOp
<1> QED
  BY <1>1, <1>2, <1>3, <1>4, <1>5 DEF IInv, TypeOK, RulesInv, BackedInv, DetachInv,
     OneListenerPerEndpoint, ListenerPortsUnique

\* A refreshed snapshot is used by calls that begin later only.
LEMMA RefreshInv ==
  ASSUME IInv, NEW e \in Endpoint, NEW pr \in ProtocolsOf[e] \cup {NoProtocol},
         Refresh(e, pr)
  PROVE  IInv'
<1>1. pr \in Protocol \cup {NoProtocol}
  BY ConstantsAssumption
<1>2. TypeOK'
  BY <1>1 DEF Refresh, IInv, TypeOK
<1>3. CallInv'
  BY DEF Refresh, IInv, CallInv, Call, Copied, Known, Backed, Vacant, MatchingRules
<1> QED
  BY <1>2, <1>3 DEF Refresh, IInv, LockInv, RulesInv, DistinctPorts, BackedInv, Backed,
     Saving, DetachInv, Handles, OneListenerPerEndpoint, ListenerPortsUnique

\* Every step keeps the invariant.
LEMMA NextIInv == IInv /\ [Next]_vars => IInv'
<1> SUFFICES ASSUME IInv, [Next]_vars PROVE IInv'
  OBVIOUS
<1>1. ASSUME NEW p \in Proc, Begin(p) PROVE IInv'
  <2>1. p \in Caller
    BY DEF Caller
  <2>2. CASE \E s \in Service, eps \in SUBSET Endpoint, w \in Port \cup {NoPort} :
               AttachBegin(p, s, eps, w)
    BY <2>1, <2>2, AttachBeginInv
  <2>3. CASE \E s \in Service : DetachBegin(p, s)
    BY <2>1, <2>3, DetachBeginInv
  <2>4. CASE \E s \in Service : ForgetServiceBegin(p, s)
    BY <2>1, <2>4, ForgetBeginInv DEF ForgetServiceBegin
  <2>5. CASE \E d \in Device : ForgetDeviceBegin(p, d)
    BY <2>1, <2>5, ForgetBeginInv DEF ForgetDeviceBegin
  <2>6. CASE RestoreBegin(p)
    BY <2>1, <2>6, RestoreBeginInv
  <2> QED
    BY <1>1, <2>2, <2>3, <2>4, <2>5, <2>6 DEF Begin
<1>2. ASSUME NEW p \in Caller, AttachStep(p) PROVE IInv'
  BY <1>2, AttachLockInv, AttachEndpointInv, AttachNoPortInv, AttachSaveInv,
     RollbackInv, AttachDoneInv DEF AttachStep
<1>3. ASSUME NEW p \in Caller, SharedStep(p) PROVE IInv'
  BY <1>3, StartRuleInv, UndoCheckInv, UndoAddInv, UndoRecheckInv DEF SharedStep
<1>4. ASSUME NEW p \in Caller, DetachStep(p) PROVE IInv'
  BY <1>4, DetachScanInv, DetachRemoveInv DEF DetachStep
<1>5. ASSUME NEW p \in Caller, ForgetStep(p) PROVE IInv'
  BY <1>5, ForgetLockInv, ForgetScanInv, ForgetRemoveInv, ForgetRecordsInv DEF ForgetStep
<1>6. ASSUME NEW p \in Caller, RestoreStep(p) PROVE IInv'
  BY <1>6, PreferenceRecordsInv, RestoreDoneInv, RestoreLockInv, RestoreCandidateInv,
     RestoreFindInv, RestoreReplaceInv, RestoreRecheckInv, RestoreRefreshListInv,
     RestoreRefreshInv DEF RestoreStep
<1>7. CASE UNCHANGED vars
  BY <1>7 DEF vars, IInv, TypeOK, LockInv, CallInv, Call, Copied, Known, Backed, Vacant,
     MatchingRules, RulesInv, DistinctPorts, BackedInv, Saving, DetachInv, Handles,
     OneListenerPerEndpoint, ListenerPortsUnique
<1> QED
  BY <1>1, <1>2, <1>3, <1>4, <1>5, <1>6, <1>7, RefreshInv, RestartInv DEF Next, Step

\* The invariant of the specification.
THEOREM Inductive == Spec => []IInv
  BY InitIInv, NextIInv, PTL DEF Spec

-----------------------------------------------------------------------------
\* The variables and the tasks of the callers have the types declared.
THEOREM TypeCorrect == Spec => []TypeOK
<1>1. IInv => TypeOK
  BY DEF IInv
<1> QED
  BY <1>1, Inductive, PTL

\* An endpoint never has two listeners, whatever attach, restore, detach and
\* forget calls overlap, fail or are cut off by a restart.
THEOREM OneListener == Spec => []OneListenerPerEndpoint
<1>1. IInv => OneListenerPerEndpoint
  BY DEF IInv, RulesInv
<1> QED
  BY <1>1, Inductive, PTL

\* No two listeners forward the same local port.
THEOREM PortsUnique == Spec => []ListenerPortsUnique
<1>1. IInv => ListenerPortsUnique
  BY DEF IInv, RulesInv
<1> QED
  BY <1>1, Inductive, PTL

\* While no operation holds the mutex, every listener has a saved record with
\* its port.
THEOREM RecordBehindListener == Spec => []ListenerHasRecord
<1>1. IInv => ListenerHasRecord
  BY ConstantsAssumption
  DEF IInv, BackedInv, Backed, Saving, LockInv, Locked, Caller, ListenerHasRecord
<1> QED
  BY <1>1, Inductive, PTL

\* Once all calls have returned, a detached service has a listener only if a
\* call has reported an error about it.
THEOREM NoSilentDetach == Spec => []DetachNeverFailsSilently
<1>1. IInv => DetachNeverFailsSilently
  BY DEF IInv, DetachInv, Handles, Locked, Quiet, DetachNeverFailsSilently
<1> QED
  BY <1>1, Inductive, PTL

\* Only the save of attach and the removal of records write the file.
LEMMA OnlyTwoWrite ==
  ASSUME NEW p \in Caller, Step(p), prefs' # prefs
  PROVE  AttachSave(p) \/ ForgetRecords(p)
<1>1. AttachStep(p) => AttachSave(p)
  BY DEF AttachStep, AttachLock, AttachEndpoint, AttachNoPort, Rollback, AttachDone
<1>2. ~ SharedStep(p) /\ ~ DetachStep(p)
  BY DEF SharedStep, StartRule, UndoCheck, UndoAdd, UndoRecheck, DetachStep, DetachScan,
     DetachRemove
<1>3. ForgetStep(p) => ForgetRecords(p)
  BY DEF ForgetStep, ForgetLock, ForgetScan, ForgetRemove
<1>4. ~ RestoreStep(p)
  BY DEF RestoreStep, PreferenceRecords, RestoreDone, RestoreLock, RestoreCandidate,
     RestoreFind, RestoreReplace, RestoreRecheck, RestoreRefreshList, RestoreRefresh
<1> QED
  BY <1>1, <1>2, <1>3, <1>4 DEF Step

\* A step changes a saved port only for the endpoint it attaches or the
\* services it forgets: writing the whole file from a copy loses no record
\* another call has saved.
THEOREM RecordsSurvive == Spec => SavedRecordsSurvive
<1> DEFINE Survive ==
      \A e \in Endpoint : prefs'[e] # prefs[e] =>
        \E p \in Caller :
          \/ task[p].pc = "save" /\ task[p].ep = e
          \/ task[p].pc = "records" /\ ServiceOf[e] \in task[p].svcs
<1>1. IInv /\ [Next]_vars => [Survive]_vars
  <2> SUFFICES ASSUME IInv, Next, NEW e \in Endpoint, prefs'[e] # prefs[e]
               PROVE  \E p \in Caller :
                        \/ task[p].pc = "save" /\ task[p].ep = e
                        \/ task[p].pc = "records" /\ ServiceOf[e] \in task[p].svcs
    OBVIOUS
  <2>1. \A p \in Proc : ~ Begin(p)
    BY DEF Begin, AttachBegin, DetachBegin, ForgetServiceBegin, ForgetDeviceBegin,
       RestoreBegin
  <2>2. PICK p \in Caller : Step(p)
    BY <2>1 DEF Next, Refresh, Restart
  <2>3. CASE AttachSave(p)
    <3>1. task[p].pc = "save" /\ task[p].copy = prefs
      BY <2>3 DEF AttachSave, IInv, CallInv, Call, Copied
    <3> QED
      BY <2>3, <3>1 DEF AttachSave, FailedWrite, IInv, TypeOK, Prefs
  <2>4. CASE ForgetRecords(p)
    BY <2>4 DEF ForgetRecords, FailedWrite
  <2> QED
    BY <2>2, <2>3, <2>4, OnlyTwoWrite
<1> QED
  BY <1>1, Inductive, PTL DEF Spec, SavedRecordsSurvive

=============================================================================
