----------------------------- MODULE HomeProofs -----------------------------
(***************************************************************************)
(* For any number of processes and any homes they begin with: the lock     *)
(* keeps the entry of a daemon in place, a command is served by a daemon   *)
(* of its own home as long as that daemon serves, and the home as it was   *)
(* found is never lost.                                                    *)
(***************************************************************************)
EXTENDS Home, TLAPS

\* Where a daemon has the lock, and where a process goes by a port.
Held == {"bind", "publish", "serve", "unpublish", "unlock"}
Ported == {"publish", "serve", "unpublish", "connect", "check", "connected"}

Shape == DOMAIN task = Proc /\ \A p \in Proc : DOMAIN task[p] = DOMAIN Idle

DaemonInv ==
  /\ lock \in Proc \cup {NoProc} /\ endpoint \in Port \cup {NoPort}
  /\ bound \in [Port -> Proc \cup {NoProc, Foreign}]
  /\ \A p \in Proc : /\ task[p].pc \in Held <=> lock = p
                     /\ task[p].pc \in Ported => task[p].port \in Port
                     /\ task[p].pc = "serve" => endpoint = task[p].port

\* Where a daemon may have connections, and where a command may have one.
Reachable == {"publish", "serve", "unpublish", "unlock"}
Calling == {"connect", "check", "connected", "refused"}

\* Who listens is a daemon between binding its port and the end of its service.
Bindings ==
  \A port \in Port, q \in Proc :
    bound[port] = q <=> task[q].pc \in {"publish", "serve"} /\ task[q].port = port

\* A connection leads to a daemon that is not gone yet, and was made by its port.
LinkInv ==
  /\ link \in [Proc -> Proc \cup {NoProc, Foreign}]
  /\ \A p \in Proc : link[p] # NoProc => task[p].pc \in Calling
  /\ \A p, q \in Proc : link[p] = q => task[q].pc \in Reachable /\ task[q].port = task[p].port

\* A daemon that has served since a command found it is the one that the
\* command's port leads to and, once it is connected, its connection.
SteadyInv ==
  /\ steady \in [Proc -> SUBSET Proc]
  /\ \A p \in Proc : \A q \in steady[p] :
       /\ task[q].pc = "serve" /\ task[p].port = task[q].port
       /\ task[p].pc \in {"connect", "check", "connected"}
       /\ task[p].pc # "connect" => link[p] = q

CallInv == Bindings /\ LinkInv /\ SteadyInv

\* Where a migration has its backup and may have begun to change the home.
Changing == {"copy", "transform", "aside", "place", "undo"}

\* The backup holds what there is before the position the copy has reached.
BackedUp(t) ==
  /\ t.at \in 1..Len(Paths) + 1
  /\ t.backup = [q \in Path |-> t.backup[q]]
  /\ \A i \in 1..Len(Paths) :
       t.backup[Paths[i]] = IF i < t.at THEN live[Paths[i]] ELSE Absent

\* The home is as it was found, or a daemon has initialised one that had nothing to migrate.
Untouched ==
  /\ \A q \in Path : Exists(original, q) => live[q] = original[q]
  /\ live = original \/ Plan(live) = {}

RecoveryInv ==
  /\ \A p \in Proc : task[p].pc = "detect" => task[p].backup = Nothing
  /\ saved \in BOOLEAN
  /\ live = [q \in Path |-> live[q]] /\ original = [q \in Path |-> original[q]]
  /\ ~ saved =>
       /\ Untouched
       /\ \A p \in Proc :
            /\ task[p].pc \notin Changing
            /\ task[p].pc = "create" => Plan(live) = {}
            /\ task[p].pc = "backup" => live = original /\ Exists(live, "config") /\ BackedUp(task[p])

IInv == Shape /\ DaemonInv /\ CallInv /\ RecoveryInv

-----------------------------------------------------------------------------
\* The migration goes through twelve paths, each once.
LEMMA PathsFacts ==
  /\ Len(Paths) = 12
  /\ \A i \in 1..12 : Paths[i] \in Path
  /\ \A q \in Path : \E i \in 1..12 : q = Paths[i]
  /\ \A i, j \in 1..12 : Paths[i] = Paths[j] => i = j
<1>1. Len(Paths) = 12 /\ DOMAIN Paths = 1..12
  BY DEF Paths
<1>2. Path = {Paths[i] : i \in 1..12}
  BY <1>1 DEF Path, Range
<1>3. \A i, j \in 1..12 : Paths[i] = Paths[j] => i = j
  BY DEF Paths
<1> QED
  BY <1>1, <1>2, <1>3

\* The next path to be treated lies behind the last one, and no path in between
\* has to be treated.
LEMMA FollowingFacts ==
  ASSUME NEW S, NEW i \in 0..12
  PROVE  /\ Following(S, i) \in i + 1..13
         /\ \A k \in i + 1..Following(S, i) - 1 : Paths[k] \notin S
<1> DEFINE Least(m, j) == /\ j \in m + 1..13
                          /\ j <= 12 => Paths[j] \in S
                          /\ \A k \in m + 1..j - 1 : Paths[k] \notin S
<1>1. \E j : Least(12, j)
  <2>1. Least(12, 13)
    OBVIOUS
  <2> QED
    BY <2>1
<1>2. ASSUME NEW m \in 0..11, \E j : Least(m + 1, j)
      PROVE  \E j : Least(m, j)
  <2>1. PICK j : Least(m + 1, j)
    BY <1>2
  <2>2. CASE Paths[m + 1] \in S
    <3>1. Least(m, m + 1)
      BY <2>2
    <3> QED
      BY <3>1
  <2>3. CASE Paths[m + 1] \notin S
    <3>1. \A k \in m + 1..j - 1 : k = m + 1 \/ k \in m + 2..j - 1
      BY <2>1
    <3>2. Least(m, j)
      BY <2>1, <2>3, <3>1
    <3> QED
      BY <3>2
  <2> QED
    BY <2>2, <2>3
<1>3. \E j : Least(11, j)
  BY <1>1, <1>2
<1>4. \E j : Least(10, j)
  BY <1>2, <1>3
<1>5. \E j : Least(9, j)
  BY <1>2, <1>4
<1>6. \E j : Least(8, j)
  BY <1>2, <1>5
<1>7. \E j : Least(7, j)
  BY <1>2, <1>6
<1>8. \E j : Least(6, j)
  BY <1>2, <1>7
<1>9. \E j : Least(5, j)
  BY <1>2, <1>8
<1>10. \E j : Least(4, j)
  BY <1>2, <1>9
<1>11. \E j : Least(3, j)
  BY <1>2, <1>10
<1>12. \E j : Least(2, j)
  BY <1>2, <1>11
<1>13. \E j : Least(1, j)
  BY <1>2, <1>12
<1>14. \E j : Least(0, j)
  BY <1>2, <1>13
<1>15. \E j : Least(i, j)
  BY <1>1, <1>3, <1>4, <1>5, <1>6, <1>7, <1>8, <1>9, <1>10, <1>11, <1>12, <1>13, <1>14
<1>16. Following(S, i) = CHOOSE j \in i + 1..13 : (j <= 12 => Paths[j] \in S) /\ \A k \in i + 1..j - 1 : Paths[k] \notin S
  BY PathsFacts DEF Following
<1> QED
  BY <1>15, <1>16

-----------------------------------------------------------------------------
\* A process before it has done anything, and after it is gone.
LEMMA IdleShape ==
  /\ Idle.pc = "idle" /\ Idle.backup = Nothing /\ Idle.port = NoPort
  /\ DOMAIN Idle = {"pc", "kind", "plan", "at", "staged", "rollback", "backup", "applied", "found",
                    "port", "round"}
  BY DEF Idle

\* A step of a process that neither has nor takes the lock leaves the lock, the
\* endpoint and the ports alone.
LEMMA OutsideMove ==
  ASSUME Shape, DaemonInv, NEW p \in Proc, NEW u, task' = [task EXCEPT ![p] = u],
         DOMAIN u = DOMAIN Idle, task[p].pc \notin Held, u.pc \notin Held,
         u.pc \in Ported => u.port \in Port,
         UNCHANGED Daemonic
  PROVE  Shape' /\ DaemonInv'
<1>1. task'[p] = u /\ \A q \in Proc \ {p} : task'[q] = task[q]
  BY DEF Shape
<1>2. Shape'
  BY <1>1 DEF Shape
<1>3. lock # p
  BY DEF DaemonInv
<1>4. DaemonInv'
  BY <1>1, <1>3 DEF DaemonInv, Daemonic, Held
<1> QED
  BY <1>2, <1>4

\* A step of a migration: it starts with an empty backup and ends as an
\* initialisation, a command, or with an error; lock and endpoint are not its
\* business.
LEMMA MigrateMove ==
  ASSUME Shape, NEW p \in Proc, Migrate(p)
  PROVE  /\ task[p].pc \in Migrating /\ UNCHANGED Daemonic
         /\ \E u : /\ task' = [task EXCEPT ![p] = u] /\ DOMAIN u = DOMAIN Idle
                   /\ u.pc \in Migrating \cup {"idle", "create", "config"}
                   /\ u.pc = "detect" => u.backup = Nothing
<1>1. task[p].pc \in Migrating /\ UNCHANGED Daemonic
  BY DEF Migrate, Detect, CopyBackup, CopySelected, TransformStaged, StagingFails, MoveAside,
         MoveIntoPlace, ApplyFails, Undo, Cleanup, At, Migrating
<1>2. PICK t : t = task[p]
  OBVIOUS
<1>3. DOMAIN t = DOMAIN Idle /\ t.pc \in Migrating
  BY <1>1, <1>2 DEF Shape
<1> DEFINE Good(u) == /\ DOMAIN u = DOMAIN Idle /\ u.pc \in Migrating \cup {"idle", "create", "config"}
                      /\ u.pc = "detect" => u.backup = Nothing
<1>4. Good(Idle)
  BY IdleShape
<1>5. Good(Migrated(t))
  BY IdleShape DEF Migrated, Migrating
<1>6. CASE Detect(p)
  <2>1. PICK u : u \in {Idle, Migrated(t), [t EXCEPT !.pc = "backup", !.plan = Plan(live),
                        !.found = IF Alone(p) THEN live ELSE Nothing, !.at = Following(Present, 0)]}
                 /\ task' = [task EXCEPT ![p] = u]
    BY <1>2, <1>6 DEF Detect, Exit, Become
  <2>2. Good(u)
    BY <1>3, <1>4, <1>5, <2>1, IdleShape DEF Migrating
  <2> QED
    BY <1>1, <2>1, <2>2
<1>7. CASE CopyBackup(p)
  <2>1. PICK u : u \in {[t EXCEPT !.backup[Paths[t.at]] = live[Paths[t.at]], !.at = Following(Present, @)],
                        [t EXCEPT !.backup = Nothing, !.at = Following(t.plan, 0), !.pc = "copy"]}
                 /\ task' = [task EXCEPT ![p] = u] /\ t.pc = "backup"
    BY <1>2, <1>7 DEF CopyBackup, At, Become
  <2>2. Good(u)
    BY <1>3, <2>1, IdleShape DEF Migrating
  <2> QED
    BY <1>1, <2>1, <2>2
<1>8. CASE CopySelected(p)
  <2>1. PICK u : u \in {[t EXCEPT !.pc = "transform"],
                        [t EXCEPT !.staged[Paths[t.at]] = live[Paths[t.at]], !.at = Following(t.plan, @)]}
                 /\ task' = [task EXCEPT ![p] = u] /\ t.pc = "copy"
    BY <1>2, <1>8 DEF CopySelected, At, Become
  <2>2. Good(u)
    BY <1>3, <2>1, IdleShape DEF Migrating
  <2> QED
    BY <1>1, <2>1, <2>2
<1>9. CASE TransformStaged(p)
  <2>1. PICK h : h = Transform(t.staged, t.plan)
    OBVIOUS
  <2>2. PICK u : u \in {Idle, [t EXCEPT !.staged = h, !.at = Following(t.plan, 0), !.pc = "aside"]}
                 /\ task' = [task EXCEPT ![p] = u]
    BY <1>2, <1>9, <2>1 DEF TransformStaged, Exit, Become
  <2>3. Good(u)
    BY <1>3, <1>4, <2>2, IdleShape DEF Migrating
  <2> QED
    BY <1>1, <2>2, <2>3
<1>10. CASE StagingFails(p)
  BY <1>1, <1>4, <1>10 DEF StagingFails, Exit, Become
<1>11. CASE MoveAside(p)
  <2>1. PICK u : u = [t EXCEPT !.rollback[Paths[t.at]] = live[Paths[t.at]], !.pc = "place"]
                 /\ task' = [task EXCEPT ![p] = u]
    BY <1>2, <1>11 DEF MoveAside, Become
  <2>2. Good(u)
    BY <1>3, <2>1, IdleShape DEF Migrating
  <2> QED
    BY <1>1, <2>1, <2>2
<1>12. CASE MoveIntoPlace(p)
  <2>1. PICK u : u = [t EXCEPT !.applied = @ \cup {Paths[t.at]}, !.at = Following(t.plan, @), !.pc = "aside"]
                 /\ task' = [task EXCEPT ![p] = u]
    BY <1>2, <1>12 DEF MoveIntoPlace, Become
  <2>2. Good(u)
    BY <1>3, <2>1, IdleShape DEF Migrating
  <2> QED
    BY <1>1, <2>1, <2>2
<1>13. CASE ApplyFails(p)
  <2>1. PICK u : u = [t EXCEPT !.pc = "undo"] /\ task' = [task EXCEPT ![p] = u]
    BY <1>2, <1>13 DEF ApplyFails, Become
  <2>2. Good(u)
    BY <1>3, <2>1, IdleShape DEF Migrating
  <2> QED
    BY <1>1, <2>1, <2>2
<1>14. CASE Undo(p)
  <2>1. PICK u : u \in {Idle, [t EXCEPT !.applied = @ \ {Paths[LastApplied(t)]}]}
                 /\ task' = [task EXCEPT ![p] = u] /\ t.pc = "undo"
    BY <1>2, <1>14 DEF Undo, At, Exit, Become
  <2>2. Good(u)
    BY <1>3, <1>4, <2>1, IdleShape DEF Migrating
  <2> QED
    BY <1>1, <2>1, <2>2
<1>15. CASE Cleanup(p)
  <2>1. PICK u : u \in {Idle, Migrated(t)} /\ task' = [task EXCEPT ![p] = u]
    BY <1>2, <1>15 DEF Cleanup, Exit, Become
  <2> QED
    BY <1>1, <1>4, <1>5, <2>1
<1> QED
  BY <1>6, <1>7, <1>8, <1>9, <1>10, <1>11, <1>12, <1>13, <1>14, <1>15 DEF Migrate

\* A migration leaves daemons and commands as they are.
LEMMA MigrateDaemonInv ==
  ASSUME Shape, DaemonInv, NEW p \in Proc, Migrate(p)
  PROVE  Shape' /\ DaemonInv'
<1>1. PICK u : /\ task' = [task EXCEPT ![p] = u] /\ DOMAIN u = DOMAIN Idle
               /\ u.pc \in Migrating \cup {"idle", "create", "config"}
               /\ u.pc = "detect" => u.backup = Nothing
  BY MigrateMove
<1>2. task[p].pc \in Migrating /\ UNCHANGED Daemonic
  BY MigrateMove
<1>3. task[p].pc \notin Held /\ u.pc \notin Held \cup Ported
  BY <1>1, <1>2 DEF Migrating, Held, Ported
<1> QED
  BY <1>1, <1>2, <1>3, OutsideMove

\* A process begins with a migration, before it has anything of a daemon.
LEMMA BeginDaemonInv ==
  ASSUME Shape, DaemonInv, NEW p \in Proc, NEW kind, Begin(p, kind)
  PROVE  Shape' /\ DaemonInv'
<1>1. PICK u : u = [Idle EXCEPT !.pc = "detect", !.kind = kind]
  OBVIOUS
<1>2. DOMAIN u = DOMAIN Idle /\ u.pc = "detect"
  BY <1>1, IdleShape
<1>3. task' = [q \in Proc |-> IF q = p THEN u ELSE [task[q] EXCEPT !.found = Nothing]]
  BY <1>1 DEF Begin
<1>4. ASSUME NEW q \in Proc \ {p}
      PROVE  /\ DOMAIN task'[q] = DOMAIN Idle /\ task'[q].pc = task[q].pc
             /\ task'[q].port = task[q].port
  BY <1>3, IdleShape DEF Shape
<1>5. task'[p] = u /\ DOMAIN task' = Proc /\ task[p].pc = "idle"
  BY <1>3 DEF Begin, At
<1>6. Shape'
  BY <1>2, <1>4, <1>5 DEF Shape
<1>7. lock # p
  BY <1>5 DEF DaemonInv, Held
<1>8. UNCHANGED Daemonic
  BY DEF Begin
<1>9. DaemonInv'
  BY <1>2, <1>4, <1>5, <1>7, <1>8 DEF DaemonInv, Daemonic, Held, Ported
<1> QED
  BY <1>6, <1>9

\* A step of a command: it ends, goes on with the port it has, or takes that of
\* the endpoint file.
LEMMA CommandMove ==
  ASSUME NEW p \in Proc, Command(p)
  PROVE  \/ task' = task
         \/ task' = [task EXCEPT ![p] = Idle]
         \/ \E c \in {"discover", "refused"} : task' = [task EXCEPT ![p] = [task[p] EXCEPT !.pc = c]]
         \/ /\ endpoint # NoPort /\ task[p].pc = "discover"
            /\ task' = [task EXCEPT ![p] = [task[p] EXCEPT !.pc = "connect", !.port = endpoint]]
         \/ /\ task[p].pc = "connect" /\ task' = [task EXCEPT ![p] = [task[p] EXCEPT !.pc = "check"]]
         \/ /\ task[p].pc = "check" /\ task' = [task EXCEPT ![p] = [task[p] EXCEPT !.pc = "connected"]]
  BY DEF Command, ReadConfig, Discover, Connect, Check, Request, RequestFails, Finish, At, Become, Exit

\* A command looks for the daemon and sends its requests: lock, endpoint and
\* ports are not its business.
LEMMA CommandInv ==
  ASSUME Shape, DaemonInv, NEW p \in Proc, Command(p)
  PROVE  Shape' /\ DaemonInv'
<1>1. PICK t : t = task[p]
  OBVIOUS
<1>2. DOMAIN t = DOMAIN Idle /\ UNCHANGED Daemonic
  BY <1>1 DEF Shape, Command, ReadConfig, Discover, Connect, Check, Request, Finish
<1>3. task[p].pc \notin Held
  BY DEF Command, ReadConfig, Discover, Connect, Check, Request, Finish, At, Held
<1>4. CASE task' = task
  BY <1>2, <1>4 DEF Shape, DaemonInv, Daemonic
<1>5. CASE task' # task
  <2>1. \E u : /\ task' = [task EXCEPT ![p] = u] /\ DOMAIN u = DOMAIN Idle /\ u.pc \notin Held
               /\ u.pc \in Ported => u.port \in Port
    <3>1. CASE task' = [task EXCEPT ![p] = Idle]
      BY <3>1, IdleShape DEF Held, Ported
    <3>2. ASSUME NEW c \in {"discover", "refused"}, task' = [task EXCEPT ![p] = [t EXCEPT !.pc = c]]
          PROVE  \E u : /\ task' = [task EXCEPT ![p] = u] /\ DOMAIN u = DOMAIN Idle /\ u.pc \notin Held
                        /\ u.pc \in Ported => u.port \in Port
      <4>1. PICK u : u = [t EXCEPT !.pc = c]
        OBVIOUS
      <4>2. DOMAIN u = DOMAIN Idle /\ u.pc = c
        BY <1>2, <4>1, IdleShape
      <4> QED
        BY <3>2, <4>1, <4>2 DEF Held, Ported
    <3>3. CASE /\ endpoint # NoPort
               /\ task' = [task EXCEPT ![p] = [t EXCEPT !.pc = "connect", !.port = endpoint]]
      <4>1. PICK u : u = [t EXCEPT !.pc = "connect", !.port = endpoint]
        OBVIOUS
      <4>2. DOMAIN u = DOMAIN Idle /\ u.pc = "connect" /\ u.port = endpoint
        BY <1>2, <4>1, IdleShape
      <4>3. endpoint \in Port
        BY <3>3 DEF DaemonInv
      <4> QED
        BY <3>3, <4>1, <4>2, <4>3 DEF Held
    <3>4. ASSUME NEW c \in {"check", "connected"}, t.pc \in {"connect", "check"},
                 task' = [task EXCEPT ![p] = [t EXCEPT !.pc = c]]
          PROVE  \E u : /\ task' = [task EXCEPT ![p] = u] /\ DOMAIN u = DOMAIN Idle /\ u.pc \notin Held
                        /\ u.pc \in Ported => u.port \in Port
      <4>1. PICK u : u = [t EXCEPT !.pc = c]
        OBVIOUS
      <4>2. DOMAIN u = DOMAIN Idle /\ u.pc = c /\ u.port = t.port
        BY <1>2, <4>1, IdleShape
      <4>3. t.port \in Port
        BY <1>1, <3>4 DEF DaemonInv, Ported
      <4> QED
        BY <3>4, <4>1, <4>2, <4>3 DEF Held
    <3> QED
      BY <1>1, <1>5, <3>1, <3>2, <3>3, <3>4, CommandMove
  <2> QED
    BY <1>2, <1>3, <2>1, OutsideMove
<1> QED
  BY <1>4, <1>5

\* A process is gone, with its lock and its ports.
LEMMA ReleasedInv ==
  ASSUME Shape, DaemonInv, NEW p \in Proc, Released(p), Exit(p), UNCHANGED endpoint
  PROVE  Shape' /\ DaemonInv'
<1>1. task' = [task EXCEPT ![p] = Idle]
  BY DEF Exit, Become
<1>2. task'[p] = Idle /\ \A q \in Proc \ {p} : task'[q] = task[q]
  BY <1>1 DEF Shape
<1>3. Shape'
  BY <1>1, <1>2 DEF Shape
<1>4. lock' = IF lock = p THEN NoProc ELSE lock
  BY DEF Released
<1>5. bound' \in [Port -> Proc \cup {NoProc, Foreign}]
  BY DEF Released, DaemonInv
<1>6. lock' # p /\ \A q \in Proc \ {p} : lock' = q <=> lock = q
  BY <1>4, HomeAssumption
<1>7. Idle.pc \notin Held \cup Ported \cup {"serve"}
  BY IdleShape DEF Held, Ported
<1>8. lock' \in Proc \cup {NoProc}
  BY <1>4 DEF DaemonInv
<1>9. DaemonInv'
  BY <1>2, <1>5, <1>6, <1>7, <1>8 DEF DaemonInv
<1> QED
  BY <1>3, <1>9

\* The process that has the lock, or takes it, goes on with it; what it has
\* published is its own port while it serves.
LEMMA HolderMove ==
  ASSUME Shape, DaemonInv, NEW p \in Proc, lock \in {p, NoProc}, lock' = p,
         NEW u, task' = [task EXCEPT ![p] = u], DOMAIN u = DOMAIN Idle, u.pc \in Held,
         u.pc \in Ported => u.port \in Port, u.pc = "serve" => endpoint' = u.port,
         endpoint' \in Port \cup {NoPort}, bound' \in [Port -> Proc \cup {NoProc, Foreign}]
  PROVE  Shape' /\ DaemonInv'
<1>1. task'[p] = u /\ \A q \in Proc \ {p} : task'[q] = task[q]
  BY DEF Shape
<1>2. Shape'
  BY <1>1 DEF Shape
<1>3. \A q \in Proc \ {p} : task[q].pc \notin Held
  BY HomeAssumption DEF DaemonInv
<1>4. DaemonInv'
  BY <1>1, <1>3 DEF DaemonInv, Held
<1> QED
  BY <1>2, <1>4

\* A daemon takes the lock, binds, publishes, serves, withdraws its entry and
\* gives the lock up: no other process publishes or withdraws an endpoint
\* meanwhile.
LEMMA DaemonStepInv ==
  ASSUME Shape, DaemonInv, NEW p \in Proc, Daemon(p)
  PROVE  Shape' /\ DaemonInv'
<1>1. PICK t : t = task[p]
  OBVIOUS
<1>2. DOMAIN t = DOMAIN Idle
  BY <1>1 DEF Shape
<1>3. CASE Create(p)
  <2>1. PICK u : u = [t EXCEPT !.pc = "lock"] /\ task' = [task EXCEPT ![p] = u]
    BY <1>1, <1>3 DEF Create, Become
  <2>2. DOMAIN u = DOMAIN Idle /\ u.pc = "lock"
    BY <1>2, <2>1, IdleShape
  <2>3. task[p].pc = "create" /\ UNCHANGED Daemonic
    BY <1>3 DEF Create, At
  <2> QED
    BY <2>1, <2>2, <2>3, OutsideMove DEF Held, Ported
<1>4. CASE Lock(p)
  <2>1. task[p].pc = "lock" /\ UNCHANGED <<endpoint, bound>>
    BY <1>4 DEF Lock, At
  <2>2. CASE lock = NoProc
    <3>1. PICK u : u = [t EXCEPT !.pc = "bind"] /\ task' = [task EXCEPT ![p] = u]
      BY <1>1, <1>4, <2>2 DEF Lock, Become
    <3>2. DOMAIN u = DOMAIN Idle /\ u.pc = "bind" /\ lock' = p
      BY <1>2, <1>4, <2>2, <3>1, IdleShape DEF Lock
    <3> QED
      BY <2>1, <2>2, <3>1, <3>2, HolderMove DEF Held, Ported, DaemonInv
  <2>3. CASE lock # NoProc
    <3>1. task' = [task EXCEPT ![p] = Idle] /\ UNCHANGED Daemonic
      BY <1>4, <2>3 DEF Lock, Exit, Become, Daemonic
    <3> QED
      BY <2>1, <3>1, IdleShape, OutsideMove DEF Held, Ported
  <2> QED
    BY <2>2, <2>3
<1>5. CASE Bind(p)
  <2>1. task[p].pc = "bind" /\ lock = p /\ endpoint' = endpoint
    BY <1>5 DEF Bind, At, DaemonInv, Held
  <2>2. CASE Released(p) /\ Exit(p)
    BY <2>1, <2>2, ReleasedInv
  <2>3. CASE ~ (Released(p) /\ Exit(p))
    <3>1. PICK port \in Port : /\ bound' = [bound EXCEPT ![port] = p]
                               /\ task' = [task EXCEPT ![p] = [t EXCEPT !.pc = "publish", !.port = port]]
                               /\ lock' = lock
      BY <1>1, <1>5, <2>3 DEF Bind, Become
    <3>2. PICK u : u = [t EXCEPT !.pc = "publish", !.port = port]
      OBVIOUS
    <3>3. DOMAIN u = DOMAIN Idle /\ u.pc = "publish" /\ u.port = port
      BY <1>2, <3>2, IdleShape
    <3>4. bound' \in [Port -> Proc \cup {NoProc, Foreign}] /\ endpoint' \in Port \cup {NoPort}
      BY <2>1, <3>1 DEF DaemonInv
    <3> QED
      BY <2>1, <3>1, <3>2, <3>3, <3>4, HolderMove DEF Held
  <2> QED
    BY <2>2, <2>3
<1>6. CASE Publish(p)
  <2>1. task[p].pc = "publish" /\ lock = p /\ t.port \in Port
    BY <1>1, <1>6 DEF Publish, At, DaemonInv, Held, Ported
  <2>2. CASE Released(p) /\ Exit(p) /\ UNCHANGED endpoint
    BY <2>2, ReleasedInv
  <2>3. CASE ~ (Released(p) /\ Exit(p) /\ UNCHANGED endpoint)
    <3>1. PICK u : u = [t EXCEPT !.pc = "serve"] /\ task' = [task EXCEPT ![p] = u]
                   /\ endpoint' = t.port /\ UNCHANGED <<lock, bound>>
      BY <1>1, <1>6, <2>3 DEF Publish, Become
    <3>2. DOMAIN u = DOMAIN Idle /\ u.pc = "serve" /\ u.port = t.port
      BY <1>2, <3>1, IdleShape
    <3> QED
      BY <2>1, <3>1, <3>2, HolderMove DEF Held, DaemonInv
  <2> QED
    BY <2>2, <2>3
<1>7. CASE StopServing(p)
  <2>1. task[p].pc = "serve" /\ lock = p /\ t.port \in Port
    BY <1>1, <1>7 DEF StopServing, At, DaemonInv, Held, Ported
  <2>2. PICK u : u = [t EXCEPT !.pc = "unpublish"] /\ task' = [task EXCEPT ![p] = u]
                 /\ bound' = [bound EXCEPT ![t.port] = NoProc] /\ UNCHANGED <<lock, endpoint>>
    BY <1>1, <1>7 DEF StopServing, Become
  <2>3. DOMAIN u = DOMAIN Idle /\ u.pc = "unpublish" /\ u.port = t.port
    BY <1>2, <2>2, IdleShape
  <2>4. bound' \in [Port -> Proc \cup {NoProc, Foreign}]
    BY <2>1, <2>2 DEF DaemonInv
  <2> QED
    BY <2>1, <2>2, <2>3, <2>4, HolderMove DEF Held, DaemonInv
<1>8. CASE Unpublish(p)
  <2>1. task[p].pc = "unpublish" /\ lock = p /\ t.port \in Port
    BY <1>1, <1>8 DEF Unpublish, At, DaemonInv, Held, Ported
  <2>2. PICK u : u = [t EXCEPT !.pc = "unlock"] /\ task' = [task EXCEPT ![p] = u]
                 /\ UNCHANGED <<lock, bound>>
    BY <1>1, <1>8 DEF Unpublish, Become
  <2>3. DOMAIN u = DOMAIN Idle /\ u.pc = "unlock"
    BY <1>2, <2>2, IdleShape
  <2>4. endpoint' \in Port \cup {NoPort}
    BY <1>8 DEF Unpublish, DaemonInv
  <2> QED
    BY <2>1, <2>2, <2>3, <2>4, HolderMove DEF Held, Ported, DaemonInv
<1>9. CASE Unlock(p)
  BY <1>9, ReleasedInv DEF Unlock
<1> QED
  BY <1>3, <1>4, <1>5, <1>6, <1>7, <1>8, <1>9 DEF Daemon

\* A process is killed, which releases its lock and ports but leaves its entry;
\* a daemon of another home takes a port that is free.
LEMMA OthersInv ==
  ASSUME Shape, DaemonInv
  PROVE  /\ \A p \in Proc : Kill(p) => Shape' /\ DaemonInv'
         /\ \A port \in Port : ForeignDaemon(port) => Shape' /\ DaemonInv'
<1>1. \A p \in Proc : Kill(p) => Shape' /\ DaemonInv'
  BY ReleasedInv DEF Kill
<1>2. ASSUME NEW port \in Port, ForeignDaemon(port) PROVE Shape' /\ DaemonInv'
  <2>1. bound' \in [Port -> Proc \cup {NoProc, Foreign}]
    BY <1>2 DEF ForeignDaemon, DaemonInv
  <2>2. UNCHANGED <<task, lock, endpoint>>
    BY <1>2 DEF ForeignDaemon
  <2> QED
    BY <2>1, <2>2 DEF Shape, DaemonInv
<1> QED
  BY <1>1, <1>2

-----------------------------------------------------------------------------
\* Commands and the daemons they speak to.

\* A step of a process that is neither a daemon in service nor a command with a
\* port, and does not become one.
LEMMA QuietMove ==
  ASSUME CallInv, NEW p \in Proc, UNCHANGED <<bound, link, steady>>,
         task[p].pc \notin Reachable \cup Calling, task'[p].pc \notin Reachable \cup Calling,
         \A q \in Proc \ {p} : task'[q].pc = task[q].pc /\ task'[q].port = task[q].port
  PROVE  CallInv'
<1>1. Bindings'
  BY DEF CallInv, Bindings, Reachable
<1>2. link[p] = NoProc /\ \A q \in Proc : link[q] # p
  BY DEF CallInv, LinkInv
<1>3. LinkInv'
  BY <1>2, HomeAssumption DEF CallInv, LinkInv
<1>4. steady[p] = {} /\ \A q \in Proc : p \notin steady[q]
  BY DEF CallInv, SteadyInv, Reachable, Calling
<1>5. SteadyInv'
  BY <1>4 DEF CallInv, SteadyInv
<1> QED
  BY <1>1, <1>3, <1>5 DEF CallInv

\* A process is gone: its ports are free, its connections broken.
LEMMA ReleasedCalls ==
  ASSUME Shape, CallInv, NEW p \in Proc, Released(p), Exit(p)
  PROVE  CallInv'
<1>1. task'[p] = Idle /\ \A q \in Proc \ {p} : task'[q] = task[q]
  BY DEF Exit, Become, Shape
<1>2. Idle.pc \notin Reachable \cup Calling
  BY IdleShape DEF Reachable, Calling
<1>3. bound' = [port \in Port |-> IF bound[port] = p THEN NoProc ELSE bound[port]]
  BY DEF Released
<1>4. /\ link' = [q \in Proc |-> IF q = p \/ link[q] = p THEN NoProc ELSE link[q]]
      /\ steady' = [q \in Proc |-> IF q = p THEN {} ELSE steady[q] \ {p}]
  BY DEF Released
<1>5. Bindings'
  <2> SUFFICES ASSUME NEW port \in Port, NEW q \in Proc
               PROVE  bound'[port] = q <=> task'[q].pc \in {"publish", "serve"} /\ task'[q].port = port
    BY DEF Bindings
  <2>1. bound[port] = q <=> task[q].pc \in {"publish", "serve"} /\ task[q].port = port
    BY DEF CallInv, Bindings
  <2>2. CASE q = p
    BY <1>1, <1>2, <1>3, <2>2, HomeAssumption DEF Reachable
  <2>3. CASE q # p
    BY <1>1, <1>3, <2>1, <2>3, HomeAssumption
  <2> QED
    BY <2>2, <2>3
<1>6. LinkInv'
  <2>1. link' \in [Proc -> Proc \cup {NoProc, Foreign}]
    BY <1>4 DEF CallInv, LinkInv
  <2>2. ASSUME NEW q \in Proc, link'[q] # NoProc
        PROVE  q # p /\ link'[q] = link[q] /\ link[q] # p
    BY <1>4, <2>2
  <2>3. \A q \in Proc : link'[q] # NoProc => task'[q].pc \in Calling
    BY <1>1, <2>2 DEF CallInv, LinkInv
  <2>4. ASSUME NEW q \in Proc, NEW r \in Proc, link'[q] = r
        PROVE  task'[r].pc \in Reachable /\ task'[r].port = task'[q].port
    BY <1>1, <2>2, <2>4, HomeAssumption DEF CallInv, LinkInv
  <2> QED
    BY <2>1, <2>3, <2>4 DEF LinkInv
<1>7. SteadyInv'
  <2>1. steady' \in [Proc -> SUBSET Proc]
    BY <1>4 DEF CallInv, SteadyInv
  <2>2. ASSUME NEW q \in Proc, NEW r \in steady'[q]
        PROVE  /\ task'[r].pc = "serve" /\ task'[q].port = task'[r].port
               /\ task'[q].pc \in {"connect", "check", "connected"}
               /\ task'[q].pc # "connect" => link'[q] = r
    <3>1. q # p /\ r \in steady[q] /\ r # p /\ r \in Proc
      BY <1>4, <2>2 DEF CallInv, SteadyInv
    <3> QED
      BY <1>1, <1>4, <3>1 DEF CallInv, SteadyInv
  <2> QED
    BY <2>1, <2>2 DEF SteadyInv
<1> QED
  BY <1>5, <1>6, <1>7 DEF CallInv

\* A migration has no port and no connection.
LEMMA MigrateCalls ==
  ASSUME Shape, CallInv, NEW p \in Proc, Migrate(p)
  PROVE  CallInv'
<1>1. PICK u : /\ task' = [task EXCEPT ![p] = u] /\ DOMAIN u = DOMAIN Idle
               /\ u.pc \in Migrating \cup {"idle", "create", "config"}
               /\ u.pc = "detect" => u.backup = Nothing
  BY MigrateMove
<1>2. task[p].pc \in Migrating
  BY MigrateMove
<1>3. UNCHANGED <<bound, link, steady>>
  BY DEF Migrate, Detect, CopyBackup, CopySelected, TransformStaged, StagingFails, MoveAside,
         MoveIntoPlace, ApplyFails, Undo, Cleanup, Daemonic, Calls
<1>4. task'[p] = u /\ \A q \in Proc \ {p} : task'[q] = task[q]
  BY <1>1 DEF Shape
<1>5. task[p].pc \notin Reachable \cup Calling /\ u.pc \notin Reachable \cup Calling
  BY <1>1, <1>2 DEF Migrating, Reachable, Calling
<1> QED
  BY <1>3, <1>4, <1>5, QuietMove

\* Nor has a process that begins.
LEMMA BeginCalls ==
  ASSUME Shape, CallInv, NEW p \in Proc, NEW kind, Begin(p, kind)
  PROVE  CallInv'
<1>1. PICK u : u = [Idle EXCEPT !.pc = "detect", !.kind = kind]
  OBVIOUS
<1>2. u.pc = "detect"
  BY <1>1, IdleShape
<1>3. task' = [q \in Proc |-> IF q = p THEN u ELSE [task[q] EXCEPT !.found = Nothing]]
  BY <1>1 DEF Begin
<1>4. ASSUME NEW q \in Proc \ {p}
      PROVE  task'[q].pc = task[q].pc /\ task'[q].port = task[q].port
  BY <1>3, IdleShape DEF Shape
<1>5. task'[p].pc = "detect" /\ task[p].pc = "idle" /\ UNCHANGED <<bound, link, steady>>
  BY <1>2, <1>3 DEF Begin, At, Daemonic, Calls
<1> QED
  BY <1>4, <1>5, QuietMove DEF Reachable, Calling

\* A daemon binds a port that is free, and serves on it until it closes it;
\* whoever speaks to it finds it there.
LEMMA DaemonCalls ==
  ASSUME Shape, DaemonInv, CallInv, NEW p \in Proc, Daemon(p)
  PROVE  CallInv'
<1>1. PICK t : t = task[p]
  OBVIOUS
<1>2. DOMAIN t = DOMAIN Idle
  BY <1>1 DEF Shape
<1>3. ASSUME NEW u, task' = [task EXCEPT ![p] = u]
      PROVE  task'[p] = u /\ \A q \in Proc \ {p} : task'[q] = task[q]
  BY <1>3 DEF Shape
<1>4. CASE Create(p) \/ Lock(p)
  <2>1. task[p].pc \in {"create", "lock"} /\ UNCHANGED <<bound, link, steady>>
    BY <1>4 DEF Create, Lock, At, Daemonic, Calls
  <2>2. PICK u : task' = [task EXCEPT ![p] = u] /\ u.pc \in {"idle", "lock", "bind"}
    <3>1. \/ task' = [task EXCEPT ![p] = Idle]
          \/ \E c \in {"lock", "bind"} : task' = [task EXCEPT ![p] = [t EXCEPT !.pc = c]]
      BY <1>1, <1>4 DEF Create, Lock, Become, Exit
    <3>2. \A c : [t EXCEPT !.pc = c].pc = c
      BY <1>2, IdleShape
    <3> QED
      BY <3>1, <3>2, IdleShape
  <2> QED
    BY <1>3, <2>1, <2>2, QuietMove DEF Reachable, Calling
<1>5. CASE Released(p) /\ Exit(p)
  BY <1>5, ReleasedCalls
<1>6. CASE Bind(p) /\ ~ (Released(p) /\ Exit(p))
  <2>1. PICK port \in Port : /\ bound[port] = NoProc /\ bound' = [bound EXCEPT ![port] = p]
                             /\ task' = [task EXCEPT ![p] = [t EXCEPT !.pc = "publish", !.port = port]]
                             /\ UNCHANGED <<link, steady>> /\ task[p].pc = "bind"
    BY <1>1, <1>6 DEF Bind, Become, Calls, At
  <2>2. PICK u : u = [t EXCEPT !.pc = "publish", !.port = port]
    OBVIOUS
  <2>3. u.pc = "publish" /\ u.port = port
    BY <1>2, <2>2, IdleShape
  <2>4. task'[p] = u /\ \A q \in Proc \ {p} : task'[q] = task[q]
    BY <1>3, <2>1, <2>2
  <2>5. link[p] = NoProc /\ steady[p] = {} /\ \A q \in Proc : link[q] # p /\ p \notin steady[q]
    BY <2>1 DEF CallInv, LinkInv, SteadyInv, Reachable, Calling
  <2>6. Bindings'
    <3>1. \A x \in Port : bound'[x] = IF x = port THEN p ELSE bound[x]
      BY <2>1 DEF DaemonInv
    <3>2. \A x \in Port : bound[x] # p
      BY <2>1 DEF CallInv, Bindings
    <3> QED
      BY <2>1, <2>3, <2>4, <3>1, <3>2, HomeAssumption DEF CallInv, Bindings
  <2>7. LinkInv'
    BY <2>1, <2>4, <2>5, HomeAssumption DEF CallInv, LinkInv
  <2>8. SteadyInv'
    BY <2>1, <2>4, <2>5 DEF CallInv, SteadyInv
  <2> QED
    BY <2>6, <2>7, <2>8 DEF CallInv
<1>7. CASE Publish(p) /\ ~ (Released(p) /\ Exit(p))
  <2>1. PICK u : u = [t EXCEPT !.pc = "serve"] /\ task' = [task EXCEPT ![p] = u]
                 /\ UNCHANGED <<bound, link, steady>> /\ t.pc = "publish"
    BY <1>1, <1>7 DEF Publish, Become, Calls, At
  <2>2. u.pc = "serve" /\ u.port = t.port
    BY <1>2, <2>1, IdleShape
  <2>3. task'[p] = u /\ \A q \in Proc \ {p} : task'[q] = task[q]
    BY <1>3, <2>1
  <2>4. steady[p] = {} /\ link[p] = NoProc
    BY <1>1, <2>1 DEF CallInv, LinkInv, SteadyInv, Calling
  <2>5. Bindings'
    BY <1>1, <2>1, <2>2, <2>3 DEF CallInv, Bindings
  <2>6. LinkInv'
    BY <1>1, <2>1, <2>2, <2>3, <2>4, HomeAssumption DEF CallInv, LinkInv, Reachable
  <2>7. SteadyInv'
    BY <1>1, <2>1, <2>2, <2>3, <2>4 DEF CallInv, SteadyInv
  <2> QED
    BY <2>5, <2>6, <2>7 DEF CallInv
<1>8. CASE StopServing(p)
  <2>1. PICK u : /\ u = [t EXCEPT !.pc = "unpublish"] /\ task' = [task EXCEPT ![p] = u]
                 /\ bound' = [bound EXCEPT ![t.port] = NoProc] /\ link' = link /\ t.pc = "serve"
                 /\ steady' = [q \in Proc |-> steady[q] \ {p}]
    BY <1>1, <1>8 DEF StopServing, Become, At
  <2>2. u.pc = "unpublish" /\ u.port = t.port
    BY <1>2, <2>1, IdleShape
  <2>3. task'[p] = u /\ \A q \in Proc \ {p} : task'[q] = task[q]
    BY <1>3, <2>1
  <2>4. steady[p] = {} /\ link[p] = NoProc
    BY <1>1, <2>1 DEF CallInv, LinkInv, SteadyInv, Calling
  <2>5. Bindings'
    <3>1. t.port \in Port /\ bound[t.port] = p
      BY <1>1, <2>1 DEF DaemonInv, Ported, CallInv, Bindings
    <3>2. \A x \in Port : bound'[x] = IF x = t.port THEN NoProc ELSE bound[x]
      BY <2>1 DEF DaemonInv
    <3>3. \A x \in Port \ {t.port} : bound[x] # p
      BY <1>1 DEF CallInv, Bindings
    <3> QED
      BY <2>2, <2>3, <3>1, <3>2, <3>3, HomeAssumption DEF CallInv, Bindings
  <2>6. LinkInv'
    BY <1>1, <2>1, <2>2, <2>3, <2>4, HomeAssumption DEF CallInv, LinkInv, Reachable
  <2>7. SteadyInv'
    BY <1>1, <2>1, <2>2, <2>3, <2>4 DEF CallInv, SteadyInv
  <2> QED
    BY <2>5, <2>6, <2>7 DEF CallInv
<1>9. CASE Unpublish(p)
  <2>1. PICK u : u = [t EXCEPT !.pc = "unlock"] /\ task' = [task EXCEPT ![p] = u]
                 /\ UNCHANGED <<bound, link, steady>> /\ t.pc = "unpublish"
    BY <1>1, <1>9 DEF Unpublish, Become, Calls, At
  <2>2. u.pc = "unlock" /\ u.port = t.port
    BY <1>2, <2>1, IdleShape
  <2>3. task'[p] = u /\ \A q \in Proc \ {p} : task'[q] = task[q]
    BY <1>3, <2>1
  <2>4. steady[p] = {} /\ link[p] = NoProc /\ \A q \in Proc : p \notin steady[q]
    BY <1>1, <2>1 DEF CallInv, LinkInv, SteadyInv, Calling
  <2>5. Bindings'
    BY <1>1, <2>1, <2>2, <2>3 DEF CallInv, Bindings
  <2>6. LinkInv'
    BY <1>1, <2>1, <2>2, <2>3, <2>4, HomeAssumption DEF CallInv, LinkInv, Reachable
  <2>7. SteadyInv'
    BY <1>1, <2>1, <2>2, <2>3, <2>4 DEF CallInv, SteadyInv
  <2> QED
    BY <2>5, <2>6, <2>7 DEF CallInv
<1>10. CASE Unlock(p)
  BY <1>10, ReleasedCalls DEF Unlock
<1> QED
  BY <1>4, <1>5, <1>6, <1>7, <1>8, <1>9, <1>10 DEF Daemon

\* A step of a command gives it a place, a connection and the daemons it has
\* found.
CallStep(p, u, l, S) ==
  /\ task'[p] = u /\ \A q \in Proc \ {p} : task'[q] = task[q]
  /\ bound' = bound
  /\ link' = [link EXCEPT ![p] = l] /\ l \in Proc \cup {NoProc, Foreign}
  /\ steady' = [steady EXCEPT ![p] = S] /\ S \in SUBSET Proc
  /\ task[p].pc \notin Reachable /\ u.pc \notin Reachable
  /\ l # NoProc => u.pc \in Calling
  /\ l \in Proc => task[l].pc \in Reachable /\ task[l].port = u.port
  /\ \A q \in S : /\ task[q].pc = "serve" /\ u.port = task[q].port
                  /\ u.pc \in {"connect", "check", "connected"}
                  /\ u.pc # "connect" => l = q

\* Such a step keeps the connections and the daemons found in order.
LEMMA CallMove ==
  ASSUME CallInv, NEW p \in Proc, NEW u, NEW l, NEW S, CallStep(p, u, l, S)
  PROVE  CallInv'
<1> USE DEF CallStep
<1>1. task'[p] = u /\ \A q \in Proc \ {p} : task'[q] = task[q]
  OBVIOUS
<1>2. link'[p] = l /\ \A q \in Proc \ {p} : link'[q] = link[q]
  BY DEF CallInv, LinkInv
<1>3. steady'[p] = S /\ \A q \in Proc \ {p} : steady'[q] = steady[q]
  BY DEF CallInv, SteadyInv
<1>4. \A q \in Proc : link[q] # p /\ p \notin steady[q]
  BY DEF CallInv, LinkInv, SteadyInv, Reachable
<1>5. p # l /\ p \notin S
  BY DEF Reachable
<1>6. Bindings'
  BY <1>1 DEF CallInv, Bindings, Reachable
<1>7. LinkInv'
  <2>1. link' \in [Proc -> Proc \cup {NoProc, Foreign}]
    BY DEF CallInv, LinkInv
  <2>2. \A q \in Proc : link'[q] # NoProc => task'[q].pc \in Calling
    BY <1>1, <1>2 DEF CallInv, LinkInv
  <2>3. ASSUME NEW q \in Proc, NEW r \in Proc, link'[q] = r
        PROVE  task'[r].pc \in Reachable /\ task'[r].port = task'[q].port
    <3>1. r # p
      BY <1>2, <1>4, <1>5, <2>3
    <3> QED
      BY <1>1, <1>2, <2>3, <3>1 DEF CallInv, LinkInv
  <2> QED
    BY <2>1, <2>2, <2>3 DEF LinkInv
<1>8. SteadyInv'
  <2>1. steady' \in [Proc -> SUBSET Proc]
    BY DEF CallInv, SteadyInv
  <2>2. ASSUME NEW q \in Proc, NEW r \in steady'[q]
        PROVE  /\ task'[r].pc = "serve" /\ task'[q].port = task'[r].port
               /\ task'[q].pc \in {"connect", "check", "connected"}
               /\ task'[q].pc # "connect" => link'[q] = r
    <3>1. r \in Proc /\ r # p
      BY <1>3, <1>4, <1>5, <2>1, <2>2
    <3> QED
      BY <1>1, <1>2, <1>3, <2>2, <3>1 DEF CallInv, SteadyInv
  <2> QED
    BY <2>1, <2>2 DEF SteadyInv
<1> QED
  BY <1>6, <1>7, <1>8 DEF CallInv

\* Who answers a request is another home's daemon or one that went by the port
\* of the command; while a daemon has served since the command found it, it is
\* this one.
LEMMA AnsweringFacts ==
  ASSUME DaemonInv, CallInv, NEW p \in Proc, task[p].pc \in {"check", "connected"},
         NEW q \in Answering(p)
  PROVE  /\ q \in Proc \cup {Foreign}
         /\ q \in Proc => task[q].pc \in Reachable /\ task[q].port = task[p].port
         /\ \A r \in steady[p] : q = r
<1>1. q = IF link[p] = NoProc THEN bound[task[p].port] ELSE link[p]
  BY DEF Answering
<1>2. q # NoProc /\ (q # Foreign => task[q].pc \in {"serve", "unpublish", "unlock"})
  BY <1>1 DEF Answering
<1>3. task[p].port \in Port
  BY DEF DaemonInv, Ported
<1>4. q \in Proc \cup {Foreign}
  BY <1>1, <1>2, <1>3 DEF DaemonInv, CallInv, LinkInv
<1>5. q \in Proc => task[q].pc \in Reachable /\ task[q].port = task[p].port
  BY <1>1, <1>3 DEF CallInv, LinkInv, Bindings, Reachable
<1>6. \A r \in steady[p] : r \in Proc /\ link[p] = r
  BY DEF CallInv, SteadyInv
<1> QED
  BY <1>1, <1>4, <1>5, <1>6, HomeAssumption

\* A request does not fail while a daemon has served since the command found it.
LEMMA RequestFailsCalls ==
  ASSUME Shape, DaemonInv, CallInv, NEW p \in Proc, task[p].pc \in {"check", "connected"},
         RequestFails(p), bound' = bound
  PROVE  CallInv'
<1>1. PICK t : t = task[p]
  OBVIOUS
<1>2. PICK u : u = [t EXCEPT !.pc = "refused"] /\ task' = [task EXCEPT ![p] = u]
  BY <1>1 DEF RequestFails, Become
<1>3. DOMAIN t = DOMAIN Idle
  BY <1>1 DEF Shape
<1>4. u.pc = "refused" /\ u.port = t.port
  BY <1>2, <1>3, IdleShape
<1>5. steady[p] = {}
  <2>1. ASSUME NEW r \in steady[p] PROVE FALSE
    <3>1. r \in Proc /\ link[p] = r /\ task[r].pc = "serve"
      BY <2>1 DEF CallInv, SteadyInv
    <3> QED
      BY <3>1, HomeAssumption DEF RequestFails, Breaking
  <2> QED
    BY <2>1
<1>6. /\ link[p] \in Proc \cup {NoProc, Foreign} /\ link' = [link EXCEPT ![p] = link[p]]
      /\ {} \in SUBSET Proc /\ steady' = [steady EXCEPT ![p] = {}]
  BY <1>5 DEF RequestFails, CallInv, LinkInv, SteadyInv
<1>7. link[p] \in Proc => task[link[p]].pc \in Reachable /\ task[link[p]].port = u.port
  BY <1>1, <1>4 DEF CallInv, LinkInv
<1>8. task[p].pc \notin Reachable /\ u.pc \notin Reachable /\ u.pc \in Calling
  BY <1>4 DEF Reachable, Calling
<1>9. task'[p] = u /\ \A q \in Proc \ {p} : task'[q] = task[q]
  BY <1>2 DEF Shape
<1>10. CallStep(p, u, link[p], {})
  BY <1>6, <1>7, <1>8, <1>9 DEF CallStep
<1> QED
  BY <1>10, CallMove

\* A command finds whoever serves, is connected to it, and speaks to it until
\* one of the two ends.
LEMMA CommandCalls ==
  ASSUME Shape, DaemonInv, CallInv, NEW p \in Proc, Command(p)
  PROVE  CallInv'
<1>1. PICK t : t = task[p]
  OBVIOUS
<1>2. DOMAIN t = DOMAIN Idle
  BY <1>1 DEF Shape
<1>3. bound' = bound
  BY DEF Command, ReadConfig, Discover, Connect, Check, Request, Finish, Daemonic
<1>4. link \in [Proc -> Proc \cup {NoProc, Foreign}] /\ steady \in [Proc -> SUBSET Proc]
  BY DEF CallInv, LinkInv, SteadyInv
<1>5. CASE ReadConfig(p)
  <2>1. PICK u \in {Idle, [t EXCEPT !.pc = "discover"]} : task' = [task EXCEPT ![p] = u]
    BY <1>1, <1>5 DEF ReadConfig, Become, Exit
  <2>2. u.pc \in {"idle", "discover"}
    BY <1>2, <2>1, IdleShape
  <2>3. task'[p] = u /\ \A q \in Proc \ {p} : task'[q] = task[q]
    BY <2>1 DEF Shape
  <2>4. task[p].pc = "config" /\ UNCHANGED <<bound, link, steady>>
    BY <1>5 DEF ReadConfig, At, Daemonic, Calls
  <2> QED
    BY <2>2, <2>3, <2>4, QuietMove DEF Reachable, Calling
<1>6. CASE Discover(p)
  <2>1. task[p].pc = "discover" /\ link[p] = NoProc
    BY <1>6 DEF Discover, At, CallInv, LinkInv, Calling
  <2>2. link' = [link EXCEPT ![p] = NoProc] /\ steady' = [steady EXCEPT ![p] = Serving]
    BY <1>4, <1>6, <2>1 DEF Discover
  <2>3. Serving \in SUBSET Proc
    BY DEF Serving
  <2>4. \A q \in Serving : task[q].pc = "serve" /\ endpoint = task[q].port /\ endpoint \in Port
    BY DEF Serving, At, DaemonInv, Ported
  <2>5. CASE endpoint = NoPort
    <3>1. PICK u : u = [t EXCEPT !.pc = "refused"] /\ task' = [task EXCEPT ![p] = u]
      BY <1>1, <1>6, <2>5 DEF Discover, Become
    <3>2. u.pc = "refused"
      BY <1>2, <3>1, IdleShape
    <3>3. Serving = {}
      BY <2>4, <2>5, HomeAssumption
    <3>4. task'[p] = u /\ \A q \in Proc \ {p} : task'[q] = task[q]
      BY <3>1 DEF Shape
    <3>5. CallStep(p, u, NoProc, Serving)
      BY <1>3, <2>1, <2>2, <2>3, <3>2, <3>3, <3>4, HomeAssumption DEF CallStep, Reachable
    <3> QED
      BY <3>5, CallMove
  <2>6. CASE endpoint # NoPort
    <3>1. PICK u : u = [t EXCEPT !.pc = "connect", !.port = endpoint] /\ task' = [task EXCEPT ![p] = u]
      BY <1>1, <1>6, <2>6 DEF Discover, Become
    <3>2. u.pc = "connect" /\ u.port = endpoint
      BY <1>2, <3>1, IdleShape
    <3>3. task'[p] = u /\ \A q \in Proc \ {p} : task'[q] = task[q]
      BY <3>1 DEF Shape
    <3>4. CallStep(p, u, NoProc, Serving)
      BY <1>3, <2>1, <2>2, <2>3, <2>4, <3>2, <3>3, HomeAssumption DEF CallStep, Reachable
    <3> QED
      BY <3>4, CallMove
  <2> QED
    BY <2>5, <2>6
<1>7. CASE Connect(p)
  <2>1. PICK q : q = bound[t.port]
    OBVIOUS
  <2>2. t.port \in Port /\ t.pc = "connect"
    BY <1>1, <1>7 DEF Connect, At, DaemonInv, Ported
  <2>3. q \in Proc \cup {NoProc, Foreign}
    BY <2>1, <2>2 DEF DaemonInv
  <2>4. PICK c : c = IF q = NoProc THEN "refused" ELSE "check"
    OBVIOUS
  <2>5. PICK u : u = [t EXCEPT !.pc = c] /\ task' = [task EXCEPT ![p] = u]
    BY <1>1, <1>7, <2>1, <2>4 DEF Connect, Become
  <2>6. u.pc = c /\ u.port = t.port
    BY <1>2, <2>5, IdleShape
  <2>7. link' = [link EXCEPT ![p] = q] /\ steady' = [steady EXCEPT ![p] = steady[p]] /\ steady[p] \in SUBSET Proc
    BY <1>1, <1>4, <1>7, <2>1 DEF Connect
  <2>8. q \in Proc => task[q].pc \in Reachable /\ task[q].port = u.port
    BY <2>1, <2>2, <2>6 DEF CallInv, Bindings, Reachable
  <2>9. \A r \in steady[p] : task[r].pc = "serve" /\ u.port = task[r].port /\ q = r /\ q # NoProc
    <3>1. \A r \in steady[p] : r \in Proc /\ task[r].pc = "serve" /\ t.port = task[r].port
      BY <1>1 DEF CallInv, SteadyInv
    <3> QED
      BY <2>1, <2>2, <2>6, <3>1, HomeAssumption DEF CallInv, Bindings
  <2>10. task[p].pc \notin Reachable /\ u.pc \notin Reachable /\ u.pc \in Calling
    BY <1>1, <2>2, <2>4, <2>6 DEF Reachable, Calling
  <2>11. task'[p] = u /\ \A x \in Proc \ {p} : task'[x] = task[x]
    BY <2>5 DEF Shape
  <2>12. CallStep(p, u, q, steady[p])
    BY <1>3, <2>3, <2>4, <2>6, <2>7, <2>8, <2>9, <2>10, <2>11 DEF CallStep
  <2> QED
    BY <2>12, CallMove
<1>8. CASE (Check(p) \/ Request(p)) /\ RequestFails(p)
  BY <1>3, <1>8, RequestFailsCalls DEF Check, Request, At
<1>9. CASE Check(p) /\ ~ RequestFails(p)
  <2>1. PICK q \in Answering(p) :
          /\ link' = [link EXCEPT ![p] = q]
          /\ steady' = [steady EXCEPT ![p] = @ \cup ({q} \cap Serving)]
          /\ task' = [task EXCEPT ![p] = [t EXCEPT !.pc = IF q = Foreign THEN "refused" ELSE "connected"]]
    BY <1>1, <1>9 DEF Check, Become
  <2>2. t.pc = "check"
    BY <1>1, <1>9 DEF Check, At
  <2>3. /\ q \in Proc \cup {Foreign}
        /\ q \in Proc => task[q].pc \in Reachable /\ task[q].port = t.port
        /\ \A r \in steady[p] : q = r
    BY <1>1, <2>1, <2>2, AnsweringFacts
  <2>4. PICK c : c = IF q = Foreign THEN "refused" ELSE "connected"
    OBVIOUS
  <2>5. PICK u : u = [t EXCEPT !.pc = c] /\ task' = [task EXCEPT ![p] = u]
    BY <2>1, <2>4
  <2>6. u.pc = c /\ u.port = t.port
    BY <1>2, <2>5, IdleShape
  <2>7. PICK S : S = steady[p] \cup ({q} \cap Serving)
    OBVIOUS
  <2>8. S \in SUBSET Proc /\ steady' = [steady EXCEPT ![p] = S]
    BY <1>4, <2>1, <2>7 DEF Serving
  <2>9. \A r \in S : /\ task[r].pc = "serve" /\ u.port = task[r].port
                     /\ u.pc = "connected" /\ q = r
    <3>1. \A r \in S : r \in Proc /\ q = r
      BY <2>3, <2>7, <2>8
    <3>2. \A r \in steady[p] : task[r].pc = "serve"
      BY DEF CallInv, SteadyInv
    <3>3. \A r \in Serving : task[r].pc = "serve"
      BY DEF Serving, At
    <3> QED
      BY <2>3, <2>4, <2>6, <2>7, <3>1, <3>2, <3>3, HomeAssumption
  <2>10. task[p].pc \notin Reachable /\ u.pc \notin Reachable /\ u.pc \in Calling
    BY <1>1, <2>2, <2>4, <2>6 DEF Reachable, Calling
  <2>11. task'[p] = u /\ \A x \in Proc \ {p} : task'[x] = task[x]
    BY <2>5 DEF Shape
  <2>12. q \in Proc \cup {NoProc, Foreign} /\ link' = [link EXCEPT ![p] = q]
         /\ (q \in Proc => task[q].pc \in Reachable /\ task[q].port = u.port)
    BY <2>1, <2>3, <2>6
  <2>13. CallStep(p, u, q, S)
    BY <1>3, <2>8, <2>9, <2>10, <2>11, <2>12 DEF CallStep
  <2> QED
    BY <2>13, CallMove
<1>10. CASE Request(p) /\ ~ RequestFails(p)
  <2>1. PICK q \in Answering(p) : link' = [link EXCEPT ![p] = q] /\ UNCHANGED <<task, steady>>
    BY <1>10 DEF Request
  <2>2. t.pc = "connected"
    BY <1>1, <1>10 DEF Request, At
  <2>3. /\ q \in Proc \cup {Foreign}
        /\ q \in Proc => task[q].pc \in Reachable /\ task[q].port = t.port
        /\ \A r \in steady[p] : q = r
    BY <1>1, <2>1, <2>2, AnsweringFacts
  <2>4. task'[p] = t /\ \A x \in Proc \ {p} : task'[x] = task[x]
    BY <1>1, <2>1
  <2>5. steady[p] \in SUBSET Proc /\ steady' = [steady EXCEPT ![p] = steady[p]]
    BY <1>4, <2>1
  <2>6. \A r \in steady[p] : task[r].pc = "serve" /\ t.port = task[r].port
    BY <1>1 DEF CallInv, SteadyInv
  <2>7. task[p].pc \notin Reachable /\ t.pc \notin Reachable /\ t.pc \in Calling
    BY <1>1, <2>2 DEF Reachable, Calling
  <2>8. q \in Proc \cup {NoProc, Foreign} /\ link' = [link EXCEPT ![p] = q]
    BY <2>1, <2>3
  <2>9. CallStep(p, t, q, steady[p])
    BY <1>3, <2>2, <2>3, <2>4, <2>5, <2>6, <2>7, <2>8 DEF CallStep
  <2> QED
    BY <2>9, CallMove
<1>11. CASE Finish(p)
  <2>1. /\ task' = [task EXCEPT ![p] = Idle] /\ task[p].pc \in {"connected", "refused"}
        /\ link' = [link EXCEPT ![p] = NoProc] /\ steady' = [steady EXCEPT ![p] = {}]
    BY <1>11 DEF Finish, Exit, Become
  <2>2. Idle.pc \notin Reachable /\ task[p].pc \notin Reachable /\ {} \in SUBSET Proc
    BY <2>1, IdleShape DEF Reachable
  <2>3. task'[p] = Idle /\ \A q \in Proc \ {p} : task'[q] = task[q]
    BY <2>1 DEF Shape
  <2>4. CallStep(p, Idle, NoProc, {})
    BY <1>3, <2>1, <2>2, <2>3, HomeAssumption DEF CallStep
  <2> QED
    BY <2>4, CallMove
<1> QED
  BY <1>5, <1>6, <1>7, <1>8, <1>9, <1>10, <1>11 DEF Command

\* The daemon of another home takes a port nobody has, or is gone with its
\* connections.
LEMMA ForeignCalls ==
  ASSUME DaemonInv, CallInv, NEW port \in Port, ForeignDaemon(port)
  PROVE  CallInv'
<1>1. bound[port] \in {NoProc, Foreign} /\ UNCHANGED <<task, steady>>
  BY DEF ForeignDaemon
<1>2. \A x \in Port : bound'[x] = bound[x] \/ (x = port /\ bound'[x] \in {NoProc, Foreign})
  BY <1>1 DEF ForeignDaemon, DaemonInv
<1>3. Bindings'
  BY <1>1, <1>2, HomeAssumption DEF CallInv, Bindings
<1>4. \A q \in Proc : link'[q] = link[q] \/ (link[q] = Foreign /\ link'[q] = NoProc)
  BY DEF ForeignDaemon
<1>5. link' \in [Proc -> Proc \cup {NoProc, Foreign}]
  BY DEF ForeignDaemon, CallInv, LinkInv
<1>6. LinkInv'
  BY <1>1, <1>4, <1>5, HomeAssumption DEF CallInv, LinkInv
<1>7. SteadyInv'
  BY <1>1, <1>4, HomeAssumption DEF CallInv, SteadyInv
<1> QED
  BY <1>3, <1>6, <1>7 DEF CallInv

-----------------------------------------------------------------------------
\* The home as it was found.

\* A step of one process that leaves the home alone keeps the home recoverable,
\* if a process that has no complete backup does not turn to changing the home.
LEMMA HomeKept ==
  ASSUME Shape, RecoveryInv, NEW p \in Proc, NEW u, task' = [task EXCEPT ![p] = u],
         u.pc = "detect" => u.backup = Nothing,
         ~ saved => /\ u.pc \notin Changing
                    /\ u.pc = "create" => Plan(live) = {}
                    /\ u.pc = "backup" => live = original /\ Exists(live, "config") /\ BackedUp(u),
         UNCHANGED <<live, saved, original>>
  PROVE  RecoveryInv'
<1>1. task'[p] = u /\ \A q \in Proc \ {p} : task'[q] = task[q]
  BY DEF Shape
<1>2. Untouched' = Untouched
  BY DEF Untouched, Plan, Obsolete, HasPeers, Version, Content, Exists
<1> QED
  BY <1>1, <1>2 DEF RecoveryInv, BackedUp

\* Once a backup of the home as it was found is complete, a step may change any
\* path of the home.
LEMMA SavedMove ==
  ASSUME Shape, RecoveryInv, saved, NEW p \in Proc, NEW u, task' = [task EXCEPT ![p] = u],
         u.pc = "detect" => u.backup = Nothing,
         live' = live \/ \E q, c : live' = [live EXCEPT ![q] = c], UNCHANGED <<saved, original>>
  PROVE  RecoveryInv'
<1>1. task'[p] = u /\ \A q \in Proc \ {p} : task'[q] = task[q]
  BY DEF Shape
<1>2. live' = [q \in Path |-> live'[q]]
  BY DEF RecoveryInv
<1> QED
  BY <1>1, <1>2 DEF RecoveryInv

\* A home needs no migration if it has neither a config of an older version nor
\* any of the files of an older layout.
LEMMA PlanEmpty ==
  ASSUME NEW h
  PROVE  Plan(h) = {} <=>
           /\ ~ (Exists(h, "config") /\ Obsolete(h)) /\ ~ HasPeers(h)
           /\ ~ Exists(h, "access") /\ ~ Exists(h, "remote") /\ ~ Exists(h, "managed")
           /\ ~ Exists(h, "book") /\ ~ Exists(h, "state")
<1>1. HasPeers(h) => OfKind(Content(h, "config"), "peer") # {}
  BY DEF HasPeers
<1>2. {"access", "remote", "managed", "book", "state", "config", "trusted"} \subseteq Path
  BY PathsFacts DEF Paths, Path
<1> QED
  BY <1>2 DEF Plan

\* A home that needs no migration needs none after it was initialised either.
LEMMA CreatedNeedsNone ==
  ASSUME Plan(live) = {}, ~ Exists(live, "config"), NEW h,
         h = [q \in Path |-> IF Exists(live, q) THEN live[q]
                             ELSE IF q = "config" THEN {<<"version", "3">>}
                             ELSE IF q \in {"devices", "prefs", "trusted"} THEN {} ELSE Absent]
  PROVE  Plan(h) = {}
<1>1. {"access", "remote", "managed", "book", "state", "config", "trusted"} \subseteq Path
  BY PathsFacts DEF Paths, Path
<1>2. /\ ~ Exists(live, "access") /\ ~ Exists(live, "remote") /\ ~ Exists(live, "managed")
      /\ ~ Exists(live, "book") /\ ~ Exists(live, "state")
  BY PlanEmpty
<1>3. /\ ~ Exists(h, "access") /\ ~ Exists(h, "remote") /\ ~ Exists(h, "managed")
      /\ ~ Exists(h, "book") /\ ~ Exists(h, "state")
  BY <1>1, <1>2 DEF Exists
<1>4. h["config"] = {<<"version", "3">>}
  BY <1>1
<1>5. Content(h, "config") \subseteq {<<"version", "3">>}
  BY <1>4 DEF Content
<1>6. \A f \in {<<"version", "3">>} : f[1] = "version" /\ f[2] = "3"
  OBVIOUS
<1>7. ~ HasPeers(h)
  BY <1>5, <1>6 DEF HasPeers, OfKind
<1>8. Exists(h, "config") => ~ Obsolete(h)
  <2> SUFFICES ASSUME Exists(h, "config") PROVE ~ Obsolete(h)
    OBVIOUS
  <2>1. OfKind(Content(h, "config"), "obsolete") = {}
    BY <1>5, <1>6 DEF OfKind
  <2>2. Subjects(h["config"], "version") = {"3"}
    BY <1>4, <1>6 DEF Subjects, OfKind
  <2>3. Version(h) = "3"
    BY <2>2 DEF Version
  <2> QED
    BY <2>1, <2>3 DEF Obsolete
<1> QED
  BY <1>3, <1>7, <1>8, PlanEmpty

\* Detection looks at the home, and starts a backup of it only while it is as
\* it was found, or initialised by a daemon because there was nothing to
\* migrate.
LEMMA DetectRecovery ==
  ASSUME Shape, RecoveryInv, NEW p \in Proc, Detect(p)
  PROVE  RecoveryInv'
<1>1. PICK t : t = task[p]
  OBVIOUS
<1>2. DOMAIN t = DOMAIN Idle /\ t.pc = "detect" /\ t.backup = Nothing /\ UNCHANGED <<live, saved, original>>
  BY <1>1 DEF Shape, RecoveryInv, Detect, At
<1>3. CASE task' = [task EXCEPT ![p] = Idle]
  BY <1>2, <1>3, HomeKept, IdleShape DEF Changing
<1>4. CASE Plan(live) = {} /\ task' = [task EXCEPT ![p] = Migrated(t)]
  <2>1. PICK u : u = Migrated(t)
    OBVIOUS
  <2>2. u.pc \in {"config", "detect", "create"} /\ u.backup = Nothing
    BY <2>1, IdleShape DEF Migrated
  <2> QED
    BY <1>2, <1>4, <2>1, <2>2, HomeKept DEF Changing
<1>5. CASE Plan(live) # {} /\ ~ Refused(live) /\ task' # [task EXCEPT ![p] = Idle]
  <2>1. PICK u : /\ u = [t EXCEPT !.pc = "backup", !.plan = Plan(live),
                                 !.found = IF Alone(p) THEN live ELSE Nothing, !.at = Following(Present, 0)]
                 /\ task' = [task EXCEPT ![p] = u]
    BY <1>1, <1>5 DEF Detect, Become
  <2>2. u.pc = "backup" /\ u.backup = Nothing /\ u.at = Following(Present, 0)
    BY <1>2, <2>1, IdleShape
  <2>3. Exists(live, "config")
    BY <1>5 DEF Refused, Version
  <2>4. BackedUp(u)
    <3>1. /\ u.at \in 1..13
          /\ \A k \in 1..u.at - 1 : Paths[k] \notin Present
      BY <2>2, FollowingFacts
    <3>2. ASSUME NEW i \in 1..12
          PROVE  u.backup[Paths[i]] = IF i < u.at THEN live[Paths[i]] ELSE Absent
      <4>1. u.backup[Paths[i]] = Absent
        BY <2>2, PathsFacts DEF Nothing
      <4>2. i < u.at => live[Paths[i]] = Absent
        BY <3>1, PathsFacts DEF Present, Exists
      <4> QED
        BY <4>1, <4>2
    <3>3. u.backup = [q \in Path |-> u.backup[q]]
      BY <2>2 DEF Nothing
    <3> QED
      BY <3>1, <3>2, <3>3, PathsFacts DEF BackedUp
  <2>5. ~ saved => live = original
    BY <1>5 DEF RecoveryInv, Untouched
  <2> QED
    BY <1>2, <2>1, <2>2, <2>3, <2>4, <2>5, HomeKept DEF Changing
<1> QED
  BY <1>1, <1>3, <1>4, <1>5 DEF Detect, Exit, Become

\* The backup is copied path by path from a home that nobody changes before
\* some backup is complete; when it is, it is a copy of the home as it was
\* found.
LEMMA CopyBackupRecovery ==
  ASSUME Shape, RecoveryInv, NEW p \in Proc, CopyBackup(p)
  PROVE  RecoveryInv'
<1>1. PICK t : t = task[p]
  OBVIOUS
<1>2. DOMAIN t = DOMAIN Idle /\ t.pc = "backup" /\ UNCHANGED <<live, original>>
  BY <1>1 DEF Shape, CopyBackup, At
<1>3. ~ saved => live = original /\ Exists(live, "config") /\ BackedUp(t)
  BY <1>1, <1>2 DEF RecoveryInv
<1>4. CASE ~ Done(t)
  <2>1. PICK u : /\ u = [t EXCEPT !.backup[Paths[t.at]] = live[Paths[t.at]], !.at = Following(Present, @)]
                 /\ task' = [task EXCEPT ![p] = u]
    BY <1>1, <1>4 DEF CopyBackup, Become
  <2>2. UNCHANGED saved
    BY <1>1, <1>4 DEF CopyBackup
  <2>3. /\ u.pc = "backup" /\ u.backup = [t.backup EXCEPT ![Paths[t.at]] = live[Paths[t.at]]]
        /\ u.at = Following(Present, t.at)
    BY <1>2, <2>1, IdleShape
  <2>4. ASSUME ~ saved PROVE BackedUp(u)
    <3>1. /\ t.at \in 1..12
          /\ t.backup = [q \in Path |-> t.backup[q]]
          /\ \A i \in 1..12 : t.backup[Paths[i]] = IF i < t.at THEN live[Paths[i]] ELSE Absent
      BY <1>3, <1>4, <2>4, PathsFacts DEF BackedUp, Done
    <3>2. /\ u.at \in t.at + 1..13
          /\ \A k \in t.at + 1..u.at - 1 : Paths[k] \notin Present
      BY <2>3, <3>1, FollowingFacts
    <3>3. ASSUME NEW i \in 1..12
          PROVE  u.backup[Paths[i]] = IF i < u.at THEN live[Paths[i]] ELSE Absent
      <4>1. Paths[i] \in Path /\ Paths[t.at] \in Path /\ (Paths[i] = Paths[t.at] => i = t.at)
        BY <3>1, PathsFacts
      <4>2. CASE i = t.at
        BY <2>3, <3>1, <3>2, <4>1, <4>2
      <4>3. CASE i # t.at
        <5>1. u.backup[Paths[i]] = t.backup[Paths[i]]
          BY <2>3, <3>1, <4>1, <4>3
        <5>2. i > t.at /\ i < u.at => live[Paths[i]] = Absent
          BY <3>1, <3>2, <4>1 DEF Present, Exists
        <5> QED
          BY <3>1, <3>2, <4>3, <5>1, <5>2
      <4> QED
        BY <4>2, <4>3
    <3>4. u.backup = [q \in Path |-> u.backup[q]]
      BY <2>3, <3>1
    <3>5. u.at \in 1..13
      BY <3>1, <3>2
    <3> QED
      BY <3>3, <3>4, <3>5, PathsFacts DEF BackedUp
  <2> QED
    BY <1>2, <1>3, <2>1, <2>2, <2>3, <2>4, HomeKept DEF Changing
<1>5. CASE Done(t)
  <2>1. PICK u : /\ u = [t EXCEPT !.backup = Nothing, !.at = Following(t.plan, 0), !.pc = "copy"]
                 /\ task' = [task EXCEPT ![p] = u]
    BY <1>1, <1>5 DEF CopyBackup, Become
  <2>2. saved' = (saved \/ t.backup = original)
    BY <1>1, <1>5 DEF CopyBackup
  <2>3. ASSUME ~ saved PROVE t.backup = original
    <3>1. /\ t.at = 13 /\ t.backup = [q \in Path |-> t.backup[q]]
          /\ \A i \in 1..12 : t.backup[Paths[i]] = live[Paths[i]]
      BY <1>3, <1>5, <2>3, PathsFacts DEF BackedUp, Done
    <3>2. \A q \in Path : t.backup[q] = live[q]
      BY <3>1, PathsFacts
    <3>3. live = [q \in Path |-> live[q]] /\ live = original
      BY <1>3, <2>3 DEF RecoveryInv
    <3> QED
      BY <3>1, <3>2, <3>3
  <2>4. saved'
    BY <2>2, <2>3 DEF RecoveryInv
  <2>5. u.pc = "copy"
    BY <1>2, <2>1, IdleShape
  <2>6. task'[p] = u /\ \A q \in Proc \ {p} : task'[q] = task[q]
    BY <2>1 DEF Shape
  <2>7. saved' \in BOOLEAN
    BY <2>2 DEF RecoveryInv
  <2> QED
    BY <1>2, <2>4, <2>5, <2>6, <2>7 DEF RecoveryInv
<1> QED
  BY <1>4, <1>5

\* Every step of a migration keeps the home recoverable.
LEMMA MigrateRecovery ==
  ASSUME Shape, RecoveryInv, NEW p \in Proc, Migrate(p)
  PROVE  RecoveryInv'
<1>1. PICK u : /\ task' = [task EXCEPT ![p] = u] /\ DOMAIN u = DOMAIN Idle
               /\ u.pc \in Migrating \cup {"idle", "create", "config"}
               /\ u.pc = "detect" => u.backup = Nothing
  BY MigrateMove
<1>2. CASE Detect(p)
  BY <1>2, DetectRecovery
<1>3. CASE CopyBackup(p)
  BY <1>3, CopyBackupRecovery
<1>4. CASE StagingFails(p)
  <2>1. task' = [task EXCEPT ![p] = Idle] /\ UNCHANGED <<live, saved, original>>
    BY <1>4 DEF StagingFails, Exit, Become
  <2> QED
    BY <2>1, IdleShape, HomeKept DEF Changing
<1>5. CASE /\ ~ StagingFails(p)
           /\ \/ CopySelected(p) \/ TransformStaged(p) \/ MoveAside(p) \/ MoveIntoPlace(p)
              \/ ApplyFails(p) \/ Undo(p) \/ Cleanup(p)
  <2>1. task[p].pc \in Changing
    BY <1>5 DEF CopySelected, TransformStaged, MoveAside, MoveIntoPlace, ApplyFails, Undo, Cleanup, At,
                Changing
  <2>2. saved
    BY <2>1 DEF RecoveryInv
  <2>3. UNCHANGED <<saved, original>> /\ (live' = live \/ \E q, c : live' = [live EXCEPT ![q] = c])
    BY <1>5 DEF CopySelected, TransformStaged, MoveAside, MoveIntoPlace, ApplyFails, Undo, Cleanup
  <2> QED
    BY <1>1, <2>2, <2>3, SavedMove
<1> QED
  BY <1>2, <1>3, <1>4, <1>5 DEF Migrate

\* A process begins with an empty backup.
LEMMA BeginRecovery ==
  ASSUME Shape, RecoveryInv, NEW p \in Proc, NEW kind, Begin(p, kind)
  PROVE  RecoveryInv'
<1>1. PICK u : u = [Idle EXCEPT !.pc = "detect", !.kind = kind]
  OBVIOUS
<1>2. u.pc = "detect" /\ u.backup = Nothing
  BY <1>1, IdleShape
<1>3. task' = [q \in Proc |-> IF q = p THEN u ELSE [task[q] EXCEPT !.found = Nothing]]
  BY <1>1 DEF Begin
<1>4. ASSUME NEW q \in Proc \ {p}
      PROVE  task'[q].pc = task[q].pc /\ task'[q].backup = task[q].backup /\ task'[q].at = task[q].at
  BY <1>3, IdleShape DEF Shape
<1>5. task'[p] = u /\ UNCHANGED <<live, saved, original>>
  BY <1>3 DEF Begin
<1>6. Untouched' = Untouched
  BY <1>5 DEF Untouched, Plan, Obsolete, HasPeers, Version, Content, Exists
<1> QED
  BY <1>2, <1>4, <1>5, <1>6 DEF RecoveryInv, BackedUp, Changing

\* A daemon initialises a home that has nothing to migrate: every file that was
\* found stays as it is.
LEMMA CreateRecovery ==
  ASSUME Shape, RecoveryInv, NEW p \in Proc, Create(p)
  PROVE  RecoveryInv'
<1>1. PICK u : u = [task[p] EXCEPT !.pc = "lock"] /\ task' = [task EXCEPT ![p] = u]
  BY DEF Create, Become
<1>2. u.pc = "lock"
  BY <1>1, IdleShape DEF Shape
<1>3. UNCHANGED <<saved, original>> /\ task[p].pc = "create"
  BY DEF Create, At
<1>4. CASE Exists(live, "config")
  <2>1. live' = live
    BY <1>4 DEF Create
  <2> QED
    BY <1>1, <1>2, <1>3, <2>1, HomeKept DEF Changing
<1>5. CASE ~ Exists(live, "config")
  <2>1. live' = [q \in Path |-> IF Exists(live, q) THEN live[q]
                                ELSE IF q = "config" THEN {<<"version", "3">>}
                                ELSE IF q \in {"devices", "prefs", "trusted"} THEN {} ELSE Absent]
    BY <1>5 DEF Create
  <2>2. task'[p] = u /\ \A q \in Proc \ {p} : task'[q] = task[q]
    BY <1>1 DEF Shape
  <2>3. live' = [q \in Path |-> live'[q]] /\ \A q \in Path : Exists(live, q) => live'[q] = live[q]
    BY <2>1
  <2>4. ASSUME ~ saved
        PROVE  Untouched' /\ Plan(live') = {}
    <3>1. Plan(live) = {} /\ Untouched
      BY <1>3, <2>4 DEF RecoveryInv
    <3>2. Plan(live') = {}
      BY <1>5, <2>1, <3>1, CreatedNeedsNone
    <3>3. ASSUME NEW q \in Path, Exists(original, q) PROVE live'[q] = original[q]
      BY <2>3, <3>1, <3>3 DEF Untouched, Exists
    <3> QED
      BY <1>3, <3>2, <3>3 DEF Untouched, Exists
  <2>5. ~ saved => \A q \in Proc : task[q].pc # "backup"
    BY <1>5 DEF RecoveryInv
  <2> QED
    BY <1>2, <1>3, <2>2, <2>3, <2>4, <2>5 DEF RecoveryInv, Changing
<1> QED
  BY <1>4, <1>5

\* A step that touches neither the home nor the processes keeps the home
\* recoverable.
LEMMA HomeUnchanged ==
  ASSUME RecoveryInv, UNCHANGED <<live, saved, original, task>>
  PROVE  RecoveryInv'
<1>1. Untouched' = Untouched
  BY DEF Untouched, Plan, Obsolete, HasPeers, Version, Content, Exists
<1>2. \A p \in Proc : BackedUp(task[p])' = BackedUp(task[p])
  BY DEF BackedUp
<1>3. Exists(live, "config")' = Exists(live, "config")
  BY DEF Exists
<1>4. Plan(live)' = Plan(live)
  BY DEF Plan, Obsolete, HasPeers, Version, Content, Exists
<1> QED
  BY <1>1, <1>2, <1>3, <1>4 DEF RecoveryInv

\* The steps of daemons and commands after that do not touch the home.
LEMMA LaterRecovery ==
  ASSUME Shape, RecoveryInv, NEW p \in Proc,
         \/ Lock(p) \/ Bind(p) \/ Publish(p) \/ StopServing(p) \/ Unpublish(p) \/ Unlock(p)
         \/ Command(p) \/ Kill(p)
  PROVE  RecoveryInv'
<1>1. PICK t : t = task[p]
  OBVIOUS
<1>2. DOMAIN t = DOMAIN Idle
  BY <1>1 DEF Shape
<1>3. UNCHANGED <<live, saved, original>>
  BY DEF Lock, Bind, Publish, StopServing, Unpublish, Unlock, Command, ReadConfig, Discover, Connect,
         Check, Request, Finish, Kill, Migration
<1>4. \/ task' = task
      \/ task' = [task EXCEPT ![p] = Idle]
      \/ \E c \in Pcs \ (Migrating \cup {"create"}) : \E n :
           \/ task' = [task EXCEPT ![p] = [t EXCEPT !.pc = c]]
           \/ task' = [task EXCEPT ![p] = [t EXCEPT !.pc = c, !.port = n]]
  <2>1. {"bind", "publish", "serve", "unpublish", "unlock", "discover", "connect", "check", "connected",
         "refused"} \subseteq Pcs \ (Migrating \cup {"create"})
    BY DEF Pcs, Migrating
  <2>2. CASE Lock(p)
    BY <1>1, <2>1, <2>2 DEF Lock, Exit, Become
  <2>3. CASE Bind(p)
    BY <1>1, <2>1, <2>3 DEF Bind, Exit, Become
  <2>4. CASE Publish(p)
    BY <1>1, <2>1, <2>4 DEF Publish, Exit, Become
  <2>5. CASE StopServing(p) \/ Unpublish(p)
    BY <1>1, <2>1, <2>5 DEF StopServing, Unpublish, Become
  <2>6. CASE Unlock(p) \/ Kill(p)
    BY <2>6 DEF Unlock, Kill, Exit, Become
  <2>7. CASE Command(p)
    BY <1>1, <2>1, <2>7, CommandMove
  <2> QED
    BY <2>2, <2>3, <2>4, <2>5, <2>6, <2>7
<1>5. CASE task' = task
  BY <1>3, <1>5, HomeUnchanged
<1>6. CASE task' # task
  <2> SUFFICES \E u : task' = [task EXCEPT ![p] = u] /\ u.pc \notin Migrating \cup {"create"}
    BY <1>3, HomeKept DEF Migrating, Changing
  <2>1. CASE task' = [task EXCEPT ![p] = Idle]
    BY <2>1, IdleShape DEF Migrating
  <2>2. ASSUME NEW c \in Pcs \ (Migrating \cup {"create"}), NEW n,
               NEW v \in {[t EXCEPT !.pc = c], [t EXCEPT !.pc = c, !.port = n]},
               task' = [task EXCEPT ![p] = v]
        PROVE  \E u : task' = [task EXCEPT ![p] = u] /\ u.pc \notin Migrating \cup {"create"}
    <3>1. v.pc = c
      BY <1>2, IdleShape
    <3> QED
      BY <2>2, <3>1
  <2> QED
    BY <1>4, <1>6, <2>1, <2>2
<1> QED
  BY <1>5, <1>6

-----------------------------------------------------------------------------
\* The home as it is found, without processes, satisfies the invariant.
LEMMA InitInv == Init => IInv
<1> SUFFICES ASSUME Init PROVE IInv
  OBVIOUS
<1>1. task = [p \in Proc |-> Idle]
  BY DEF Init
<1>2. Shape
  BY <1>1 DEF Shape
<1>3. DaemonInv
  BY <1>1, IdleShape, HomeAssumption DEF Init, DaemonInv, Held, Ported
<1>5. CallInv
  BY <1>1, IdleShape, HomeAssumption DEF Init, CallInv, Bindings, LinkInv, SteadyInv
<1>4. RecoveryInv
  <2>1. live = original /\ saved = FALSE /\ live \in Homes
    BY DEF Init
  <2>2. live = [q \in Path |-> live[q]] /\ original = [q \in Path |-> original[q]]
    BY <2>1, HomeAssumption
  <2>3. Untouched
    BY <2>1 DEF Untouched
  <2> QED
    BY <1>1, <2>1, <2>2, <2>3, IdleShape DEF RecoveryInv, Changing
<1> QED
  BY <1>2, <1>3, <1>4, <1>5 DEF IInv

\* Every step of a process, a kill and a daemon of another home keep the
\* invariant.
LEMMA NextInv == IInv /\ [Next]_vars => IInv'
<1> SUFFICES ASSUME IInv, [Next]_vars PROVE IInv'
  OBVIOUS
<1>1. Shape /\ DaemonInv /\ CallInv /\ RecoveryInv
  BY DEF IInv
<1>2. ASSUME NEW p \in Proc, NEW kind, Begin(p, kind) PROVE IInv'
  <2>1. CallInv'
    BY <1>1, <1>2, BeginCalls
  <2> QED
    BY <1>1, <1>2, <2>1, BeginDaemonInv, BeginRecovery DEF IInv
<1>3. ASSUME NEW p \in Proc, Migrate(p) PROVE IInv'
  <2>1. CallInv'
    BY <1>1, <1>3, MigrateCalls
  <2> QED
    BY <1>1, <1>3, <2>1, MigrateDaemonInv, MigrateRecovery DEF IInv
<1>4. ASSUME NEW p \in Proc, Daemon(p) PROVE IInv'
  <2>1. Shape' /\ DaemonInv' /\ CallInv'
    BY <1>1, <1>4, DaemonStepInv, DaemonCalls
  <2>2. RecoveryInv'
    BY <1>1, <1>4, CreateRecovery, LaterRecovery DEF Daemon
  <2> QED
    BY <2>1, <2>2 DEF IInv
<1>5. ASSUME NEW p \in Proc, Command(p) PROVE IInv'
  BY <1>1, <1>5, CommandInv, CommandCalls, LaterRecovery DEF IInv
<1>6. ASSUME NEW p \in Proc, Kill(p) PROVE IInv'
  <2>1. CallInv'
    BY <1>1, <1>6, ReleasedCalls DEF Kill
  <2> QED
    BY <1>1, <1>6, <2>1, OthersInv, LaterRecovery DEF IInv
<1>7. ASSUME NEW port \in Port, ForeignDaemon(port) PROVE IInv'
  <2>1. Shape' /\ DaemonInv' /\ CallInv'
    BY <1>1, <1>7, OthersInv, ForeignCalls
  <2>2. UNCHANGED <<live, saved, original, task>>
    BY <1>7 DEF ForeignDaemon, Migration
  <2>3. RecoveryInv'
    BY <1>1, <2>2, HomeUnchanged
  <2> QED
    BY <2>1, <2>3 DEF IInv
<1>8. ASSUME UNCHANGED vars PROVE IInv'
  <2>1. UNCHANGED <<live, saved, original, task>> /\ UNCHANGED <<lock, endpoint, bound, link, steady>>
    BY <1>8 DEF vars
  <2>2. Shape' /\ DaemonInv' /\ CallInv'
    BY <1>1, <2>1 DEF Shape, DaemonInv, CallInv, Bindings, LinkInv, SteadyInv
  <2> QED
    BY <1>1, <2>1, <2>2, HomeUnchanged DEF IInv
<1> QED
  BY <1>2, <1>3, <1>4, <1>5, <1>6, <1>7, <1>8 DEF Next

\* The inductive invariant of the home holds in every reachable state.
THEOREM Inductive == Spec => []IInv
  BY InitInv, NextInv, PTL DEF Spec

\* The home as it was found is never lost: at every moment, wherever a
\* migration fails or is killed and whoever else migrates at the same time,
\* each of its files is still in place or a complete backup has it.
THEOREM HomeRecoverable == Spec => []Recoverable
<1>1. IInv => Recoverable
  BY DEF IInv, RecoveryInv, Untouched, Recoverable
<1> QED
  BY <1>1, Inductive, PTL

\* While a daemon serves, the endpoint file leads to it: no daemon that starts
\* or ends meanwhile overwrites or removes its entry.
THEOREM DaemonDiscoverable == Spec => []Discoverable
<1>1. IInv => Discoverable
  BY DEF IInv, DaemonInv, Discoverable, At
<1> QED
  BY <1>1, Inductive, PTL

\* While a daemon serves that was there when a command looked for it, or that the
\* command has checked, the command is not turned away and each of its requests
\* goes to this daemon (fungi_daemon.rs, client.rs, rpc_endpoint.rs): neither a
\* daemon that ends late, nor one that starts beside it, nor another home's comes
\* between.
THEOREM CommandServed == Spec => []ServedThroughout
<1>1. IInv => ServedThroughout
  <2> SUFFICES ASSUME IInv, NEW p \in Proc, NEW q \in steady[p]
               PROVE  ~At(p, "refused") /\ (At(p, "connected") => link[p] = q)
    BY DEF ServedThroughout
  <2>1. task[p].pc \in {"connect", "check", "connected"} /\ (task[p].pc # "connect" => link[p] = q)
    BY DEF IInv, CallInv, SteadyInv
  <2> QED
    BY <2>1 DEF At
<1> QED
  BY <1>1, Inductive, PTL

=============================================================================
