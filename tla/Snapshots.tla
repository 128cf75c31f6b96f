------------------------------ MODULE Snapshots ------------------------------
(***************************************************************************)
(* Cached observations of the services of remote devices                   *)
(* (DeviceServiceSnapshots and DeviceServices in                           *)
(* crates/daemon/src/services.rs).                                         *)
(*                                                                         *)
(* An observation is remote I/O that takes up to 15 seconds and holds no   *)
(* lock.  It notes the epoch of the peer when it begins and its result is  *)
(* stored only if the epoch is still the same; removing the snapshot of a  *)
(* peer increments the epoch.  remove_cached_service is a read, an edit    *)
(* and a conditional write under the same scheme.                          *)
(***************************************************************************)
EXTENDS Naturals

CONSTANTS
  Task,        \* calls in progress
  Peer,        \* remote devices
  Service,     \* service names
  MaxEpoch,    \* u64::MAX
  NoSnapshot, NoPeer

ASSUME SnapshotAssumption ==
  /\ MaxEpoch \in Nat
  /\ NoSnapshot \notin [services : SUBSET Service]
  /\ NoPeer \notin Peer

Snapshot == [services : SUBSET Service]

VARIABLES
  epochs,    \* DeviceServiceSnapshots.epochs
  cache,     \* cache/device_service_snapshots/<peer>.json
  task,
  outdated   \* history: calls that began before the last removal for their peer

vars == <<epochs, cache, task, outdated>>

Idle == [pc |-> "idle", peer |-> NoPeer, epoch |-> 0, seen |-> NoSnapshot]

Tasks == [pc : {"idle", "observe", "read", "save"}, peer : Peer \cup {NoPeer},
          epoch : 0..MaxEpoch, seen : Snapshot \cup {NoSnapshot}]

TypeOK ==
  /\ epochs \in [Peer -> 0..MaxEpoch]
  /\ cache \in [Peer -> Snapshot \cup {NoSnapshot}]
  /\ task \in [Task -> Tasks]
  /\ outdated \subseteq Task

Busy(t) == task[t].pc # "idle"

\* The call of t is over.
Finish(t) ==
  /\ task' = [task EXCEPT ![t] = Idle]
  /\ outdated' = outdated \ {t}

Init ==
  /\ epochs = [p \in Peer |-> 0]
  /\ cache \in [Peer -> Snapshot \cup {NoSnapshot}]
  /\ task = [t \in Task |-> Idle]
  /\ outdated = {}

\* refresh and remove_cached_service both begin by noting the epoch.
Begin(t, p, pc) ==
  /\ ~ Busy(t)
  /\ task' = [task EXCEPT ![t] = [Idle EXCEPT !.pc = pc, !.peer = p,
                                              !.epoch = epochs[p]]]
  /\ UNCHANGED <<epochs, cache, outdated>>

RefreshBegin(t, p) == Begin(t, p, "observe")

\* The device answers with its managed and its published services.
RefreshAnswer(t, s) ==
  /\ task[t].pc = "observe"
  /\ task' = [task EXCEPT ![t].pc = "save", ![t].seen = s]
  /\ UNCHANGED <<epochs, cache, outdated>>

\* The 15 seconds are over, the device is unreachable or its answer does not
\* decode.
RefreshError(t) ==
  /\ task[t].pc = "observe"
  /\ Finish(t)
  /\ UNCHANGED <<epochs, cache>>

ForgetBegin(t, p) == Begin(t, p, "read")

\* remove_cached_service reads the snapshot after the epoch.
ForgetRead(t, name) ==
  LET s == cache[task[t].peer] IN
  /\ task[t].pc = "read"
  /\ IF s # NoSnapshot /\ name \in s.services
     THEN /\ task' = [task EXCEPT ![t].pc = "save",
                        ![t].seen = [services |-> s.services \ {name}]]
          /\ UNCHANGED outdated
     ELSE Finish(t)
  /\ UNCHANGED <<epochs, cache>>

\* Mutant: the epoch is not looked at.
SaveAlways(t) ==
  /\ task[t].pc = "save"
  /\ cache' = [cache EXCEPT ![task[t].peer] = task[t].seen]
  /\ Finish(t)
  /\ UNCHANGED epochs

\* save_if_current; the file is replaced atomically or, on an error, not at all.
SaveIfCurrent(t) ==
  LET p == task[t].peer IN
  /\ task[t].pc = "save"
  /\ IF epochs[p] = task[t].epoch
     THEN cache' \in {cache, [cache EXCEPT ![p] = task[t].seen]}
     ELSE UNCHANGED cache
  /\ Finish(t)
  /\ UNCHANGED epochs

\* Mutant: wrapping_add in place of checked_add.
RemoveWrapping(p) ==
  /\ epochs' = [epochs EXCEPT ![p] = (@ + 1) % (MaxEpoch + 1)]
  /\ cache' = [cache EXCEPT ![p] = NoSnapshot]
  /\ outdated' = outdated \cup {t \in Task : Busy(t) /\ task[t].peer = p}
  /\ UNCHANGED task

\* Mutant: an unchecked increment.
RemoveUnchecked(p) ==
  /\ epochs' = [epochs EXCEPT ![p] = @ + 1]
  /\ cache' = [cache EXCEPT ![p] = NoSnapshot]
  /\ UNCHANGED <<task, outdated>>

\* remove: the epoch is incremented before the file goes; deleting the file
\* can fail.
Remove(p) ==
  /\ epochs[p] < MaxEpoch
  /\ epochs' = [epochs EXCEPT ![p] = @ + 1]
  /\ \/ /\ cache' = [cache EXCEPT ![p] = NoSnapshot]
        /\ outdated' = outdated \cup {t \in Task : Busy(t) /\ task[t].peer = p}
     \/ UNCHANGED <<cache, outdated>>
  /\ UNCHANGED task

\* checked_add fails and nothing is removed.
RemoveOverflow(p) ==
  /\ epochs[p] = MaxEpoch
  /\ UNCHANGED vars

\* The epochs and the calls in flight live in memory only.
Restart ==
  /\ epochs' = [p \in Peer |-> 0]
  /\ task' = [t \in Task |-> Idle]
  /\ outdated' = {}
  /\ UNCHANGED cache

Next ==
  \/ \E t \in Task, p \in Peer : RefreshBegin(t, p) \/ ForgetBegin(t, p)
  \/ \E t \in Task, s \in Snapshot : RefreshAnswer(t, s)
  \/ \E t \in Task, name \in Service : ForgetRead(t, name)
  \/ \E t \in Task : RefreshError(t) \/ SaveIfCurrent(t)
  \/ \E p \in Peer : Remove(p) \/ RemoveOverflow(p)
  \/ Restart

Spec == Init /\ [][Next]_vars

-----------------------------------------------------------------------------
\* Properties

\* "Per-peer epochs let removal invalidate an older in-flight write": when a
\* call that began before the last removal of its peer's snapshot ends, it
\* leaves the cache as it was, however many removals, refreshes and forgets
\* came in between.
NoResurrection ==
  [][\A t \in outdated : ~ Busy(t)' => cache' = cache]_vars

\* The epoch scheme implements explicit invalidation: a call has the right to
\* write as long as the epoch it noted is the current one.
mayWrite ==
  [t \in Task |-> IF Busy(t) /\ epochs[task[t].peer] = task[t].epoch
                  THEN task[t].peer ELSE NoPeer]

Store == INSTANCE SnapshotStore WITH open <- mayWrite

\* Every step of the cache is a step of SnapshotStore or leaves it unchanged.
ImplementsStore == Store!Spec
=============================================================================
