---------------------------- MODULE SnapshotStore ----------------------------
(***************************************************************************)
(* What the cache of remote observations promises                          *)
(* (DeviceServiceSnapshots in crates/daemon/src/services.rs): a removal     *)
(* takes the right to write from every observation that is in flight, and  *)
(* only an observation that still has the right can store its result.      *)
(***************************************************************************)
CONSTANTS Task, Peer, Snapshot, NoSnapshot, NoPeer

VARIABLES
  cache,  \* the observation stored for each peer
  open    \* the peer whose observation a task may still store

storeVars == <<cache, open>>

Init ==
  /\ cache \in [Peer -> Snapshot \cup {NoSnapshot}]
  /\ open = [t \in Task |-> NoPeer]

Begin(t, p) ==
  /\ open[t] = NoPeer
  /\ open' = [open EXCEPT ![t] = p]
  /\ UNCHANGED cache

Write(t, s) ==
  /\ open[t] # NoPeer
  /\ cache' = [cache EXCEPT ![open[t]] = s]
  /\ open' = [open EXCEPT ![t] = NoPeer]

Abandon(t) ==
  /\ open' = [open EXCEPT ![t] = NoPeer]
  /\ UNCHANGED cache

\* The removal of a stored observation can fail; the right to write is gone
\* all the same.
Remove(p) ==
  /\ cache' \in {cache, [cache EXCEPT ![p] = NoSnapshot]}
  /\ open' = [t \in Task |-> IF open[t] = p THEN NoPeer ELSE open[t]]

Restart ==
  /\ open' = [t \in Task |-> NoPeer]
  /\ UNCHANGED cache

Next ==
  \/ \E t \in Task, p \in Peer : Begin(t, p)
  \/ \E t \in Task, s \in Snapshot : Write(t, s)
  \/ \E t \in Task : Abandon(t)
  \/ \E p \in Peer : Remove(p)
  \/ Restart

Spec == Init /\ [][Next]_storeVars
=============================================================================
