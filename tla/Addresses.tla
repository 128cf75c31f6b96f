----------------------------- MODULE Addresses -----------------------------
(***************************************************************************)
(* What a daemon knows about the addresses of its peers: the records       *)
(* (crates/swarm/src/state/connectivity.rs) fed by mDNS, identify, the     *)
(* directory and the cache of addresses that have worked, the dial plan    *)
(* made of them, and the task that saves the cache.                        *)
(*                                                                         *)
(* Time is the wall clock in coarse ticks and only moves forward.          *)
(***************************************************************************)
EXTENDS Naturals, FiniteSets

CONSTANTS
  Peer,
  Raw,                \* multiaddrs, as records (see Multiaddr)
  FreshFor, AgingFor, \* [kind -> ticks]: freshness_windows
  Conns,              \* the connections that may open
  Configs,            \* the addresses a user may give to a device
  MaxTime, MaxFaults, MaxRestarts,
  NoRecord, Torn

Kinds == {"tcp", "udp", "relayed", "other"}
\* p2p: no identity at the end, that of the peer, that of another, or one followed by more.
Multiaddr ==
  [host : {"public", "loopback", "any"}, transport : {"tcp", "udp", "none"}, port0 : BOOLEAN,
   circuit : BOOLEAN, p2p : {"none", "own", "other", "inner"}]
Normal == [host : {"public", "loopback"}, transport : {"tcp", "udp"}, circuit : BOOLEAN]

Sources == {"mdns", "identify", "device-config", "direct-cache"}
\* seen (history): when the address was last really observed.
RecordType == [source : Sources, last : Nat, expired : BOOLEAN, seen : Nat]

ASSUME AddressesAssumption ==
  /\ Raw \subseteq Multiaddr /\ Conns \subseteq [peer : Peer, addr : Raw, out : BOOLEAN]
  /\ Configs \subseteq SUBSET Raw
  /\ {MaxTime, MaxFaults, MaxRestarts} \subseteq Nat
  /\ \A k \in Kinds : FreshFor[k] \in Nat /\ AgingFor[k] \in Nat /\ FreshFor[k] <= AgingFor[k]
  /\ NoRecord \notin RecordType
  /\ \A D \in SUBSET (Peer \X Raw) : Torn \notin [D -> Nat]

VARIABLES
  now,
  up,         \* the daemon runs
  config,     \* [Peer -> SUBSET Raw]: the addresses in devices.toml
  records,    \* peer_address_records, by peer and normalised address
  conns,      \* open connections
  cache,      \* DirectAddressCache in memory: <<peer, address>> to the last success
  file,       \* direct_addresses.json
  synced,     \* last_synced_pairs
  faults, restarts,
  lost        \* history: pairs whose save has failed

known == <<config, records>>
saved == <<cache, file, synced, lost>>
vars == <<now, up, known, conns, saved, faults, restarts>>

-----------------------------------------------------------------------------
(* Addresses *)

AllowsLocal(source) == source = "device-config"

\* normalize_peer_address_with_options: the address without the identity of
\* the peer; none where it could not be dialed from here.
Normalize(a, allowLocal) ==
  IF \/ a.host = "any" \/ (a.host = "loopback" /\ ~allowLocal)
     \/ a.port0 \/ a.transport = "none" \/ a.p2p \in {"other", "inner"}
  THEN {}
  ELSE {[host |-> a.host, transport |-> a.transport, circuit |-> a.circuit]}

Kind(n) == IF n.circuit THEN "relayed" ELSE n.transport
Direct(n) == Kind(n) \in {"tcp", "udp"}

Age(r) == IF r.last <= now THEN now - r.last ELSE 0
Freshness(n, r) ==
  IF r.expired THEN "expired"
  ELSE IF Age(r) <= FreshFor[Kind(n)] THEN "fresh"
  ELSE IF Age(r) <= AgingFor[Kind(n)] THEN "aging" ELSE "stale"

Record(source, last, seen) == [source |-> source, last |-> last, expired |-> FALSE, seen |-> seen]

Observed(R, p, A, source) ==
  LET ns == UNION {Normalize(a, AllowsLocal(source)) : a \in A} IN
  [k \in Peer \X Normal |->
     IF k[1] = p /\ k[2] \in ns
     THEN Record(source, now, IF source = "device-config" /\ R[k] # NoRecord THEN R[k].seen ELSE now)
     ELSE R[k]]

\* restore_peer_address_record: what was seen later wins.
RestoredNow(R, C) ==
  [k \in Peer \X Normal |->
     LET hits == {c \in DOMAIN C : c[1] = k[1] /\ k[2] \in Normalize(c[2], FALSE)}
         at == {C[c] : c \in hits}
     IN  IF hits = {} THEN R[k]
         ELSE Record("direct-cache", now, CHOOSE t \in at : \A u \in at : u <= t)]
Restored(R, C) ==
  [k \in Peer \X Normal |->
     LET hits == {c \in DOMAIN C : c[1] = k[1] /\ k[2] \in Normalize(c[2], FALSE)}
         at == {C[c] : c \in hits}
         last == CHOOSE t \in at : \A u \in at : u <= t
     IN  IF hits = {} \/ (R[k] # NoRecord /\ last <= R[k].last) THEN R[k]
         ELSE Record("direct-cache", last, last)]

Expired(R, p, a) ==
  LET ns == Normalize(a, FALSE) IN
  [k \in Peer \X Normal |->
     IF k[1] = p /\ k[2] \in ns /\ R[k] # NoRecord
     THEN [R[k] EXCEPT !.expired = TRUE] ELSE R[k]]

-----------------------------------------------------------------------------
(* The dial plan *)

Candidates(p, fs) ==
  {n \in Normal : Direct(n) /\ records[<<p, n>>] # NoRecord /\ Freshness(n, records[<<p, n>>]) \in fs}

FreshOnly(p) == Candidates(p, {"fresh", "aging"})
\* Where the order they are dialed in does not matter: all of them are, at once.
DialSet(p) ==
  LET direct == Candidates(p, {"fresh", "aging"})
  IN  IF direct = {} THEN Candidates(p, {"stale"}) ELSE direct

-----------------------------------------------------------------------------
(* Where records come from *)

\* mdns::Event::Discovered of the swarm.
Discovered(p, A) ==
  /\ up /\ records' = Observed(records, p, A, "mdns")
  /\ UNCHANGED <<now, up, config, conns, saved, faults, restarts>>

\* mdns::Event::Expired of the swarm.
MdnsExpired(p, a) ==
  /\ up /\ records' = Expired(records, p, a)
  /\ UNCHANGED <<now, up, config, conns, saved, faults, restarts>>

\* The mDNS thread of the daemon resolves a service; when one is removed it
\* takes the device from its list and leaves the addresses alone.
ServiceResolved(p, A) ==
  /\ up /\ records' = Observed(records, p, A, "mdns")
  /\ UNCHANGED <<now, up, config, conns, saved, faults, restarts>>

\* identify::Event::Received, over an open connection.
Identified(p, A) ==
  /\ up /\ \E c \in conns : c.peer = p
  /\ records' = Observed(records, p, A, "identify")
  /\ UNCHANGED <<now, up, config, conns, saved, faults, restarts>>

\* The user edits the addresses of a device (module Devices); those that are
\* left are recorded, one that is taken away stays in the records.
Configure(p, A) ==
  /\ up /\ A # config[p]
  /\ config' = [config EXCEPT ![p] = A]
  /\ records' = Observed(records, p, A, "device-config")
  /\ UNCHANGED <<now, up, conns, saved, faults, restarts>>

\* A direct dial of this node goes to an address of the plan.
Open(c) ==
  /\ up /\ c \notin conns
  /\ (c.out /\ ~c.addr.circuit) => Normalize(c.addr, TRUE) \cap DialSet(c.peer) # {}
  /\ conns' = conns \cup {c}
  /\ UNCHANGED <<now, up, known, saved, faults, restarts>>

Close(c) ==
  /\ c \in conns /\ conns' = conns \ {c}
  /\ UNCHANGED <<now, up, known, saved, faults, restarts>>

-----------------------------------------------------------------------------
(* The task that saves the addresses that have worked *)

CollectInbound == {<<c.peer, c.addr>> : c \in {d \in conns : ~d.out /\ ~d.addr.circuit}}
\* collect_direct_connection_addresses
Collect == {<<c.peer, c.addr>> : c \in {d \in conns : d.out /\ ~d.addr.circuit}}

\* record_successful_addresses for the new pairs, save by save; the pairs are
\* noted as done before, whether their save succeeds or not.
With(C, pairs) == [k \in DOMAIN C \cup pairs |-> IF k \in pairs THEN now ELSE C[k]]
OfPeers(pairs, P) == {k \in pairs : k[1] \in P}

\* The cache is written in place, once for each peer; a save that fails is
\* skipped.  It has truncated the file or not even opened it; a later save that
\* succeeds writes everything memory has.
Sync(failing) ==
  LET new == Collect \ synced  ok == OfPeers(new, Peer \ failing) IN
  /\ up /\ new # {} /\ failing \subseteq {k[1] : k \in new}
  /\ faults + Cardinality(failing) <= MaxFaults /\ faults' = faults + Cardinality(failing)
  /\ synced' = Collect
  /\ cache' = With(cache, ok)
  /\ file' \in {IF ok = {} THEN file ELSE cache'} \cup (IF failing = {} THEN {} ELSE {Torn})
  /\ lost' = (lost \ ok) \cup OfPeers(new, failing)
  /\ UNCHANGED <<now, up, known, conns, restarts>>

\* A round without anything new still forgets the pairs that are gone.
SyncNothing ==
  /\ up /\ Collect \subseteq synced /\ Collect # synced
  /\ synced' = Collect
  /\ UNCHANGED <<now, up, known, conns, cache, file, lost, faults, restarts>>

-----------------------------------------------------------------------------
(* The daemon *)

Down ==
  /\ up' = FALSE /\ conns' = {} /\ synced' = {} /\ lost' = {}
  /\ records' = [k \in Peer \X Normal |-> NoRecord]
  /\ cache' = [k \in {} |-> 0]

Stop ==
  /\ up /\ restarts < MaxRestarts /\ restarts' = restarts + 1 /\ Down
  /\ UNCHANGED <<now, config, file, faults>>

\* It is killed while it writes the cache, or after the saves of some peers.
CrashInSave ==
  /\ up /\ restarts < MaxRestarts /\ restarts' = restarts + 1
  /\ faults < MaxFaults /\ faults' = faults + 1
  /\ ~(Collect \subseteq synced) /\ Down
  /\ file' \in {Torn} \cup {With(cache, OfPeers(Collect \ synced, P)) : P \in SUBSET Peer \ {{}}}
  /\ UNCHANGED <<now, config>>

HydrateDevices(R) ==
  [k \in Peer \X Normal |->
     IF \E a \in config[k[1]] : k[2] \in Normalize(a, TRUE) THEN Record("device-config", now, 0) ELSE R[k]]

\* It refuses to start on a cache that does not parse.
Start ==
  /\ ~up /\ file # Torn /\ up' = TRUE
  /\ cache' = file
  /\ records' = Restored(HydrateDevices(records), file)
  /\ UNCHANGED <<now, config, conns, file, synced, lost, faults, restarts>>

Tick ==
  /\ now < MaxTime /\ now' = now + 1
  /\ UNCHANGED <<up, known, conns, saved, faults, restarts>>

Init ==
  /\ now = 0 /\ up = FALSE /\ config = [p \in Peer |-> {}]
  /\ records = [k \in Peer \X Normal |-> NoRecord]
  /\ conns = {} /\ cache = [k \in {} |-> 0] /\ file = cache /\ synced = {} /\ lost = {}
  /\ faults = 0 /\ restarts = 0

Next ==
  \/ Tick \/ Start \/ Stop \/ CrashInSave \/ SyncNothing
  \/ \E P \in SUBSET Peer : Sync(P)
  \/ \E p \in Peer, a \in Raw :
       Discovered(p, {a}) \/ ServiceResolved(p, {a}) \/ Identified(p, {a}) \/ MdnsExpired(p, a)
  \/ \E p \in Peer, A \in Configs : Configure(p, A)
  \/ \E c \in Conns : Open(c) \/ Close(c)

Spec == Init /\ [][Next]_vars

\* The interval of the task keeps ticking.
FairSpec == Spec /\ WF_vars(\E P \in SUBSET Peer : Sync(P))

-----------------------------------------------------------------------------
(* Properties *)

TypeOK ==
  /\ now \in 0..MaxTime /\ up \in BOOLEAN
  /\ config \in [Peer -> SUBSET Raw] /\ conns \subseteq Conns
  /\ \A k \in Peer \X Normal :
       records[k] # NoRecord => records[k].source \in Sources /\ records[k].last \in 0..now
  /\ synced \subseteq Peer \X Raw /\ DOMAIN cache \subseteq Peer \X Raw
  /\ file # Torn => DOMAIN file \subseteq Peer \X Raw

\* An address counts as fresh only when it has been seen within its window: a
\* restart keeps the time of the last success, and an address that is cached,
\* discovered and edited in turn does not become younger.  The addresses the
\* user gave are the exception, they are fresh at every start.
HonestFreshness ==
  \A p \in Peer, n \in Normal :
    LET r == records[<<p, n>>] IN
    (r # NoRecord /\ r.source # "device-config" /\ Freshness(n, r) = "fresh") =>
      now - r.seen <= FreshFor[Kind(n)]

\* However long the daemon was down, it starts with something to dial for each
\* peer it has a direct address of in its two files.
KnownAfterStart ==
  [][(~up /\ up') =>
       \A p \in Peer, a \in Raw :
         LET ns == {n \in Normalize(a, a \in config[p]) : Direct(n)} IN
         (ns # {} /\ (a \in config[p] \/ <<p, a>> \in DOMAIN file)) => DialSet(p)' # {}]_vars

\* A direct connection this node has opened, and that lasts, gets its address
\* into the cache, unless its save fails, and what the cache has is what the file
\* has, unless a save has failed and torn it
\* (spawn_direct_address_cache_sync, save_to_file).
LastingConnectionSaved ==
  \A c \in {d \in Conns : d.out /\ ~d.addr.circuit} :
    (up /\ c \in conns) ~>
      \/ ~up \/ c \notin conns \/ <<c.peer, c.addr>> \in lost
      \/ <<c.peer, c.addr>> \in DOMAIN cache /\ file \in {cache, Torn}

=============================================================================
