--------------------------- MODULE AddressesProofs ---------------------------
(***************************************************************************)
(* For any number of peers, addresses and connections and any windows: an  *)
(* address counts as fresh only while it is, and a daemon that starts has  *)
(* something to dial for every peer it has an address of on disk.          *)
(***************************************************************************)
EXTENDS Addresses, WellFoundedInduction, TLAPS

\* A record that is not made of the user's configuration has the time at which
\* its address was really seen.
Sound(R) ==
  /\ R \in [Peer \X Normal -> RecordType \cup {NoRecord}]
  /\ \A k \in Peer \X Normal : R[k] # NoRecord =>
       /\ R[k].last <= now
       /\ R[k].source # "device-config" => R[k].seen = R[k].last

\* The times of a cache are past.
Times(C) == DOMAIN C \in SUBSET (Peer \X Raw) /\ C \in [DOMAIN C -> 0..now]

Shapes ==
  /\ now \in 0..MaxTime /\ up \in BOOLEAN
  /\ config \in [Peer -> SUBSET Raw] /\ conns \subseteq Conns
  /\ synced \subseteq Peer \X Raw

\* A daemon that is down knows nothing but its files.
Forgotten == ~up => records = [k \in Peer \X Normal |-> NoRecord]

\* A file that parses has times that are past, and what memory has: a save that
\* fails leaves what the last one wrote or tears it.
FileInv == (file # Torn => Times(file)) /\ (up => file \in {cache, Torn})

IInv == Shapes /\ Sound(records) /\ Times(cache) /\ FileInv /\ Forgotten

-----------------------------------------------------------------------------
\* Of several times that are past, one is the latest.
LEMMA Latest ==
  ASSUME NEW n \in Nat, NEW S \in SUBSET (0..n), S # {}
  PROVE  (CHOOSE t \in S : \A u \in S : u <= t) \in S
<1>1. PICK T : T = {n - t : t \in S}
  OBVIOUS
<1>2. T \subseteq Nat /\ T # {}
  <2>1. \A t \in S : n - t \in Nat
    OBVIOUS
  <2> QED
    BY <1>1, <2>1
<1>3. PICK x \in T : \A y \in T : ~ (<<y, x>> \in OpToRel(<, Nat))
  BY <1>2, NatLessThanWellFounded, WFMin
<1>4. \A y \in T : ~ (y < x)
  BY <1>2, <1>3 DEF OpToRel
<1>5. PICK s \in S : x = n - s
  BY <1>1, <1>3
<1>6. \A u \in S : u <= s
  BY <1>1, <1>4, <1>5
<1> QED
  BY <1>5, <1>6

\* Addresses that are observed, or given by the user, keep the records sound.
LEMMA ObservedSound ==
  ASSUME now \in Nat, NEW R, Sound(R), NEW p, NEW A, NEW source \in Sources
  PROVE  Sound(Observed(R, p, A, source))
  BY DEF Sound, Observed, Record, RecordType

\* So do addresses that expire.
LEMMA ExpiredSound ==
  ASSUME now \in Nat, NEW R, Sound(R), NEW p, NEW a
  PROVE  Sound(Expired(R, p, a))
  BY DEF Sound, Expired, RecordType

\* So do the addresses of devices.toml at a start.
LEMMA HydratedSound ==
  ASSUME now \in Nat, NEW R, Sound(R)
  PROVE  Sound(HydrateDevices(R))
<1>1. Record("device-config", now, 0) \in RecordType
  BY DEF Record, RecordType, Sources
<1>2. PICK r \in RecordType : r = Record("device-config", now, 0)
  BY <1>1
<1>3. r.last <= now /\ r.source = "device-config"
  BY <1>2 DEF Record
<1>4. PICK H : H = HydrateDevices(R)
  OBVIOUS
<1>5. H \in [Peer \X Normal -> RecordType \cup {NoRecord}]
  BY <1>2, <1>4 DEF HydrateDevices, Sound
<1>6. \A k \in Peer \X Normal : H[k] \in {R[k], r}
  BY <1>2, <1>4 DEF HydrateDevices
<1>7. Sound(H)
  BY <1>3, <1>5, <1>6 DEF Sound
<1> QED
  BY <1>4, <1>7

\* The addresses of a cache under which k has worked.
Hits(C, k) == {c \in DOMAIN C : c[1] = k[1] /\ k[2] \in Normalize(c[2], FALSE)}

\* An address that has worked comes back with the time of its last success,
\* unless something later is known of it.
LEMMA RestoredFacts ==
  ASSUME now \in Nat, NEW R, NEW C, Times(C), NEW k \in Peer \X Normal, Hits(C, k) # {}
  PROVE  \E t \in 0..now : /\ Restored(R, C)[k] \in {R[k], Record("direct-cache", t, t)}
                           /\ R[k] = NoRecord => Restored(R, C)[k] = Record("direct-cache", t, t)
<1> DEFINE at == {C[c] : c \in Hits(C, k)}
           last == CHOOSE t \in at : \A u \in at : u <= t
<1>1. Restored(R, C)[k] = IF Hits(C, k) = {} \/ (R[k] # NoRecord /\ last <= R[k].last)
                          THEN R[k] ELSE Record("direct-cache", last, last)
  BY DEF Restored, Hits
<1>2. at \in SUBSET (0..now) /\ at # {}
  BY DEF Times, Hits
<1> HIDE DEF at
<1>3. last \in 0..now
  BY <1>2, Latest
<1> HIDE DEF last
<1> QED
  BY <1>1, <1>3

\* So do the addresses that have worked.
LEMMA RestoredSound ==
  ASSUME now \in Nat, NEW R, Sound(R), NEW C, Times(C)
  PROVE  Sound(Restored(R, C))
<1>1. PICK S : S = Restored(R, C)
  OBVIOUS
<1>2. S = [k \in Peer \X Normal |-> S[k]]
  BY <1>1 DEF Restored
<1>3. ASSUME NEW k \in Peer \X Normal
      PROVE  S[k] = R[k] \/ \E t \in 0..now : S[k] = Record("direct-cache", t, t)
  <2>1. CASE Hits(C, k) = {}
    BY <1>1, <2>1 DEF Restored, Hits
  <2>2. CASE Hits(C, k) # {}
    BY <1>1, <2>2, RestoredFacts
  <2> QED
    BY <2>1, <2>2
<1>4. ASSUME NEW t \in 0..now
      PROVE  /\ Record("direct-cache", t, t) \in RecordType
             /\ Record("direct-cache", t, t).last <= now
             /\ Record("direct-cache", t, t).seen = Record("direct-cache", t, t).last
  BY DEF Record, RecordType, Sources
<1>5. S \in [Peer \X Normal -> RecordType \cup {NoRecord}]
  BY <1>2, <1>3, <1>4 DEF Sound
<1>6. Sound(S)
  BY <1>3, <1>4, <1>5 DEF Sound
<1> QED
  BY <1>1, <1>6

\* The pairs that are saved are of peers and addresses, at the present time.
LEMMA WithTimes ==
  ASSUME now \in Nat, NEW C, Times(C), NEW pairs \in SUBSET (Peer \X Raw)
  PROVE  Times(With(C, pairs))
  BY DEF Times, With

\* The pairs the task collects.
LEMMA CollectFacts ==
  ASSUME Shapes
  PROVE  Collect \in SUBSET (Peer \X Raw)
  BY AddressesAssumption DEF Shapes, Collect

-----------------------------------------------------------------------------
\* Before its first start a daemon knows nothing.
LEMMA InitInv == Init => IInv
<1> SUFFICES ASSUME Init PROVE IInv
  OBVIOUS
<1>1. MaxTime \in Nat /\ now = 0
  BY AddressesAssumption DEF Init
<1>2. Shapes
  <2>1. now \in 0..MaxTime
    BY <1>1
  <2>2. conns \subseteq Conns /\ synced \subseteq Peer \X Raw /\ up \in BOOLEAN
    BY DEF Init
  <2>3. config \in [Peer -> SUBSET Raw]
    BY DEF Init
  <2> QED
    BY <2>1, <2>2, <2>3 DEF Shapes
<1>3. Sound(records) /\ Forgotten
  BY DEF Init, Sound, Forgotten
<1>4. cache \in [{} -> Nat] /\ DOMAIN cache = {} /\ cache \in [{} -> 0..now]
  BY DEF Init
<1>5. Times(cache) /\ file # Torn
  <2>1. {} \in SUBSET (Peer \X Raw) /\ cache \in [DOMAIN cache -> 0..now]
    BY <1>4
  <2>2. file # Torn
    BY <1>4, <2>1, AddressesAssumption DEF Init
  <2> QED
    BY <1>4, <2>1, <2>2 DEF Times
<1> QED
  BY <1>2, <1>3, <1>5 DEF Init, IInv, FileInv

\* Every step of the daemon, of its peers and of the user keeps the invariant.
LEMMA NextInv == IInv /\ [Next]_vars => IInv'
<1> SUFFICES ASSUME IInv, [Next]_vars PROVE IInv'
  OBVIOUS
<1>1. now \in Nat /\ MaxTime \in Nat
  BY AddressesAssumption DEF IInv, Shapes
<1>2. CASE UNCHANGED vars
  <2>1. UNCHANGED <<now, up, config, records, conns, cache, file, synced>>
    BY <1>2 DEF vars, known, saved
  <2> QED
    BY <2>1 DEF IInv, Shapes, Sound, Times, FileInv, Forgotten
<1>3. ASSUME NEW p \in Peer, NEW a \in Raw,
             Discovered(p, {a}) \/ ServiceResolved(p, {a}) \/ Identified(p, {a}) \/ MdnsExpired(p, a)
      PROVE  IInv'
  <2>1. UNCHANGED <<now, up, config, conns, cache, file, synced>> /\ up
    BY <1>3 DEF Discovered, ServiceResolved, Identified, MdnsExpired, saved
  <2>2. PICK R : Sound(R) /\ records' = R
    <3>1. records' \in {Observed(records, p, {a}, "mdns"), Observed(records, p, {a}, "identify"),
                        Expired(records, p, a)}
      BY <1>3 DEF Discovered, ServiceResolved, Identified, MdnsExpired
    <3>2. "mdns" \in Sources /\ "identify" \in Sources
      BY DEF Sources
    <3> QED
      BY <1>1, <3>1, <3>2, ObservedSound, ExpiredSound DEF IInv
  <2> QED
    BY <2>1, <2>2 DEF IInv, Shapes, Sound, Times, FileInv, Forgotten
<1>4. ASSUME NEW p \in Peer, NEW A \in Configs, Configure(p, A)
      PROVE  IInv'
  <2>1. UNCHANGED <<now, up, conns, cache, file, synced>> /\ up
    BY <1>4 DEF Configure, saved
  <2>2. config' \in [Peer -> SUBSET Raw]
    BY <1>4, AddressesAssumption DEF Configure, IInv, Shapes
  <2>3. PICK R : Sound(R) /\ records' = R
    BY <1>1, <1>4, ObservedSound DEF Configure, IInv, Sources
  <2> QED
    BY <2>1, <2>2, <2>3 DEF IInv, Shapes, Sound, Times, FileInv, Forgotten
<1>5. ASSUME NEW c \in Conns, Open(c) \/ Close(c)
      PROVE  IInv'
  <2>1. UNCHANGED <<now, up, config, records, cache, file, synced>>
    BY <1>5 DEF Open, Close, known, saved
  <2>2. conns' \subseteq Conns
    BY <1>5 DEF Open, Close, IInv, Shapes
  <2> QED
    BY <2>1, <2>2 DEF IInv, Shapes, Sound, Times, FileInv, Forgotten
<1>6. ASSUME NEW P \in SUBSET Peer, Sync(P)
      PROVE  IInv'
  <2>1. UNCHANGED <<now, up, config, records, conns>> /\ up /\ synced' = Collect
    BY <1>6 DEF Sync, known
  <2>2. Shapes'
    BY <2>1, CollectFacts DEF IInv, Shapes
  <2>3. PICK ok \in SUBSET (Peer \X Raw) :
          cache' = With(cache, ok) /\ file' \in {IF ok = {} THEN file ELSE cache', Torn}
    <3>1. OfPeers(Collect \ synced, Peer \ P) \in SUBSET (Peer \X Raw)
      BY CollectFacts DEF IInv, OfPeers
    <3> QED
      BY <1>6, <3>1 DEF Sync
  <2>4. PICK C : Times(C) /\ cache' = C
    BY <1>1, <2>3, WithTimes DEF IInv
  <2>5. Times(cache)'
    BY <2>1, <2>4 DEF Times
  <2>6. FileInv'
    <3>1. cache = [k \in DOMAIN cache |-> cache[k]]
      BY DEF IInv, Times
    <3>2. ok = {} => cache' = cache
      BY <2>3, <3>1 DEF With
    <3>3. file' \in {cache', Torn}
      BY <2>1, <2>3, <3>2 DEF IInv, FileInv
    <3> QED
      BY <2>5, <3>3 DEF FileInv, Times
  <2>7. Sound(records)' /\ Forgotten'
    BY <2>1 DEF IInv, Sound, Forgotten
  <2> QED
    BY <2>2, <2>5, <2>6, <2>7 DEF IInv
<1>7. CASE SyncNothing
  <2>1. UNCHANGED <<now, up, config, records, conns, cache, file>> /\ synced' = Collect
    BY <1>7 DEF SyncNothing, known
  <2>2. Shapes'
    BY <2>1, CollectFacts DEF IInv, Shapes
  <2> QED
    BY <2>1, <2>2 DEF IInv, Sound, Times, FileInv, Forgotten
<1>8. CASE Stop \/ CrashInSave
  <2>1. UNCHANGED <<now, config>> /\ Down
    BY <1>8 DEF Stop, CrashInSave
  <2>2. Shapes'
    BY <2>1 DEF IInv, Shapes, Down
  <2>3. Sound(records)' /\ Forgotten'
    BY <2>1 DEF Down, Sound, Forgotten
  <2>4. DOMAIN cache' = {} /\ cache' \in [{} -> 0..now']
    BY <2>1 DEF Down
  <2>5. Times(cache)'
    BY <2>4 DEF Times
  <2>6. file' # Torn => Times(file')
    <3>1. CASE file' \in {file, Torn}
      BY <3>1 DEF IInv, FileInv
    <3>2. ASSUME NEW P \in SUBSET Peer, file' = With(cache, OfPeers(Collect \ synced, P))
          PROVE  Times(file')
      <4>1. PICK pairs \in SUBSET (Peer \X Raw) : pairs = OfPeers(Collect \ synced, P)
        BY CollectFacts DEF IInv, OfPeers
      <4>2. Times(With(cache, pairs))
        BY <1>1, WithTimes DEF IInv
      <4> QED
        BY <3>2, <4>1, <4>2
    <3> QED
      BY <1>8, <3>1, <3>2 DEF Stop, CrashInSave
  <2>7. FileInv'
    BY <2>1, <2>6 DEF FileInv, Down, Times
  <2> QED
    BY <2>2, <2>3, <2>5, <2>7 DEF IInv
<1>9. CASE Start
  <2>1. UNCHANGED <<now, config, conns, file, synced>> /\ up' = TRUE /\ file # Torn /\ cache' = file
    BY <1>9 DEF Start
  <2>2. Shapes' /\ Times(cache)' /\ FileInv' /\ Forgotten'
    BY <2>1 DEF IInv, Shapes, Times, FileInv, Forgotten
  <2>3. PICK R : Sound(R) /\ records' = R
    BY <1>1, <1>9, HydratedSound, RestoredSound DEF Start, IInv, FileInv
  <2> QED
    BY <2>1, <2>2, <2>3 DEF IInv, Sound
<1>10. CASE Tick
  <2>1. UNCHANGED <<up, config, records, conns, cache, file, synced>> /\ now < MaxTime /\ now' = now + 1
    BY <1>10 DEF Tick, known, saved
  <2>2. Shapes' /\ Forgotten'
    BY <1>1, <2>1 DEF IInv, Shapes, Forgotten
  <2>3. \A C : Times(C) => Times(C)'
    <3>1. 0..now \subseteq 0..now'
      BY <1>1, <2>1
    <3> QED
      BY <3>1 DEF Times
  <2>4. Times(cache)' /\ FileInv'
    BY <2>1, <2>3 DEF IInv, FileInv, Times
  <2>5. Sound(records)'
    <3>1. \A n \in Nat : n <= now => n <= now'
      BY <1>1, <2>1
    <3>2. \A r \in RecordType : r.last \in Nat
      BY DEF RecordType
    <3> QED
      BY <2>1, <3>1, <3>2 DEF IInv, Sound
  <2> QED
    BY <2>2, <2>4, <2>5 DEF IInv
<1> QED
  BY <1>2, <1>3, <1>4, <1>5, <1>6, <1>7, <1>8, <1>9, <1>10 DEF Next

\* The inductive invariant of the addresses.
THEOREM Inductive == Spec => []IInv
  BY InitInv, NextInv, PTL DEF Spec

\* Records, connections, the cache and, where it parses, its file have their
\* types.
THEOREM TypeCorrect == Spec => []TypeOK
<1>1. IInv => TypeOK
  <2> SUFFICES ASSUME IInv PROVE TypeOK
    OBVIOUS
  <2>1. now \in Nat
    BY AddressesAssumption DEF IInv, Shapes
  <2>2. \A k \in Peer \X Normal :
          records[k] # NoRecord => records[k].source \in Sources /\ records[k].last \in 0..now
    BY <2>1 DEF IInv, Sound, RecordType
  <2> QED
    BY <2>2 DEF IInv, Shapes, Times, FileInv, TypeOK
<1> QED
  BY <1>1, Inductive, PTL

\* An address that the user did not give counts as fresh only if it was seen
\* within its window (record_peer_addresses_at, restore_peer_address_record):
\* neither restarts nor merged sources make it younger.
THEOREM FreshnessHonest == Spec => []HonestFreshness
<1>1. IInv => HonestFreshness
  <2> SUFFICES ASSUME IInv, NEW p \in Peer, NEW n \in Normal,
                      records[<<p, n>>] # NoRecord, records[<<p, n>>].source # "device-config",
                      Freshness(n, records[<<p, n>>]) = "fresh"
               PROVE  now - records[<<p, n>>].seen <= FreshFor[Kind(n)]
    BY DEF HonestFreshness
  <2>1. PICK r : r = records[<<p, n>>]
    OBVIOUS
  <2>2. r.last <= now /\ r.seen = r.last
    BY <2>1 DEF IInv, Sound
  <2>3. Age(r) = now - r.last
    BY <2>2 DEF Age
  <2>4. Age(r) <= FreshFor[Kind(n)]
    BY <2>1 DEF Freshness
  <2> QED
    BY <2>1, <2>2, <2>3, <2>4
<1> QED
  BY <1>1, Inductive, PTL

\* A daemon that starts has an address in its dial plan for every peer with a
\* direct address in devices.toml or in the cache (hydration in daemon.rs),
\* however long it was down.
THEOREM StartKnows == Spec => KnownAfterStart
<1>1. ASSUME IInv, Start, NEW p \in Peer, NEW a \in Raw,
             {n \in Normalize(a, a \in config[p]) : Direct(n)} # {},
             a \in config[p] \/ <<p, a>> \in DOMAIN file
      PROVE  DialSet(p)' # {}
  <2>1. PICK n \in Normalize(a, a \in config[p]) : Direct(n)
    BY <1>1
  <2>2. n \in Normal
    BY <2>1, AddressesAssumption DEF Normalize, Normal, Multiaddr
  <2>3. PICK k \in Peer \X Normal : k = <<p, n>>
    BY <2>2
  <2>4. PICK H : H = HydrateDevices(records)
    OBVIOUS
  <2>5. /\ now \in Nat /\ Times(file) /\ records' = Restored(H, file)
        /\ H[k] \in {NoRecord, Record("device-config", now, 0)}
    <3>1. now \in Nat /\ Times(file)
      BY <1>1, AddressesAssumption DEF IInv, Shapes, FileInv, Start
    <3>2. records' = Restored(H, file) /\ records = [l \in Peer \X Normal |-> NoRecord]
      BY <1>1, <2>4 DEF IInv, Forgotten, Start
    <3>3. H[k] \in {NoRecord, Record("device-config", now, 0)}
      BY <2>4, <3>2 DEF HydrateDevices
    <3> QED
      BY <3>1, <3>2, <3>3
  <2>6. records'[k] # NoRecord /\ ~ records'[k].expired
    <3>1. ASSUME NEW source \in Sources, NEW t \in Nat, NEW u \in Nat
          PROVE  Record(source, t, u) # NoRecord /\ ~ Record(source, t, u).expired
      <4>1. Record(source, t, u) \in RecordType /\ Record(source, t, u).expired = FALSE
        BY DEF Record, RecordType
      <4> QED
        BY <4>1, AddressesAssumption
    <3>2. CASE H[k] = Record("device-config", now, 0)
      <4>1. \/ records'[k] = H[k]
            \/ \E t \in Nat : records'[k] = Record("direct-cache", t, t)
        <5>1. CASE Hits(file, k) = {}
          BY <2>5, <5>1 DEF Restored, Hits
        <5>2. CASE Hits(file, k) # {}
          BY <2>5, <5>2, RestoredFacts
        <5> QED
          BY <5>1, <5>2
      <4> QED
        BY <2>5, <3>1, <3>2, <4>1 DEF Sources
    <3>3. CASE H[k] = NoRecord
      <4>1. a \notin config[p]
        <5>1. a \in config[p] => H[k] = Record("device-config", now, 0)
          BY <2>1, <2>3, <2>4 DEF HydrateDevices
        <5> QED
          BY <2>5, <3>1, <3>3, <5>1 DEF Sources
      <4>2. <<p, a>> \in Hits(file, k)
        <5>1. <<p, a>> \in DOMAIN file
          BY <1>1, <4>1
        <5>2. n \in Normalize(a, FALSE)
          BY <2>1, <4>1 DEF Normalize
        <5>3. PICK c \in DOMAIN file : c = <<p, a>>
          BY <5>1
        <5>4. c[1] = k[1] /\ k[2] \in Normalize(c[2], FALSE)
          BY <2>3, <5>2, <5>3
        <5> QED
          BY <5>3, <5>4 DEF Hits
      <4>3. \E t \in Nat : records'[k] = Record("direct-cache", t, t)
        BY <2>5, <3>3, <4>2, RestoredFacts
      <4> QED
        BY <3>1, <4>3 DEF Sources
    <3> QED
      BY <2>5, <3>2, <3>3
  <2>7. Freshness(n, records[k])' \in {"fresh", "aging", "stale"}
    BY <2>6 DEF Freshness
  <2> QED
    BY <2>1, <2>2, <2>3, <2>6, <2>7 DEF DialSet, Candidates
<1>2. ASSUME IInv, [Next]_vars, ~up, up'
      PROVE  Start
  BY <1>2 DEF Next, vars, Discovered, ServiceResolved, Identified, MdnsExpired, Configure, Open, Close,
              Sync, SyncNothing, Stop, CrashInSave, Down, Tick
<1>3. IInv /\ [Next]_vars =>
        [(~up /\ up') =>
           \A p \in Peer, a \in Raw :
             LET ns == {n \in Normalize(a, a \in config[p]) : Direct(n)} IN
             (ns # {} /\ (a \in config[p] \/ <<p, a>> \in DOMAIN file)) => DialSet(p)' # {}]_vars
  BY <1>1, <1>2
<1> QED
  BY <1>3, Inductive, PTL DEF Spec, KnownAfterStart

=============================================================================
