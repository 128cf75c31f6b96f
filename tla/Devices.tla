------------------------------ MODULE Devices ------------------------------
(***************************************************************************)
(* The directory of devices and the devices trusted for incoming access:   *)
(* the commands of the CLI (fungi/src/commands/fungi_control), each one or *)
(* two requests to the daemon, the daemon's two policies in memory, and    *)
(* the files they are kept in (crates/config).                             *)
(*                                                                         *)
(* A command reads devices.toml itself to resolve a name, then asks the    *)
(* daemon for the device and sends the edited device back: nothing ties    *)
(* the three steps together.  A file is written in place, so a save that   *)
(* fails may leave the old file, an empty one or one that does not parse.  *)
(***************************************************************************)
EXTENDS Naturals, FiniteSets

CONSTANTS
  Peer,        \* remote devices
  Name,        \* names as typed, without surrounding blanks
  Key,         \* [Name -> lower case names]
  Reserved,    \* the lower case name of the local device
  Addr,        \* multiaddrs a user gives to a device
  Client,      \* concurrent callers
  MaxCommands, MaxFaults, MaxRestarts,
  NoDevice, Torn

Kept == {"snapshot", "access"}
Ops == {"add", "rename", "address_add", "address_remove", "remove", "trust", "untrust", "attach"}

Device == [name : Name, addrs : SUBSET Addr]
Directory == [Peer -> Device \cup {NoDevice}]
NoDevices == [p \in Peer |-> NoDevice]

ASSUME DevicesAssumption ==
  /\ DOMAIN Key = Name
  /\ NoDevice \notin Device /\ Torn \notin Directory
  /\ {MaxCommands, MaxFaults, MaxRestarts} \subseteq Nat

VARIABLES
  devices,      \* DevicesConfig in memory
  devicesFile,  \* devices.toml
  trusted,      \* TrustedDevicesConfig in memory
  trustedFile,  \* trusted_devices.toml
  allowed,      \* incoming_allowed_peers, what the swarm asks
  dialable,     \* [Peer -> SUBSET Addr]: address records with the source device-config
  kept,         \* [Peer -> SUBSET Kept]: what the other stores hold about a device
  task,         \* [Client -> ...]: the command each caller is in
  commands, faults, restarts,
  raced,        \* history: peers whose authorize and revoke have overlapped
  gone,         \* history: peers removed with success and left alone since
  shaky         \* history: files whose last save has failed

policy == <<trusted, trustedFile, allowed>>
directory == <<devices, devicesFile>>
vars == <<directory, policy, dialable, kept, task, commands, faults, restarts, raced, gone, shaky>>

Idle == [pc |-> "idle", op |-> "none", peer |-> NoDevice, name |-> NoDevice, addrs |-> {}, info |-> NoDevice,
         alone |-> TRUE]   \* alone (history): no other command on the device has overlapped
Pcs == {"idle", "get", "update", "record", "remove", "snapshot", "forget", "trust", "allow", "untrust",
        "disallow", "keep"}

TypeOK ==
  /\ devices \in Directory /\ devicesFile \in Directory \cup {Torn}
  /\ trusted \subseteq Peer /\ (trustedFile = Torn \/ trustedFile \subseteq Peer)
  /\ allowed \subseteq Peer
  /\ dialable \in [Peer -> SUBSET Addr] /\ kept \in [Peer -> SUBSET Kept]
  /\ \A c \in Client : task[c].pc \in Pcs /\ task[c].op \in Ops \cup {"none"}
  /\ raced \subseteq Peer /\ gone \subseteq Peer /\ shaky \subseteq {"devices", "trusted"}

-----------------------------------------------------------------------------
(* Names *)

ValidName(n) == Key[n] # Reserved

NameExistsExactly(d, n, except) == \E p \in Peer \ {except} : d[p] # NoDevice /\ d[p].name = n
NameExists(d, n, except) == \E p \in Peer \ {except} : d[p] # NoDevice /\ Key[d[p].name] = Key[n]

\* The first of the devices with the name, of which there is at most one.
ByName(d, n) == {p \in Peer : d[p] # NoDevice /\ Key[d[p].name] = Key[n]}

-----------------------------------------------------------------------------
(* Saving *)

Fault == faults < MaxFaults /\ faults' = faults + 1

SaveDevices(d) == devices' = d /\ devicesFile' = d /\ shaky' = shaky \ {"devices"} /\ UNCHANGED faults
SaveDevicesFails ==
  /\ Fault
  /\ devicesFile' \in {devicesFile, NoDevices, Torn}
  /\ shaky' = shaky \cup {"devices"}
  /\ UNCHANGED devices

SaveTrusted(s) == trusted' = s /\ trustedFile' = s /\ shaky' = shaky \ {"trusted"} /\ UNCHANGED faults
SaveTrustedFails ==
  /\ Fault
  /\ trustedFile' \in {trustedFile, {}, Torn}
  /\ shaky' = shaky \cup {"trusted"}
  /\ UNCHANGED trusted

-----------------------------------------------------------------------------
(* The first step of a command: its arguments, resolved against the file *)

Goto(c, pc) == task' = [task EXCEPT ![c].pc = pc]
Return(c) == task' = [task EXCEPT ![c] = Idle]

Changing(p) == {c \in Client : task[c].pc # "idle" /\ task[c].peer = p}

Begin(c, op, p, n, A, pc) ==
  /\ task[c] = Idle /\ commands < MaxCommands
  /\ task' = [d \in Client |->
                IF d = c THEN [Idle EXCEPT !.pc = pc, !.op = op, !.peer = p, !.name = n, !.addrs = A,
                                           !.alone = Changing(p) = {}]
                ELSE [task[d] EXCEPT !.alone = @ /\ d \notin Changing(p)]]
  /\ commands' = commands + 1
  /\ gone' = gone \ {p}
  /\ UNCHANGED <<directory, policy, dialable, kept, faults, restarts, raced, shaky>>

\* resolve_peer_value: a device of the file, by its identity or by its name.
Resolved(p) == devicesFile # Torn /\ devicesFile[p] # NoDevice
ResolvedBy(n, p) == devicesFile # Torn /\ p \in ByName(devicesFile, n)
Target(p) == Resolved(p) \/ \E n \in Name : ResolvedBy(n, p)

Add(c, n, p, A) == ValidName(n) /\ Begin(c, "add", p, n, A, "get")
\* An identity is taken as it is, a name is resolved.
Rename(c, p, n) == ValidName(n) /\ Begin(c, "rename", p, n, {}, "get")
AddressAdd(c, p, a) == Target(p) /\ Begin(c, "address_add", p, NoDevice, {a}, "get")
AddressRemove(c, p, a) == Target(p) /\ Begin(c, "address_remove", p, NoDevice, {a}, "get")
Remove(c, p) == Target(p) /\ Begin(c, "remove", p, NoDevice, {}, "remove")
\* Between resolving and asking the daemon the user confirms.
Trust(c, p) == Target(p) /\ Begin(c, "trust", p, NoDevice, {}, "trust")
Untrust(c, p) == Target(p) /\ Begin(c, "untrust", p, NoDevice, {}, "untrust")
\* A command that lists the services of the device and attaches one.
Attach(c, p) == Target(p) /\ Begin(c, "attach", p, NoDevice, {}, "keep")

-----------------------------------------------------------------------------
(* Requests about the directory *)

\* What a command sends back, given the device it was told of; none where it gives up.
Edited(t, d) ==
  CASE t.op = "add" /\ d = NoDevice -> {[name |-> t.name, addrs |-> t.addrs]}
    [] t.op = "add" /\ d # NoDevice -> {[name |-> t.name, addrs |-> d.addrs \cup t.addrs]}
    [] t.op = "rename" -> IF d = NoDevice THEN {} ELSE {[d EXCEPT !.name = t.name]}
    [] t.op = "address_add" -> IF d = NoDevice THEN {} ELSE {[d EXCEPT !.addrs = @ \cup t.addrs]}
    [] t.op = "address_remove" ->
         IF d = NoDevice \/ ~t.addrs \subseteq d.addrs THEN {} ELSE {[d EXCEPT !.addrs = @ \ t.addrs]}

GetDevice(c) ==
  /\ task[c].pc = "get"
  /\ LET sent == Edited(task[c], devices[task[c].peer])
     IN  \/ \E d \in sent : task' = [task EXCEPT ![c].pc = "update", ![c].info = d]
         \/ sent = {} /\ Return(c)
  /\ UNCHANGED <<directory, policy, dialable, kept, commands, faults, restarts, raced, gone, shaky>>

\* update_from keeps an old name only where the new one is missing, which is refused.
AddOrUpdate(d, p, info) == [d EXCEPT ![p] = info]
AddOrUpdateRefused(d, p, info) == ~ValidName(info.name) \/ NameExists(d, info.name, p)

UpdateDevice(c) ==
  LET p == task[c].peer  info == task[c].info IN
  /\ task[c].pc = "update"
  /\ \/ AddOrUpdateRefused(devices, p, info) /\ Return(c) /\ UNCHANGED <<directory, shaky, faults>>
     \/ ~AddOrUpdateRefused(devices, p, info) /\ SaveDevices(AddOrUpdate(devices, p, info)) /\ Goto(c, "record")
     \/ ~AddOrUpdateRefused(devices, p, info) /\ SaveDevicesFails /\ Return(c)
  /\ UNCHANGED <<policy, dialable, kept, commands, restarts, raced, gone>>

RecordNothing(c) ==
  /\ task[c].pc = "record" /\ Return(c)
  /\ UNCHANGED <<directory, policy, dialable, kept, commands, faults, restarts, raced, gone, shaky>>
\* record_device_addresses, after the lock of the directory is released.
Record(c) ==
  /\ task[c].pc = "record"
  /\ dialable' = [dialable EXCEPT ![task[c].peer] = @ \cup task[c].info.addrs]
  /\ Return(c)
  /\ UNCHANGED <<directory, policy, kept, commands, faults, restarts, raced, gone, shaky>>

-----------------------------------------------------------------------------
(* devices_remove: the directory, the snapshot, the accesses, then the trust *)

RemoveDevice(c) ==
  /\ task[c].pc = "remove"
  /\ \/ SaveDevices([devices EXCEPT ![task[c].peer] = NoDevice]) /\ Goto(c, "snapshot")
     \/ SaveDevicesFails /\ Return(c)
  /\ UNCHANGED <<policy, dialable, kept, commands, restarts, raced, gone>>

\* One of the two stores that hold something about a device drops it, or fails to.
Drop(c, what, pc) ==
  /\ \/ Goto(c, pc) /\ kept' = [kept EXCEPT ![task[c].peer] = @ \ {what}] /\ UNCHANGED faults
     \/ Fault /\ Return(c) /\ UNCHANGED kept
  /\ UNCHANGED <<directory, policy, dialable, commands, restarts, raced, gone, shaky>>

RemoveSnapshotIgnoringError(c) ==
  /\ task[c].pc = "snapshot"
  /\ Goto(c, "forget")
  /\ \/ kept' = [kept EXCEPT ![task[c].peer] = @ \ {"snapshot"}] /\ UNCHANGED faults
     \/ Fault /\ UNCHANGED kept
  /\ UNCHANGED <<directory, policy, dialable, commands, restarts, raced, gone, shaky>>
RemoveSnapshot(c) == task[c].pc = "snapshot" /\ Drop(c, "snapshot", "forget")
ForgetDevice(c) == task[c].pc = "forget" /\ Drop(c, "access", "untrust")

-----------------------------------------------------------------------------
(* InboundAccessPolicy: the file under the lock, the allow list after it *)

Overlaps(c) ==
  \E b \in Changing(task[c].peer) \ {c} :
    task[b].pc \in (IF task[c].pc = "trust" THEN {"disallow"} ELSE {"allow"})

NoteRace(c) == raced' = IF Overlaps(c) THEN raced \cup {task[c].peer} ELSE raced

AuthorizeStep(c) ==
  /\ task[c].pc = "trust"
  /\ \/ /\ task[c].peer \in trusted /\ Goto(c, "allow")
        /\ UNCHANGED <<trusted, trustedFile, shaky, faults>>
     \/ task[c].peer \notin trusted /\ SaveTrusted(trusted \cup {task[c].peer}) /\ Goto(c, "allow")
     \/ task[c].peer \notin trusted /\ SaveTrustedFails /\ Return(c)
  /\ NoteRace(c)
  /\ UNCHANGED <<directory, allowed, dialable, kept, commands, restarts, gone>>

Allow(c) ==
  /\ task[c].pc = "allow"
  /\ allowed' = allowed \cup {task[c].peer}
  /\ Return(c)
  /\ UNCHANGED <<directory, trusted, trustedFile, dialable, kept, commands, faults, restarts, raced, gone,
                 shaky>>

RevokeIgnoringError(c) ==
  /\ task[c].pc = "untrust"
  /\ \/ SaveTrusted(trusted \ {task[c].peer}) /\ Goto(c, "disallow")
     \/ SaveTrustedFails /\ Goto(c, "disallow")
  /\ NoteRace(c)
  /\ UNCHANGED <<directory, allowed, dialable, kept, commands, restarts, gone>>
RevokeStep(c) ==
  /\ task[c].pc = "untrust"
  /\ \/ SaveTrusted(trusted \ {task[c].peer}) /\ Goto(c, "disallow")
     \/ SaveTrustedFails /\ Return(c)
  /\ NoteRace(c)
  /\ UNCHANGED <<directory, allowed, dialable, kept, commands, restarts, gone>>

\* The end of untrust and of remove.
Disallow(c) ==
  LET p == task[c].peer IN
  /\ task[c].pc = "disallow"
  /\ allowed' = allowed \ {p}
  /\ gone' = IF task[c].op = "remove" /\ task[c].alone THEN gone \cup {p} ELSE gone
  /\ Return(c)
  /\ UNCHANGED <<directory, trusted, trustedFile, dialable, kept, commands, faults, restarts, raced, shaky>>

-----------------------------------------------------------------------------
(* The rest of the daemon *)

\* The refresh has stored a snapshot and the attach an access.
Keep(c) ==
  /\ task[c].pc = "keep"
  /\ kept' = [kept EXCEPT ![task[c].peer] = Kept]
  /\ Return(c)
  /\ UNCHANGED <<directory, policy, dialable, commands, faults, restarts, raced, gone, shaky>>

\* FungiDaemon::start on what the files hold; it does not start on one that does not parse.
Load(d) == [p \in Peer |-> IF d[p] = NoDevice THEN {} ELSE d[p].addrs]
Restart ==
  /\ restarts < MaxRestarts /\ restarts' = restarts + 1
  /\ devicesFile # Torn /\ trustedFile # Torn
  /\ devices' = devicesFile /\ trusted' = trustedFile /\ allowed' = trustedFile
  /\ dialable' = Load(devicesFile)
  /\ task' = [c \in Client |-> Idle]
  /\ raced' = {} /\ gone' = {} /\ shaky' = {}
  /\ UNCHANGED <<devicesFile, trustedFile, kept, commands, faults>>

Init ==
  /\ devicesFile = NoDevices /\ devices = devicesFile
  /\ trustedFile = {} /\ trusted = trustedFile /\ allowed = trusted
  /\ dialable = Load(devices) /\ kept = [p \in Peer |-> {}]
  /\ task = [c \in Client |-> Idle]
  /\ commands = 0 /\ faults = 0 /\ restarts = 0
  /\ raced = {} /\ gone = {} /\ shaky = {}

Next ==
  \/ \E c \in Client, p \in Peer, n \in Name :
       \/ \E A \in SUBSET Addr : Add(c, n, p, A)
       \/ Rename(c, p, n)
  \/ \E c \in Client, p \in Peer, a \in Addr : AddressAdd(c, p, a) \/ AddressRemove(c, p, a)
  \/ \E c \in Client, p \in Peer : Remove(c, p) \/ Trust(c, p) \/ Untrust(c, p) \/ Attach(c, p)
  \/ \E c \in Client : GetDevice(c) \/ UpdateDevice(c) \/ Record(c)
  \/ \E c \in Client : RemoveDevice(c) \/ RemoveSnapshot(c) \/ ForgetDevice(c)
  \/ \E c \in Client : AuthorizeStep(c) \/ Allow(c) \/ RevokeStep(c) \/ Disallow(c) \/ Keep(c)
  \/ Restart

Spec == Init /\ [][Next]_vars

-----------------------------------------------------------------------------
(* Properties *)

\* A name leads to one device, however it is spelt (name_exists and
\* get_device_by_name lower the case): also with two commands that edit two
\* devices at once, and after a restart on the file.
NamesUnique ==
  /\ \A n \in Name : Cardinality(ByName(devices, n)) <= 1
  /\ devicesFile # Torn => \A n \in Name : Cardinality(ByName(devicesFile, n)) <= 1

\* What the swarm asks agrees with what is trusted on disk whenever no request
\* about the peer is under way: authorize and revoke that fail to save change
\* nothing.  Two overlapping requests may leave file and swarm different.
TrustAgrees ==
  \A p \in Peer :
    (Changing(p) = {} /\ p \notin raced) =>
      /\ p \in allowed <=> p \in trusted
      /\ "trusted" \notin shaky => (p \in allowed <=> p \in trustedFile)

\* devices_remove has four parts and each can fail: where it answers with
\* success, and nobody has touched the device since, nothing of it is left,
\* in memory or in a file whose last save has succeeded.
RemovedIsGone ==
  \A p \in gone :
    /\ devices[p] = NoDevice /\ kept[p] = {}
    /\ "devices" \notin shaky => devicesFile[p] = NoDevice
    /\ p \notin allowed \cup trusted
    /\ "trusted" \notin shaky => p \notin trustedFile

\* The addresses the user gave to a device are known to the dialer when the
\* command that gave them is over.
AddressesDialable ==
  \A p \in Peer :
    (Changing(p) = {} /\ devices[p] # NoDevice) => devices[p].addrs \subseteq dialable[p]

=============================================================================
