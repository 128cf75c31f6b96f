---------------------------- MODULE DevicesProofs ----------------------------
(***************************************************************************)
(* The directory and the trusted devices for any number of devices, names, *)
(* addresses and callers and any number of commands, failed saves and      *)
(* restarts: a name leads to one device, what the swarm asks agrees with   *)
(* what is trusted, a removed device is gone, and the addresses given to a *)
(* device are known to the dialer.                                         *)
(***************************************************************************)
EXTENDS Devices, FiniteSetTheorems, TLAPS

Tasks ==
  [pc : Pcs, op : Ops \cup {"none"}, peer : Peer \cup {NoDevice}, name : Name \cup {NoDevice},
   addrs : SUBSET Addr, info : Device \cup {NoDevice}, alone : BOOLEAN]

Types ==
  /\ devices \in Directory /\ devicesFile \in Directory \cup {Torn}
  /\ trusted \subseteq Peer /\ (trustedFile = Torn \/ trustedFile \subseteq Peer)
  /\ allowed \subseteq Peer
  /\ dialable \in [Peer -> SUBSET Addr] /\ kept \in [Peer -> SUBSET Kept]
  /\ task \in [Client -> Tasks]
  /\ raced \subseteq Peer /\ gone \subseteq Peer /\ shaky \subseteq {"devices", "trusted"}

Active(t) == t.pc # "idle"

\* A command has what its next request needs.
Equipped(t) ==
  /\ Active(t) => t.peer \in Peer
  /\ t.op \in {"add", "rename"} => t.name \in Name
  /\ t.pc = "get" => t.op \in {"add", "rename", "address_add", "address_remove"}
  /\ t.pc \in {"update", "record"} => t.info \in Device

CommandInv ==
  /\ \A c \in Client : Equipped(task[c])
  /\ \A b, c \in Client :
       Active(task[b]) /\ Active(task[c]) /\ task[b].peer = task[c].peer /\ task[c].alone => b = c

\* A file whose last save has succeeded is what is in memory.
FilesInv ==
  /\ "devices" \notin shaky => devicesFile = devices
  /\ "trusted" \notin shaky => trustedFile = trusted

Unique(d) ==
  \A p, q \in Peer :
    d[p] # NoDevice /\ d[q] # NoDevice /\ Key[d[p].name] = Key[d[q].name] => p = q

NamesInv == Unique(devices) /\ (devicesFile # Torn => Unique(devicesFile))

At(c, p, pc) == task[c].peer = p /\ task[c].pc = pc

\* File and swarm differ about p only between the two steps of a request.
Trusts(p) ==
  p \notin raced =>
    /\ \A c \in Client : At(c, p, "allow") => p \in trusted
    /\ \A c \in Client : At(c, p, "disallow") => p \notin trusted
    /\ p \in trusted /\ p \notin allowed => \E c \in Client : At(c, p, "allow")
    /\ p \notin trusted /\ p \in allowed => \E c \in Client : At(c, p, "disallow")

\* Nobody touches a device that is gone.
Gone(p) ==
  p \in gone =>
    /\ \A c \in Client : Active(task[c]) => task[c].peer # p
    /\ devices[p] = NoDevice /\ kept[p] = {} /\ p \notin allowed /\ p \notin trusted

\* An address of p is known to the dialer or is about to be.
Dials(p) ==
  devices[p] # NoDevice =>
    \A a \in devices[p].addrs :
      a \in dialable[p] \/ \E c \in Client : At(c, p, "record") /\ a \in task[c].info.addrs

PeerInv == \A p \in Peer : Trusts(p) /\ Gone(p) /\ Dials(p)

\* How far a removal that nobody disturbs has come.
Removes(c) ==
  task[c].op = "remove" /\ task[c].alone =>
    /\ task[c].pc \in {"snapshot", "forget", "untrust", "disallow"} => devices[task[c].peer] = NoDevice
    /\ task[c].pc \in {"forget", "untrust", "disallow"} => "snapshot" \notin kept[task[c].peer]
    /\ task[c].pc \in {"untrust", "disallow"} => kept[task[c].peer] = {}
    /\ task[c].pc = "disallow" => task[c].peer \notin trusted

RemovalInv == \A c \in Client : Removes(c)

IInv == Types /\ CommandInv /\ FilesInv /\ NamesInv /\ PeerInv /\ RemovalInv

-----------------------------------------------------------------------------
\* A client that runs no command asks for nothing.
LEMMA IdleFacts ==
  Idle \in Tasks /\ Equipped(Idle) /\ ~ Active(Idle) /\ Idle.op = "none" /\ Idle.alone = TRUE
  BY DEF Idle, Tasks, Pcs, Equipped, Active

\* A step of the command of c, which stays with its device: the other commands
\* are what they were, and two of them on one device still know that they are
\* not alone.
LEMMA CommandStep ==
  ASSUME IInv, NEW c \in Client, NEW u \in Tasks, Active(task[c]),
         task' = [task EXCEPT ![c] = u], Equipped(u),
         Active(u) => u.peer = task[c].peer /\ (u.alone => task[c].alone)
  PROVE  /\ task' \in [Client -> Tasks] /\ CommandInv'
         /\ \A b \in Client : task'[b] = IF b = c THEN u ELSE task[b]
<1>1. task' \in [Client -> Tasks] /\ \A b \in Client : task'[b] = IF b = c THEN u ELSE task[b]
  BY DEF IInv, Types
<1>2. CommandInv'
  BY <1>1 DEF IInv, CommandInv
<1> QED
  BY <1>1, <1>2

\* A step of c about p leaves the other peers, and the other calls, as they are.
OnlyAbout(p) ==
  \A q \in Peer \ {p} :
    /\ devices'[q] = devices[q] /\ kept'[q] = kept[q] /\ dialable'[q] = dialable[q]
    /\ q \in trusted' <=> q \in trusted
    /\ q \in allowed' <=> q \in allowed
    /\ q \in raced' <=> q \in raced
    /\ q \in gone' <=> q \in gone

\* A step that is only about one device keeps what the invariant says of every
\* other device and of every other command's removal.
LEMMA OthersInv ==
  ASSUME IInv, NEW c \in Client, NEW u \in Tasks, Active(task[c]),
         \A b \in Client : task'[b] = IF b = c THEN u ELSE task[b],
         Active(u) => u.peer = task[c].peer, OnlyAbout(task[c].peer)
  PROVE  /\ \A q \in Peer \ {task[c].peer} : Trusts(q)' /\ Gone(q)' /\ Dials(q)'
         /\ \A b \in Client \ {c} : Removes(b)'
<1>1. ASSUME NEW q \in Peer \ {task[c].peer} PROVE Trusts(q)' /\ Gone(q)' /\ Dials(q)'
  <2>1. Trusts(q) /\ Gone(q) /\ Dials(q)
    BY DEF IInv, PeerInv
  <2>2. \A b \in Client, pc \in {"allow", "disallow", "record"} :
          /\ At(b, q, pc)' <=> At(b, q, pc)
          /\ At(b, q, pc) => task'[b] = task[b]
    BY DEF At, Active
  <2>3. Trusts(q)'
    BY <2>1, <2>2 DEF Trusts, OnlyAbout
  <2>4. Gone(q)'
    BY <2>1 DEF Gone, OnlyAbout
  <2>5. Dials(q)'
    BY <2>1, <2>2 DEF Dials, OnlyAbout
  <2> QED
    BY <2>3, <2>4, <2>5
<1>2. ASSUME NEW b \in Client \ {c} PROVE Removes(b)'
  <2>1. Removes(b) /\ task'[b] = task[b] /\ Equipped(task[b])
    BY DEF IInv, RemovalInv, CommandInv
  <2>2. CASE ~ Active(task[b])
    BY <2>1, <2>2 DEF Removes, Active
  <2>3. CASE Active(task[b]) /\ ~ task[b].alone
    BY <2>1, <2>3 DEF Removes
  <2>4. CASE Active(task[b]) /\ task[b].alone
    <3>1. task[b].peer \in Peer \ {task[c].peer}
      BY <2>1, <2>4 DEF IInv, CommandInv, Equipped
    <3> QED
      BY <2>1, <3>1 DEF Removes, OnlyAbout
  <2> QED
    BY <2>2, <2>3, <2>4
<1> QED
  BY <1>1, <1>2

\* A step of c about p keeps the invariant if it does what is left to show of
\* p: its trust, its removal, its addresses.
LEMMA StepInv ==
  ASSUME IInv, NEW c \in Client, NEW u \in Tasks, NEW p \in Peer, Active(task[c]),
         p = task[c].peer,
         task' = [task EXCEPT ![c] = u], Equipped(u),
         Active(u) => u.peer = p /\ (u.alone => task[c].alone),
         OnlyAbout(p),
         task' \in [Client -> Tasks] => Types',
         FilesInv', NamesInv',
         (\A b \in Client : task'[b] = IF b = c THEN u ELSE task[b]) =>
            Trusts(p)' /\ Gone(p)' /\ Dials(p)' /\ Removes(c)'
  PROVE  IInv'
<1>1. /\ task' \in [Client -> Tasks] /\ CommandInv'
      /\ \A b \in Client : task'[b] = IF b = c THEN u ELSE task[b]
  BY CommandStep
<1>2. /\ \A q \in Peer \ {p} : Trusts(q)' /\ Gone(q)' /\ Dials(q)'
      /\ \A b \in Client \ {c} : Removes(b)'
  BY <1>1, OthersInv
<1>3. PeerInv' /\ RemovalInv'
  BY <1>1, <1>2 DEF PeerInv, RemovalInv
<1> QED
  BY <1>1, <1>3 DEF IInv

\* A step that is neither the start nor the end of a change of trust keeps the
\* agreement of file and allow list.
LEMMA SameTrusts ==
  ASSUME NEW p \in Peer, NEW c \in Client, NEW u, Trusts(p),
         UNCHANGED <<trusted, allowed>>, raced \subseteq raced',
         \A b \in Client : task'[b] = IF b = c THEN u ELSE task[b],
         task[c].pc \notin {"allow", "disallow"}, u.pc \notin {"allow", "disallow"}
  PROVE  Trusts(p)'
<1>1. \A b \in Client, pc \in {"allow", "disallow"} : At(b, p, pc)' <=> At(b, p, pc)
  BY DEF At
<1> QED
  BY <1>1 DEF Trusts

\* A step that leaves the directory and the dialer alone keeps the addresses
\* known to the dialer, unless it ends the record of addresses.
LEMMA SameDials ==
  ASSUME NEW p \in Peer, NEW c \in Client, NEW u, Dials(p), UNCHANGED <<devices, dialable>>,
         \A b \in Client : task'[b] = IF b = c THEN u ELSE task[b], task[c].pc # "record"
  PROVE  Dials(p)'
<1>1. \A b \in Client : At(b, p, "record") => At(b, p, "record")' /\ task'[b] = task[b]
  BY DEF At
<1> QED
  BY <1>1 DEF Dials

\* A command may give up, before or after a save that has failed, as long as it
\* has not changed one half of what belongs together.
LEMMA FailInv ==
  ASSUME IInv, NEW c \in Client, Active(task[c]),
         task[c].pc \notin {"allow", "disallow", "record"},
         Return(c), UNCHANGED <<devices, trusted, allowed, dialable, kept, gone>>,
         raced' \in {raced, raced \cup {task[c].peer}},
         devicesFile' \in Directory \cup {Torn}, trustedFile' = Torn \/ trustedFile' \subseteq Peer,
         shaky' \subseteq {"devices", "trusted"}, FilesInv', NamesInv'
  PROVE  IInv'
<1>1. PICK p \in Peer : p = task[c].peer
  BY DEF IInv, CommandInv, Equipped
<1>2. task' = [task EXCEPT ![c] = Idle] /\ OnlyAbout(p)
  BY <1>1 DEF Return, OnlyAbout
<1>3. ASSUME task' \in [Client -> Tasks] PROVE Types'
  BY <1>1, <1>3 DEF IInv, Types
<1>4. ASSUME \A b \in Client : task'[b] = IF b = c THEN Idle ELSE task[b]
      PROVE  Trusts(p)' /\ Gone(p)' /\ Dials(p)' /\ Removes(c)'
  <2>1. Trusts(p) /\ Dials(p) /\ p \notin gone
    BY <1>1 DEF IInv, PeerInv, Gone
  <2>2. Idle.pc = "idle" /\ Idle.op = "none"
    BY DEF Idle
  <2>3. Trusts(p)'
    BY <1>4, <2>1, <2>2, SameTrusts
  <2>4. Dials(p)'
    BY <1>4, <2>1, SameDials
  <2> QED
    BY <1>4, <2>1, <2>2, <2>3, <2>4 DEF Gone, Removes
<1> QED
  BY <1>1, <1>2, <1>3, <1>4, IdleFacts, StepInv

\* A command that goes on to its next request keeps its arguments.
LEMMA GotoFacts ==
  ASSUME IInv, NEW c \in Client, NEW pc \in Pcs, Goto(c, pc)
  PROVE  \E u \in Tasks :
           /\ task' = [task EXCEPT ![c] = u] /\ u.pc = pc /\ u.op = task[c].op
           /\ u.peer = task[c].peer /\ u.name = task[c].name /\ u.info = task[c].info
           /\ u.alone = task[c].alone
<1>1. PICK t \in Tasks : t = task[c]
  BY DEF IInv, Types
<1>2. PICK u : u = [t EXCEPT !.pc = pc]
  OBVIOUS
<1>3. /\ u \in Tasks /\ u.pc = pc /\ u.op = t.op /\ u.peer = t.peer /\ u.name = t.name
      /\ u.info = t.info /\ u.alone = t.alone
  BY <1>2 DEF Tasks
<1>4. task' = [task EXCEPT ![c] = u]
  BY <1>1, <1>2 DEF Goto
<1> QED
  BY <1>1, <1>3, <1>4

-----------------------------------------------------------------------------
\* What a command sends back, given the device it was told of, is a device.
LEMMA EditedFacts ==
  ASSUME NEW t \in Tasks, Equipped(t), t.pc = "get", NEW d \in Device \cup {NoDevice},
         NEW e \in Edited(t, d)
  PROVE  e \in Device
<1>1. t.addrs \subseteq Addr /\ t.op \in {"add", "rename", "address_add", "address_remove"}
      /\ (t.op \in {"add", "rename"} => t.name \in Name)
  BY DEF Tasks, Equipped
<1>2. CASE d = NoDevice
  BY <1>1, <1>2 DEF Edited, Device
<1>3. CASE d # NoDevice
  <2>1. d \in Device
    BY <1>3
  <2>2. d.addrs \subseteq Addr /\ d.name \in Name
    BY <2>1 DEF Device
  <2>3. CASE t.op = "add"
    BY <1>1, <1>3, <2>2, <2>3 DEF Edited, Device
  <2>4. CASE t.op = "rename"
    BY <1>1, <1>3, <2>1, <2>4 DEF Edited, Device
  <2>5. CASE t.op = "address_add"
    BY <1>1, <1>3, <2>1, <2>5 DEF Edited, Device
  <2>6. CASE t.op = "address_remove"
    BY <1>1, <1>3, <2>1, <2>6 DEF Edited, Device
  <2> QED
    BY <1>1, <2>3, <2>4, <2>5, <2>6
<1> QED
  BY <1>2, <1>3

\* A command is told of its device and edits it, or gives up.
LEMMA GetDeviceInv ==
  ASSUME IInv, NEW c \in Client, GetDevice(c)
  PROVE  IInv'
<1>1. PICK t \in Tasks : t = task[c]
  BY DEF IInv, Types
<1>2. t.pc = "get" /\ Active(t) /\ Equipped(t)
  BY <1>1 DEF GetDevice, Active, IInv, CommandInv
<1>3. PICK p \in Peer : p = t.peer
  BY <1>2 DEF Equipped
<1>4. UNCHANGED <<directory, policy, dialable, kept, raced, gone, shaky>>
  BY DEF GetDevice
<1>5. UNCHANGED <<devices, devicesFile, trusted, trustedFile, allowed>>
  BY <1>4 DEF directory, policy
<1>6. FilesInv' /\ NamesInv'
  BY <1>4, <1>5 DEF IInv, FilesInv, NamesInv
<1>7. CASE Return(c)
  <2>1. /\ devicesFile' \in Directory \cup {Torn} /\ (trustedFile' = Torn \/ trustedFile' \subseteq Peer)
        /\ shaky' \subseteq {"devices", "trusted"}
    BY <1>4, <1>5 DEF IInv, Types
  <2> QED
    BY <1>1, <1>2, <1>4, <1>5, <1>6, <1>7, <2>1, FailInv
<1>8. ASSUME NEW d \in Edited(t, devices[p]), task' = [task EXCEPT ![c].pc = "update", ![c].info = d]
      PROVE  IInv'
  <2>1. devices[p] \in Device \cup {NoDevice}
    BY DEF IInv, Types, Directory
  <2>2. d \in Device
    BY <1>2, <2>1, EditedFacts
  <2>3. PICK u : u = [t EXCEPT !.pc = "update", !.info = d]
    OBVIOUS
  <2>4. /\ u \in Tasks /\ u.pc = "update" /\ u.peer = t.peer /\ u.alone = t.alone /\ u.info = d
        /\ u.op = t.op /\ u.name = t.name
    BY <2>2, <2>3 DEF Tasks, Pcs
  <2>5. Equipped(u)
    BY <1>2, <2>2, <2>4 DEF Equipped, Active
  <2>6. task' = [task EXCEPT ![c] = u]
    BY <1>1, <1>8, <2>3
  <2>7. ASSUME task' \in [Client -> Tasks] PROVE Types'
    BY <1>4, <1>5, <2>7 DEF IInv, Types
  <2>8. OnlyAbout(p)
    BY <1>4, <1>5 DEF OnlyAbout
  <2>9. ASSUME \A b \in Client : task'[b] = IF b = c THEN u ELSE task[b]
        PROVE  Trusts(p)' /\ Gone(p)' /\ Dials(p)' /\ Removes(c)'
    <3>1. Trusts(p) /\ Dials(p) /\ p \notin gone
      BY <1>1, <1>2, <1>3 DEF IInv, PeerInv, Gone
    <3>2. Trusts(p)'
      BY <1>1, <1>2, <1>4, <1>5, <2>4, <2>9, <3>1, SameTrusts
    <3>3. Dials(p)'
      BY <1>1, <1>2, <1>4, <1>5, <2>9, <3>1, SameDials
    <3> QED
      BY <1>4, <2>4, <2>9, <3>1, <3>2, <3>3 DEF Gone, Removes
  <2> QED
    BY <1>1, <1>2, <1>3, <1>6, <2>4, <2>5, <2>6, <2>7, <2>8, <2>9, StepInv
<1> QED
  BY <1>1, <1>3, <1>7, <1>8 DEF GetDevice

\* A name that the daemon does not refuse is free, so the directory has one
\* device for it after the update: add_or_update checks under the same lock
\* under which it writes, whatever the command read before.
LEMMA UniqueUpdate ==
  ASSUME NEW d \in Directory, NEW p \in Peer, NEW info \in Device, Unique(d),
         ~ AddOrUpdateRefused(d, p, info)
  PROVE  Unique(AddOrUpdate(d, p, info)) /\ AddOrUpdate(d, p, info) \in Directory
<1>1. AddOrUpdate(d, p, info) \in Directory
  BY DEF AddOrUpdate, Directory
<1>2. \A q \in Peer : AddOrUpdate(d, p, info)[q] = IF q = p THEN info ELSE d[q]
  BY DEF AddOrUpdate, Directory
<1>3. \A q \in Peer \ {p} : d[q] # NoDevice => Key[d[q].name] # Key[info.name]
  BY DEF AddOrUpdateRefused, NameExists
<1> QED
  BY <1>1, <1>2, <1>3 DEF Unique

\* A save of the directory that fails leaves the directory in memory as it was
\* and the file unchanged, empty or torn: names stay unique in both.
LEMMA SaveDevicesFailsFacts ==
  ASSUME IInv, SaveDevicesFails
  PROVE  /\ devices' = devices /\ devicesFile' \in Directory \cup {Torn}
         /\ shaky' = shaky \cup {"devices"} /\ NamesInv'
<1>1. NoDevices \in Directory /\ Unique(NoDevices)
  BY DEF NoDevices, Directory, Unique
<1> QED
  BY <1>1 DEF SaveDevicesFails, IInv, Types, NamesInv

\* The daemon accepts an edited device, refuses it, or fails to save it.
LEMMA UpdateDeviceInv ==
  ASSUME IInv, NEW c \in Client, UpdateDevice(c)
  PROVE  IInv'
<1>1. PICK t \in Tasks : t = task[c]
  BY DEF IInv, Types
<1>2. t.pc = "update" /\ Active(t) /\ Equipped(t)
  BY <1>1 DEF UpdateDevice, Active, IInv, CommandInv
<1>3. PICK p \in Peer, info \in Device : p = t.peer /\ info = t.info
  BY <1>2 DEF Equipped
<1>4. UNCHANGED <<trusted, trustedFile, allowed, dialable, kept, raced, gone>>
  BY DEF UpdateDevice, policy
<1>5. CASE Return(c) /\ UNCHANGED <<directory, shaky, faults>>
  <2>1. UNCHANGED <<devices, devicesFile, shaky>>
    BY <1>5 DEF directory
  <2>2. FilesInv' /\ NamesInv'
    BY <1>4, <2>1 DEF IInv, FilesInv, NamesInv
  <2>3. /\ devicesFile' \in Directory \cup {Torn} /\ (trustedFile' = Torn \/ trustedFile' \subseteq Peer)
        /\ shaky' \subseteq {"devices", "trusted"}
    BY <1>4, <2>1 DEF IInv, Types
  <2> QED
    BY <1>1, <1>2, <1>4, <1>5, <2>1, <2>2, <2>3, FailInv
<1>6. CASE SaveDevicesFails /\ Return(c)
  <2>1. /\ devices' = devices /\ devicesFile' \in Directory \cup {Torn}
        /\ shaky' = shaky \cup {"devices"} /\ NamesInv'
    BY <1>6, SaveDevicesFailsFacts
  <2>2. FilesInv'
    BY <1>4, <2>1 DEF IInv, FilesInv
  <2>3. /\ trustedFile' = Torn \/ trustedFile' \subseteq Peer
        /\ shaky' \subseteq {"devices", "trusted"}
    BY <1>4, <2>1 DEF IInv, Types
  <2> QED
    BY <1>1, <1>2, <1>4, <1>6, <2>1, <2>2, <2>3, FailInv
<1>7. CASE /\ ~ AddOrUpdateRefused(devices, p, info)
           /\ SaveDevices(AddOrUpdate(devices, p, info)) /\ Goto(c, "record")
  <2>1. PICK d \in Directory : d = AddOrUpdate(devices, p, info) /\ Unique(d)
    BY <1>7, UniqueUpdate DEF IInv, Types, NamesInv
  <2>2. devices' = d /\ devicesFile' = d /\ shaky' = shaky \ {"devices"}
    BY <1>7, <2>1 DEF SaveDevices
  <2>3. \A q \in Peer : d[q] = IF q = p THEN info ELSE devices[q]
    BY <2>1 DEF AddOrUpdate, IInv, Types, Directory
  <2>4. PICK u \in Tasks :
          /\ task' = [task EXCEPT ![c] = u] /\ u.pc = "record" /\ u.op = t.op
          /\ u.peer = t.peer /\ u.name = t.name /\ u.info = t.info /\ u.alone = t.alone
    BY <1>1, <1>7, GotoFacts DEF Pcs
  <2>5. Equipped(u)
    BY <1>2, <2>4 DEF Equipped, Active
  <2>6. ASSUME task' \in [Client -> Tasks] PROVE Types'
    BY <1>4, <2>2, <2>6 DEF IInv, Types
  <2>7. OnlyAbout(p)
    BY <1>4, <2>2, <2>3 DEF OnlyAbout
  <2>8. FilesInv' /\ NamesInv'
    BY <1>4, <2>1, <2>2 DEF IInv, FilesInv, NamesInv
  <2>9. ASSUME \A b \in Client : task'[b] = IF b = c THEN u ELSE task[b]
        PROVE  Trusts(p)' /\ Gone(p)' /\ Dials(p)' /\ Removes(c)'
    <3>1. Trusts(p) /\ p \notin gone
      BY <1>1, <1>2, <1>3 DEF IInv, PeerInv, Gone
    <3>2. Trusts(p)'
      BY <1>1, <1>2, <1>4, <2>4, <2>9, <3>1, SameTrusts
    <3>3. Dials(p)'
      BY <1>3, <2>2, <2>3, <2>4, <2>9 DEF Dials, At
    <3> QED
      BY <1>4, <2>4, <2>9, <3>1, <3>2, <3>3 DEF Gone, Removes
  <2> QED
    BY <1>1, <1>2, <1>3, <2>4, <2>5, <2>6, <2>7, <2>8, <2>9, StepInv
<1> QED
  BY <1>1, <1>3, <1>5, <1>6, <1>7 DEF UpdateDevice

\* The addresses of a device that was just written become known to the dialer.
LEMMA RecordInv ==
  ASSUME IInv, NEW c \in Client, Record(c)
  PROVE  IInv'
<1>1. PICK t \in Tasks : t = task[c]
  BY DEF IInv, Types
<1>2. t.pc = "record" /\ Active(t) /\ Equipped(t)
  BY <1>1 DEF Record, Active, IInv, CommandInv
<1>3. PICK p \in Peer, info \in Device : p = t.peer /\ info = t.info
  BY <1>2 DEF Equipped
<1>4. /\ UNCHANGED <<devices, devicesFile, trusted, trustedFile, allowed, kept, raced, gone, shaky>>
      /\ task' = [task EXCEPT ![c] = Idle]
  BY DEF Record, directory, policy, Return
<1>5. dialable' = [dialable EXCEPT ![p] = @ \cup info.addrs]
  BY <1>1, <1>3 DEF Record
<1>6. info.addrs \subseteq Addr
  BY DEF Device
<1>7. dialable' \in [Peer -> SUBSET Addr]
      /\ \A q \in Peer : dialable'[q] = IF q = p THEN dialable[p] \cup info.addrs ELSE dialable[q]
  BY <1>5, <1>6 DEF IInv, Types
<1>8. ASSUME task' \in [Client -> Tasks] PROVE Types'
  BY <1>4, <1>7, <1>8 DEF IInv, Types
<1>9. OnlyAbout(p)
  BY <1>4, <1>7 DEF OnlyAbout
<1>10. FilesInv' /\ NamesInv'
  BY <1>4 DEF IInv, FilesInv, NamesInv
<1>11. ASSUME \A b \in Client : task'[b] = IF b = c THEN Idle ELSE task[b]
       PROVE  Trusts(p)' /\ Gone(p)' /\ Dials(p)' /\ Removes(c)'
  <2>1. Trusts(p) /\ Dials(p) /\ p \notin gone
    BY <1>1, <1>2, <1>3 DEF IInv, PeerInv, Gone
  <2>2. Idle.pc = "idle" /\ Idle.op = "none"
    BY DEF Idle
  <2>3. Trusts(p)'
    BY <1>1, <1>2, <1>4, <1>11, <2>1, <2>2, SameTrusts
  <2>4. \A b \in Client : b # c => (At(b, p, "record") => At(b, p, "record")' /\ task'[b] = task[b])
    BY <1>11 DEF At
  <2>5. Dials(p)'
    BY <1>1, <1>3, <1>4, <1>7, <2>1, <2>4 DEF Dials
  <2> QED
    BY <1>4, <1>11, <2>1, <2>2, <2>3, <2>5 DEF Gone, Removes
<1> QED
  BY <1>1, <1>2, <1>3, <1>4, <1>8, <1>9, <1>10, <1>11, IdleFacts, StepInv

\* The first part of a removal: the device leaves the directory, or the save
\* fails and nothing else happens.
LEMMA RemoveDeviceInv ==
  ASSUME IInv, NEW c \in Client, RemoveDevice(c)
  PROVE  IInv'
<1>1. PICK t \in Tasks : t = task[c]
  BY DEF IInv, Types
<1>2. t.pc = "remove" /\ Active(t) /\ Equipped(t)
  BY <1>1 DEF RemoveDevice, Active, IInv, CommandInv
<1>3. PICK p \in Peer : p = t.peer
  BY <1>2 DEF Equipped
<1>4. UNCHANGED <<trusted, trustedFile, allowed, dialable, kept, raced, gone>>
  BY DEF RemoveDevice, policy
<1>5. CASE SaveDevicesFails /\ Return(c)
  <2>1. /\ devices' = devices /\ devicesFile' \in Directory \cup {Torn}
        /\ shaky' = shaky \cup {"devices"} /\ NamesInv'
    BY <1>5, SaveDevicesFailsFacts
  <2>2. FilesInv'
    BY <1>4, <2>1 DEF IInv, FilesInv
  <2>3. /\ trustedFile' = Torn \/ trustedFile' \subseteq Peer
        /\ shaky' \subseteq {"devices", "trusted"}
    BY <1>4, <2>1 DEF IInv, Types
  <2> QED
    BY <1>1, <1>2, <1>4, <1>5, <2>1, <2>2, <2>3, FailInv
<1>6. CASE SaveDevices([devices EXCEPT ![p] = NoDevice]) /\ Goto(c, "snapshot")
  <2>1. PICK d : d = [devices EXCEPT ![p] = NoDevice]
    OBVIOUS
  <2>2. d \in Directory /\ \A q \in Peer : d[q] = IF q = p THEN NoDevice ELSE devices[q]
    BY <2>1 DEF IInv, Types, Directory
  <2>3. devices' = d /\ devicesFile' = d /\ shaky' = shaky \ {"devices"}
    BY <1>6, <2>1 DEF SaveDevices
  <2>4. PICK u \in Tasks :
          /\ task' = [task EXCEPT ![c] = u] /\ u.pc = "snapshot" /\ u.op = t.op
          /\ u.peer = t.peer /\ u.name = t.name /\ u.info = t.info /\ u.alone = t.alone
    BY <1>1, <1>6, GotoFacts DEF Pcs
  <2>5. Equipped(u)
    BY <1>2, <2>4 DEF Equipped, Active
  <2>6. ASSUME task' \in [Client -> Tasks] PROVE Types'
    BY <1>4, <2>2, <2>3, <2>6 DEF IInv, Types
  <2>7. OnlyAbout(p)
    BY <1>4, <2>2, <2>3 DEF OnlyAbout
  <2>8. Unique(d)
    BY <2>2 DEF IInv, NamesInv, Unique
  <2>9. FilesInv' /\ NamesInv'
    BY <1>4, <2>3, <2>8 DEF IInv, FilesInv, NamesInv
  <2>10. ASSUME \A b \in Client : task'[b] = IF b = c THEN u ELSE task[b]
         PROVE  Trusts(p)' /\ Gone(p)' /\ Dials(p)' /\ Removes(c)'
    <3>1. Trusts(p) /\ p \notin gone
      BY <1>1, <1>2, <1>3 DEF IInv, PeerInv, Gone
    <3>2. Trusts(p)'
      BY <1>1, <1>2, <1>4, <2>4, <2>10, <3>1, SameTrusts
    <3>3. Dials(p)' /\ Removes(c)'
      BY <1>3, <2>2, <2>3, <2>4, <2>10 DEF Dials, Removes
    <3> QED
      BY <1>4, <3>1, <3>2, <3>3 DEF Gone
  <2> QED
    BY <1>1, <1>2, <1>3, <2>4, <2>5, <2>6, <2>7, <2>9, <2>10, StepInv
<1> QED
  BY <1>1, <1>3, <1>5, <1>6 DEF RemoveDevice

-----------------------------------------------------------------------------
\* The second or third part of a removal: a store drops what it holds about the
\* device, or fails to, and then the command ends with an error.
LEMMA DropInv ==
  ASSUME IInv, NEW c \in Client, NEW what, NEW pc, Drop(c, what, pc),
         \/ task[c].pc = "snapshot" /\ what = "snapshot" /\ pc = "forget"
         \/ task[c].pc = "forget" /\ what = "access" /\ pc = "untrust"
  PROVE  IInv'
<1>1. PICK t \in Tasks : t = task[c]
  BY DEF IInv, Types
<1>2. t.pc \in {"snapshot", "forget"} /\ Active(t) /\ Equipped(t)
  BY <1>1 DEF Active, IInv, CommandInv
<1>3. PICK p \in Peer : p = t.peer
  BY <1>2 DEF Equipped
<1>4. UNCHANGED <<devices, devicesFile, trusted, trustedFile, allowed, dialable, raced, gone, shaky>>
  BY DEF Drop, directory, policy
<1>5. FilesInv' /\ NamesInv'
  BY <1>4 DEF IInv, FilesInv, NamesInv
<1>6. CASE Return(c) /\ UNCHANGED kept
  <2>1. /\ devicesFile' \in Directory \cup {Torn} /\ (trustedFile' = Torn \/ trustedFile' \subseteq Peer)
        /\ shaky' \subseteq {"devices", "trusted"}
    BY <1>4 DEF IInv, Types
  <2> QED
    BY <1>1, <1>2, <1>4, <1>5, <1>6, <2>1, FailInv
<1>7. CASE Goto(c, pc) /\ kept' = [kept EXCEPT ![p] = @ \ {what}]
  <2>1. kept' \in [Peer -> SUBSET Kept]
        /\ \A q \in Peer : kept'[q] = IF q = p THEN kept[p] \ {what} ELSE kept[q]
    BY <1>7 DEF IInv, Types
  <2>2. PICK u \in Tasks :
          /\ task' = [task EXCEPT ![c] = u] /\ u.pc = pc /\ u.op = t.op
          /\ u.peer = t.peer /\ u.name = t.name /\ u.info = t.info /\ u.alone = t.alone
    BY <1>1, <1>7, GotoFacts DEF Pcs
  <2>3. Equipped(u)
    BY <1>2, <2>2 DEF Equipped, Active
  <2>4. ASSUME task' \in [Client -> Tasks] PROVE Types'
    BY <1>4, <2>1, <2>4 DEF IInv, Types
  <2>5. OnlyAbout(p)
    BY <1>4, <2>1 DEF OnlyAbout
  <2>6. ASSUME \A b \in Client : task'[b] = IF b = c THEN u ELSE task[b]
        PROVE  Trusts(p)' /\ Gone(p)' /\ Dials(p)' /\ Removes(c)'
    <3>1. Trusts(p) /\ Dials(p) /\ p \notin gone
      BY <1>1, <1>2, <1>3 DEF IInv, PeerInv, Gone
    <3>2. Trusts(p)'
      BY <1>1, <1>2, <1>4, <2>2, <2>6, <3>1, SameTrusts
    <3>3. Dials(p)'
      BY <1>1, <1>2, <1>4, <2>6, <3>1, SameDials
    <3>4. Removes(c) /\ kept[p] \subseteq {"snapshot", "access"}
      BY DEF IInv, RemovalInv, Types, Kept
    <3>5. Removes(c)'
      BY <1>1, <1>3, <1>4, <2>1, <2>2, <2>6, <3>4 DEF Removes
    <3> QED
      BY <1>4, <3>1, <3>2, <3>3, <3>5 DEF Gone
  <2> QED
    BY <1>1, <1>2, <1>3, <1>5, <2>2, <2>3, <2>4, <2>5, <2>6, StepInv
<1> QED
  BY <1>1, <1>3, <1>6, <1>7 DEF Drop

-----------------------------------------------------------------------------
\* A request about the trust of a device overlaps with no opposite one, or the
\* device is marked as raced.
LEMMA RaceFacts ==
  ASSUME IInv, NEW c \in Client, NoteRace(c), NEW p \in Peer, p = task[c].peer,
         task[c].pc \in {"trust", "untrust"}
  PROVE  /\ raced' \in {raced, raced \cup {p}}
         /\ p \notin raced' =>
              /\ p \notin raced
              /\ \A b \in Client \ {c} :
                   ~ At(b, p, IF task[c].pc = "trust" THEN "disallow" ELSE "allow")
<1>1. CASE Overlaps(c)
  BY <1>1 DEF NoteRace
<1>2. CASE ~ Overlaps(c)
  <2>1. raced' = raced
    BY <1>2 DEF NoteRace
  <2>2. ASSUME NEW b \in Client \ {c}, At(b, p, IF task[c].pc = "trust" THEN "disallow" ELSE "allow")
        PROVE  FALSE
    <3>1. b \in Changing(p) \ {c}
      BY <2>2 DEF At, Changing
    <3> QED
      BY <1>2, <2>2, <3>1 DEF Overlaps, At
  <2> QED
    BY <2>1, <2>2
<1> QED
  BY <1>1, <1>2

\* A save of the list of trusted devices that fails leaves the list in memory
\* as it was.
LEMMA SaveTrustedFailsFacts ==
  ASSUME IInv, SaveTrustedFails
  PROVE  /\ trusted' = trusted /\ (trustedFile' = Torn \/ trustedFile' \subseteq Peer)
         /\ shaky' = shaky \cup {"trusted"}
  BY DEF SaveTrustedFails, IInv, Types

\* authorize and revoke that cannot save change neither the list nor the allow
\* list.
LEMMA TrustFails ==
  ASSUME IInv, NEW c \in Client, task[c].pc \in {"trust", "untrust"}, SaveTrustedFails, Return(c),
         NoteRace(c), UNCHANGED <<directory, allowed, dialable, kept, gone>>
  PROVE  IInv'
<1>1. Active(task[c]) /\ task[c].peer \in Peer
  BY DEF Active, IInv, CommandInv, Equipped
<1>2. raced' \in {raced, raced \cup {task[c].peer}}
  BY <1>1, RaceFacts
<1>3. /\ trusted' = trusted /\ (trustedFile' = Torn \/ trustedFile' \subseteq Peer)
      /\ shaky' = shaky \cup {"trusted"}
  BY SaveTrustedFailsFacts
<1>4. UNCHANGED <<devices, devicesFile>>
  BY DEF directory
<1>5. FilesInv' /\ NamesInv'
  BY <1>3, <1>4 DEF IInv, FilesInv, NamesInv
<1>6. devicesFile' \in Directory \cup {Torn} /\ shaky' \subseteq {"devices", "trusted"}
  BY <1>3, <1>4 DEF IInv, Types
<1> QED
  BY <1>1, <1>2, <1>3, <1>4, <1>5, <1>6, FailInv

\* The first step of authorize or of revoke: the list is changed and saved, or
\* needs no change; from now on the request is between its two steps.
LEMMA ListedInv ==
  ASSUME IInv, NEW c \in Client, NEW pc \in {"allow", "disallow"}, NEW s \in SUBSET Peer,
         task[c].pc = IF pc = "allow" THEN "trust" ELSE "untrust",
         s = IF pc = "allow" THEN trusted \cup {task[c].peer} ELSE trusted \ {task[c].peer},
         Goto(c, pc), NoteRace(c),
         UNCHANGED <<directory, allowed, dialable, kept, gone>>, trusted' = s,
         \/ trustedFile' = s /\ shaky' = shaky \ {"trusted"}
         \/ trustedFile' = trustedFile /\ shaky' = shaky /\ s = trusted
  PROVE  IInv'
<1>1. PICK t \in Tasks : t = task[c]
  BY DEF IInv, Types
<1>2. t.pc \in {"trust", "untrust"} /\ Active(t) /\ Equipped(t)
  BY <1>1 DEF Active, IInv, CommandInv
<1>3. PICK p \in Peer : p = t.peer
  BY <1>2 DEF Equipped
<1>4. UNCHANGED <<devices, devicesFile, allowed, dialable, kept, gone>>
  BY DEF directory
<1>5. /\ raced' \in {raced, raced \cup {p}}
      /\ p \notin raced' =>
           /\ p \notin raced
           /\ \A b \in Client \ {c} : ~ At(b, p, IF t.pc = "trust" THEN "disallow" ELSE "allow")
  BY <1>1, <1>2, <1>3, RaceFacts
<1>6. PICK u \in Tasks :
        /\ task' = [task EXCEPT ![c] = u] /\ u.pc = pc /\ u.op = t.op
        /\ u.peer = t.peer /\ u.name = t.name /\ u.info = t.info /\ u.alone = t.alone
  BY <1>1, GotoFacts DEF Pcs
<1>7. Equipped(u)
  BY <1>2, <1>6 DEF Equipped, Active
<1>8. FilesInv' /\ NamesInv'
  BY <1>4 DEF IInv, FilesInv, NamesInv
<1>9. ASSUME task' \in [Client -> Tasks] PROVE Types'
  BY <1>4, <1>5, <1>9 DEF IInv, Types
<1>10. OnlyAbout(p)
  BY <1>1, <1>3, <1>4, <1>5 DEF OnlyAbout
<1>11. ASSUME \A b \in Client : task'[b] = IF b = c THEN u ELSE task[b]
       PROVE  Trusts(p)' /\ Gone(p)' /\ Dials(p)' /\ Removes(c)'
  <2>1. Trusts(p) /\ Dials(p) /\ p \notin gone
    BY <1>1, <1>2, <1>3 DEF IInv, PeerInv, Gone
  <2>2. \A b \in Client \ {c}, k \in {"allow", "disallow"} : At(b, p, k)' <=> At(b, p, k)
    BY <1>11 DEF At
  <2>3. At(c, p, pc)' /\ \A k \in {"allow", "disallow"} : At(c, p, k)' => k = pc
    BY <1>3, <1>6, <1>11 DEF At
  <2>4. \A k \in {"allow", "disallow"} : ~ At(c, p, k)
    BY <1>1, <1>2 DEF At
  <2>5. Trusts(p)'
    <3>1. CASE pc = "allow"
      BY <1>1, <1>3, <1>4, <1>5, <2>1, <2>2, <2>3, <2>4, <3>1 DEF Trusts
    <3>2. CASE pc = "disallow"
      BY <1>1, <1>3, <1>4, <1>5, <2>1, <2>2, <2>3, <2>4, <3>2 DEF Trusts
    <3> QED
      BY <3>1, <3>2
  <2>6. Dials(p)'
    BY <1>1, <1>2, <1>4, <1>11, <2>1, SameDials
  <2>7. Removes(c)
    BY DEF IInv, RemovalInv
  <2>8. Removes(c)'
    BY <1>1, <1>2, <1>3, <1>4, <1>6, <1>11, <2>7 DEF Removes
  <2> QED
    BY <1>4, <2>1, <2>5, <2>6, <2>8 DEF Gone
<1> QED
  BY <1>1, <1>2, <1>3, <1>6, <1>7, <1>8, <1>9, <1>10, <1>11, StepInv

\* authorize, up to the allow list.
LEMMA AuthorizeStepInv ==
  ASSUME IInv, NEW c \in Client, AuthorizeStep(c)
  PROVE  IInv'
<1>1. task[c].pc = "trust" /\ task[c].peer \in Peer
      /\ trusted \subseteq Peer
  BY DEF AuthorizeStep, IInv, CommandInv, Equipped, Active, Types
<1>2. NoteRace(c) /\ UNCHANGED <<directory, allowed, dialable, kept, gone>>
  BY DEF AuthorizeStep
<1>3. CASE /\ task[c].peer \in trusted /\ Goto(c, "allow") /\ UNCHANGED <<trusted, trustedFile, shaky, faults>>
  <2>1. trusted = trusted \cup {task[c].peer} /\ trusted \in SUBSET Peer
    BY <1>1, <1>3
  <2>2. UNCHANGED trusted /\ UNCHANGED trustedFile /\ UNCHANGED shaky
    BY <1>3
  <2> QED
    BY <1>1, <1>2, <1>3, <2>1, <2>2, ListedInv
<1>4. CASE SaveTrusted(trusted \cup {task[c].peer}) /\ Goto(c, "allow")
  BY <1>1, <1>2, <1>4, ListedInv DEF SaveTrusted
<1>5. CASE SaveTrustedFails /\ Return(c)
  BY <1>1, <1>2, <1>5, TrustFails
<1> QED
  BY <1>3, <1>4, <1>5 DEF AuthorizeStep

\* revoke, up to the allow list.
LEMMA RevokeStepInv ==
  ASSUME IInv, NEW c \in Client, RevokeStep(c)
  PROVE  IInv'
<1>1. task[c].pc = "untrust" /\ task[c].peer \in Peer
      /\ trusted \subseteq Peer
  BY DEF RevokeStep, IInv, CommandInv, Equipped, Active, Types
<1>2. NoteRace(c) /\ UNCHANGED <<directory, allowed, dialable, kept, gone>>
  BY DEF RevokeStep
<1>3. CASE SaveTrusted(trusted \ {task[c].peer}) /\ Goto(c, "disallow")
  BY <1>1, <1>2, <1>3, ListedInv DEF SaveTrusted
<1>4. CASE SaveTrustedFails /\ Return(c)
  BY <1>1, <1>2, <1>4, TrustFails
<1> QED
  BY <1>3, <1>4 DEF RevokeStep

\* The second step of authorize: the allow list follows the file, unless a
\* revoke has come in between, which is a race.
LEMMA AllowInv ==
  ASSUME IInv, NEW c \in Client, Allow(c)
  PROVE  IInv'
<1>1. PICK t \in Tasks : t = task[c]
  BY DEF IInv, Types
<1>2. t.pc = "allow" /\ Active(t) /\ Equipped(t)
  BY <1>1 DEF Allow, Active, IInv, CommandInv
<1>3. PICK p \in Peer : p = t.peer
  BY <1>2 DEF Equipped
<1>4. /\ UNCHANGED <<devices, devicesFile, trusted, trustedFile, dialable, kept, raced, gone, shaky>>
      /\ allowed' = allowed \cup {p} /\ task' = [task EXCEPT ![c] = Idle]
  BY <1>1, <1>3 DEF Allow, directory, Return
<1>5. FilesInv' /\ NamesInv'
  BY <1>4 DEF IInv, FilesInv, NamesInv
<1>6. ASSUME task' \in [Client -> Tasks] PROVE Types'
  BY <1>4, <1>6 DEF IInv, Types
<1>7. OnlyAbout(p)
  BY <1>4 DEF OnlyAbout
<1>8. ASSUME \A b \in Client : task'[b] = IF b = c THEN Idle ELSE task[b]
      PROVE  Trusts(p)' /\ Gone(p)' /\ Dials(p)' /\ Removes(c)'
  <2>1. Trusts(p) /\ Dials(p) /\ p \notin gone
    BY <1>1, <1>2, <1>3 DEF IInv, PeerInv, Gone
  <2>2. Idle.pc = "idle" /\ Idle.op = "none"
    BY DEF Idle
  <2>3. \A b \in Client, k \in {"allow", "disallow"} : At(b, p, k)' => At(b, p, k)
    BY <1>8, <2>2 DEF At
  <2>4. At(c, p, "allow")
    BY <1>1, <1>2, <1>3 DEF At
  <2>5. Trusts(p)'
    BY <1>4, <2>1, <2>3, <2>4 DEF Trusts
  <2>6. Dials(p)'
    BY <1>1, <1>2, <1>4, <1>8, <2>1, SameDials
  <2> QED
    BY <1>4, <1>8, <2>1, <2>2, <2>5, <2>6 DEF Gone, Removes
<1> QED
  BY <1>1, <1>2, <1>3, <1>4, <1>5, <1>6, <1>7, <1>8, IdleFacts, StepInv

\* The second step of revoke, and the end of a removal: the allow list follows
\* the file; a device that was removed undisturbed is gone from everything.
LEMMA DisallowInv ==
  ASSUME IInv, NEW c \in Client, Disallow(c)
  PROVE  IInv'
<1>1. PICK t \in Tasks : t = task[c]
  BY DEF IInv, Types
<1>2. t.pc = "disallow" /\ Active(t) /\ Equipped(t)
  BY <1>1 DEF Disallow, Active, IInv, CommandInv
<1>3. PICK p \in Peer : p = t.peer
  BY <1>2 DEF Equipped
<1>4. /\ UNCHANGED <<devices, devicesFile, trusted, trustedFile, dialable, kept, raced, shaky>>
      /\ allowed' = allowed \ {p} /\ task' = [task EXCEPT ![c] = Idle]
      /\ gone' = IF t.op = "remove" /\ t.alone THEN gone \cup {p} ELSE gone
  BY <1>1, <1>3 DEF Disallow, directory, Return
<1>5. FilesInv' /\ NamesInv'
  BY <1>4 DEF IInv, FilesInv, NamesInv
<1>6. ASSUME task' \in [Client -> Tasks] PROVE Types'
  BY <1>4, <1>6 DEF IInv, Types
<1>7. OnlyAbout(p)
  BY <1>4 DEF OnlyAbout
<1>8. ASSUME \A b \in Client : task'[b] = IF b = c THEN Idle ELSE task[b]
      PROVE  Trusts(p)' /\ Gone(p)' /\ Dials(p)' /\ Removes(c)'
  <2>1. Trusts(p) /\ Dials(p) /\ Removes(c) /\ p \notin gone
    BY <1>1, <1>2, <1>3 DEF IInv, PeerInv, Gone, RemovalInv
  <2>2. Idle.pc = "idle" /\ Idle.op = "none" /\ ~ Active(Idle)
    BY DEF Idle, Active
  <2>3. \A b \in Client, k \in {"allow", "disallow"} : At(b, p, k)' => At(b, p, k)
    BY <1>8, <2>2 DEF At
  <2>4. At(c, p, "disallow")
    BY <1>1, <1>2, <1>3 DEF At
  <2>5. Trusts(p)'
    BY <1>4, <2>1, <2>3, <2>4 DEF Trusts
  <2>6. Dials(p)'
    BY <1>1, <1>2, <1>4, <1>8, <2>1, SameDials
  <2>7. Gone(p)'
    <3>1. CASE t.op = "remove" /\ t.alone
      <4>1. devices[p] = NoDevice /\ kept[p] = {} /\ p \notin trusted
        BY <1>1, <1>2, <1>3, <2>1, <3>1 DEF Removes
      <4>2. \A b \in Client : Active(task[b]) /\ task[b].peer = p => b = c
        BY <1>1, <1>2, <1>3, <3>1 DEF IInv, CommandInv
      <4>3. \A b \in Client : Active(task'[b]) => task'[b].peer # p
        BY <1>8, <2>2, <4>2
      <4> QED
        BY <1>4, <4>1, <4>3 DEF Gone
    <3>2. CASE ~ (t.op = "remove" /\ t.alone)
      BY <1>4, <2>1, <3>2 DEF Gone
    <3> QED
      BY <3>1, <3>2
  <2> QED
    BY <1>8, <2>2, <2>5, <2>6, <2>7 DEF Removes
<1> QED
  BY <1>1, <1>2, <1>3, <1>4, <1>5, <1>6, <1>7, <1>8, IdleFacts, StepInv

\* A refresh has stored a snapshot of the device and an attach an access to it:
\* the device is not one that is gone, since the command is about it.
LEMMA KeepInv ==
  ASSUME IInv, NEW c \in Client, Keep(c)
  PROVE  IInv'
<1>1. PICK t \in Tasks : t = task[c]
  BY DEF IInv, Types
<1>2. t.pc = "keep" /\ Active(t) /\ Equipped(t)
  BY <1>1 DEF Keep, Active, IInv, CommandInv
<1>3. PICK p \in Peer : p = t.peer
  BY <1>2 DEF Equipped
<1>4. /\ UNCHANGED <<devices, devicesFile, trusted, trustedFile, allowed, dialable, raced, gone, shaky>>
      /\ kept' = [kept EXCEPT ![p] = Kept] /\ task' = [task EXCEPT ![c] = Idle]
  BY <1>1, <1>3 DEF Keep, directory, policy, Return
<1>5. kept' \in [Peer -> SUBSET Kept] /\ \A q \in Peer \ {p} : kept'[q] = kept[q]
  BY <1>4 DEF IInv, Types
<1>6. FilesInv' /\ NamesInv'
  BY <1>4 DEF IInv, FilesInv, NamesInv
<1>7. ASSUME task' \in [Client -> Tasks] PROVE Types'
  BY <1>4, <1>5, <1>7 DEF IInv, Types
<1>8. OnlyAbout(p)
  BY <1>4, <1>5 DEF OnlyAbout
<1>9. ASSUME \A b \in Client : task'[b] = IF b = c THEN Idle ELSE task[b]
      PROVE  Trusts(p)' /\ Gone(p)' /\ Dials(p)' /\ Removes(c)'
  <2>1. Trusts(p) /\ Dials(p) /\ p \notin gone
    BY <1>1, <1>2, <1>3 DEF IInv, PeerInv, Gone
  <2>2. Idle.pc = "idle" /\ Idle.op = "none"
    BY DEF Idle
  <2>3. Trusts(p)'
    BY <1>1, <1>2, <1>4, <1>9, <2>1, <2>2, SameTrusts
  <2>4. Dials(p)'
    BY <1>1, <1>2, <1>4, <1>9, <2>1, SameDials
  <2> QED
    BY <1>4, <1>9, <2>1, <2>2, <2>3, <2>4 DEF Gone, Removes
<1> QED
  BY <1>1, <1>2, <1>3, <1>4, <1>6, <1>7, <1>8, <1>9, IdleFacts, StepInv

-----------------------------------------------------------------------------
\* What a new command does to the calls: those on its device are no longer alone.
Noticed(t, d, S) == [t EXCEPT !.alone = @ /\ d \notin S]
Started(op, p, n, A, pc, S) ==
  [Idle EXCEPT !.pc = pc, !.op = op, !.peer = p, !.name = n, !.addrs = A, !.alone = S = {}]

\* What a new command changes in one that is under way.
LEMMA AloneFacts ==
  ASSUME NEW t \in Tasks, NEW d, NEW S
  PROVE  \E u \in Tasks :
           /\ u = Noticed(t, d, S)
           /\ u.pc = t.pc /\ u.op = t.op /\ u.peer = t.peer /\ u.name = t.name /\ u.addrs = t.addrs
           /\ u.info = t.info /\ (u.alone => t.alone /\ d \notin S)
<1>1. PICK b \in BOOLEAN : b = (t.alone /\ d \notin S)
  <2>1. CASE t.alone /\ d \notin S
    <3>1. (t.alone /\ d \notin S) = TRUE
      BY <2>1
    <3> QED
      BY <3>1, Zenon
  <2>2. CASE ~ (t.alone /\ d \notin S)
    <3>1. (t.alone /\ d \notin S) = FALSE
      BY <2>2
    <3> QED
      BY <3>1, Zenon
  <2> QED
    BY <2>1, <2>2
<1>2. PICK u : u = [t EXCEPT !.alone = b]
  OBVIOUS
<1>3. u = Noticed(t, d, S)
  BY <1>1, <1>2, Zenon DEF Noticed
<1>4. u \in Tasks
  BY <1>2 DEF Tasks
<1>5. /\ u.pc = t.pc /\ u.op = t.op /\ u.peer = t.peer /\ u.name = t.name /\ u.addrs = t.addrs
      /\ u.info = t.info /\ u.alone = b
  BY <1>2 DEF Tasks
<1>6. b => t.alone /\ d \notin S
  BY <1>1
<1> QED
  BY <1>3, <1>4, <1>5, <1>6

\* What a new command starts with.
LEMMA NewFacts ==
  ASSUME NEW op \in Ops, NEW p \in Peer, NEW n \in Name \cup {NoDevice}, NEW A \in SUBSET Addr,
         NEW pc \in Pcs, NEW S
  PROVE  \E u \in Tasks :
           /\ u = Started(op, p, n, A, pc, S)
           /\ u.pc = pc /\ u.op = op /\ u.peer = p /\ u.name = n /\ (u.alone => S = {})
<1>1. PICK b \in BOOLEAN : b = (S = {})
  <2>1. CASE S = {}
    <3>1. (S = {}) = TRUE
      BY <2>1
    <3> QED
      BY <3>1, Zenon
  <2>2. CASE S # {}
    <3>1. (S = {}) = FALSE
      BY <2>2
    <3> QED
      BY <3>1, Zenon
  <2> QED
    BY <2>1, <2>2
<1>2. PICK u : u = [Idle EXCEPT !.pc = pc, !.op = op, !.peer = p, !.name = n, !.addrs = A, !.alone = b]
  OBVIOUS
<1>3. u = Started(op, p, n, A, pc, S)
  BY <1>1, <1>2, Zenon DEF Started
<1>4. u = [pc |-> pc, op |-> op, peer |-> p, name |-> n, addrs |-> A, info |-> NoDevice, alone |-> b]
  BY <1>2 DEF Idle
<1>5. u \in Tasks
  BY <1>4 DEF Tasks
<1>6. u.pc = pc /\ u.op = op /\ u.peer = p /\ u.name = n /\ u.alone = b
  BY <1>4
<1>7. b => S = {}
  BY <1>1
<1> QED
  BY <1>3, <1>5, <1>6, <1>7

\* A new command on p: those under way on p are alone no longer, and neither is
\* the new one if there are any.
LEMMA BeginFacts ==
  ASSUME IInv, NEW c \in Client, NEW op \in Ops, NEW p \in Peer, NEW n \in Name \cup {NoDevice},
         NEW A \in SUBSET Addr, NEW pc \in Pcs, Begin(c, op, p, n, A, pc)
  PROVE  /\ task' \in [Client -> Tasks]
         /\ task'[c].pc = pc /\ task'[c].op = op /\ task'[c].peer = p /\ task'[c].name = n
         /\ task'[c].alone => Changing(p) = {}
         /\ \A d \in Client \ {c} :
              /\ task'[d].pc = task[d].pc /\ task'[d].op = task[d].op /\ task'[d].peer = task[d].peer
              /\ task'[d].name = task[d].name /\ task'[d].info = task[d].info
              /\ task'[d].alone => task[d].alone /\ d \notin Changing(p)
<1>1. PICK S : S = Changing(p)
  OBVIOUS
<1>2. task' = [d \in Client |->
                IF d = c THEN Started(op, p, n, A, pc, S) ELSE Noticed(task[d], d, S)]
  BY <1>1, Zenon DEF Begin, Started, Noticed
<1>3. PICK u \in Tasks :
        /\ u = Started(op, p, n, A, pc, S)
        /\ u.pc = pc /\ u.op = op /\ u.peer = p /\ u.name = n /\ (u.alone => S = {})
  BY NewFacts
<1>4. task'[c] = u
  BY <1>2, <1>3, Zenon
<1>5. ASSUME NEW d \in Client \ {c}
      PROVE  /\ task'[d] \in Tasks
             /\ task'[d].pc = task[d].pc /\ task'[d].op = task[d].op /\ task'[d].peer = task[d].peer
             /\ task'[d].name = task[d].name /\ task'[d].info = task[d].info
             /\ task'[d].alone => task[d].alone /\ d \notin S
  <2>1. PICK t \in Tasks : t = task[d]
    BY DEF IInv, Types
  <2>2. PICK v \in Tasks :
          /\ v = Noticed(t, d, S)
          /\ v.pc = t.pc /\ v.op = t.op /\ v.peer = t.peer /\ v.name = t.name /\ v.addrs = t.addrs
          /\ v.info = t.info /\ (v.alone => t.alone /\ d \notin S)
    BY AloneFacts, Zenon
  <2>3. d \in Client /\ d # c
    OBVIOUS
  <2>4. task'[d] = Noticed(task[d], d, S)
    BY <1>2, <2>3, Zenon
  <2>5. task'[d] = v
    BY <2>1, <2>2, <2>4, Zenon
  <2> QED
    BY <2>1, <2>2, <2>5
<1>6. task' = [d \in Client |-> task'[d]]
  BY <1>2, Zenon
<1>7. task' \in [Client -> Tasks]
  BY <1>3, <1>4, <1>5, <1>6
<1> QED
  BY <1>1, <1>3, <1>4, <1>5, <1>7

\* A command begins; its device is not gone any more.
LEMMA BeginInv ==
  ASSUME IInv, NEW c \in Client, NEW op \in Ops, NEW p \in Peer, NEW n \in Name \cup {NoDevice},
         NEW A \in SUBSET Addr, NEW pc \in {"get", "remove", "trust", "untrust", "keep"},
         pc = "get" => op \in {"add", "rename", "address_add", "address_remove"},
         op \in {"add", "rename"} => n \in Name, op = "remove" => pc = "remove",
         Begin(c, op, p, n, A, pc)
  PROVE  IInv'
<1>1. pc \in Pcs
  BY DEF Pcs
<1>2. /\ task' \in [Client -> Tasks]
      /\ task'[c].pc = pc /\ task'[c].op = op /\ task'[c].peer = p /\ task'[c].name = n
      /\ task'[c].alone => Changing(p) = {}
      /\ \A d \in Client \ {c} :
           /\ task'[d].pc = task[d].pc /\ task'[d].op = task[d].op /\ task'[d].peer = task[d].peer
           /\ task'[d].name = task[d].name /\ task'[d].info = task[d].info
           /\ task'[d].alone => task[d].alone /\ d \notin Changing(p)
  BY <1>1, BeginFacts
<1>3. /\ UNCHANGED <<devices, devicesFile, trusted, trustedFile, allowed, dialable, kept, raced, shaky>>
      /\ gone' = gone \ {p} /\ task[c] = Idle
  BY DEF Begin, directory, policy
<1>4. ~ Active(task[c]) /\ task[c].pc = "idle"
  BY <1>3 DEF Idle, Active
<1>5. Types' /\ FilesInv' /\ NamesInv'
  BY <1>2, <1>3 DEF IInv, Types, FilesInv, NamesInv
<1>6. \A d \in Client : (d \in Changing(p)) <=> Active(task[d]) /\ task[d].peer = p
  BY DEF Changing, Active
<1>7. CommandInv'
  <2>1. ASSUME NEW d \in Client PROVE Equipped(task'[d])
    <3>1. CASE d = c
      BY <1>2, <3>1 DEF Equipped, Active
    <3>2. CASE d # c
      BY <1>2, <3>2 DEF IInv, CommandInv, Equipped, Active
    <3> QED
      BY <3>1, <3>2
  <2>2. ASSUME NEW a \in Client, NEW b \in Client, Active(task'[a]), Active(task'[b]),
               task'[a].peer = task'[b].peer, task'[b].alone
        PROVE  a = b
    <3>1. CASE b = c /\ a # c
      <4>1. a \in Changing(p)
        BY <1>2, <1>6, <2>2, <3>1 DEF Active
      <4> QED
        BY <1>2, <2>2, <3>1, <4>1
    <3>2. CASE b # c /\ a = c
      <4>1. b \in Changing(p)
        BY <1>2, <1>6, <2>2, <3>2 DEF Active
      <4> QED
        BY <1>2, <2>2, <3>2, <4>1
    <3>3. CASE b # c /\ a # c
      BY <1>2, <2>2, <3>3 DEF IInv, CommandInv, Active
    <3> QED
      BY <3>1, <3>2, <3>3
  <2> QED
    BY <2>1, <2>2 DEF CommandInv
<1>8. \A d \in Client, q \in Peer, k \in {"allow", "disallow", "record"} : At(d, q, k)' <=> At(d, q, k)
  BY <1>2, <1>4 DEF At
<1>9. ASSUME NEW q \in Peer PROVE Trusts(q)' /\ Gone(q)' /\ Dials(q)'
  <2>1. Trusts(q) /\ Gone(q) /\ Dials(q)
    BY DEF IInv, PeerInv
  <2>2. Trusts(q)'
    BY <1>3, <1>8, <2>1 DEF Trusts
  <2>3. Gone(q)'
    BY <1>2, <1>3, <2>1 DEF Gone, Active
  <2>4. \A d \in Client : At(d, q, "record") => task'[d].info = task[d].info
    BY <1>2, <1>4 DEF At
  <2>5. Dials(q)'
    BY <1>3, <1>8, <2>1, <2>4 DEF Dials
  <2> QED
    BY <2>2, <2>3, <2>5
<1>10. ASSUME NEW d \in Client PROVE Removes(d)'
  <2>1. Removes(d)
    BY DEF IInv, RemovalInv
  <2>2. CASE d = c
    BY <1>2, <2>2 DEF Removes
  <2>3. CASE d # c
    BY <1>2, <1>3, <2>1, <2>3 DEF Removes
  <2> QED
    BY <2>2, <2>3
<1> QED
  BY <1>5, <1>7, <1>9, <1>10 DEF IInv, PeerInv, RemovalInv

\* Every command of the command line begins with arguments that suit its first
\* request.
LEMMA ArgumentsInv ==
  ASSUME IInv, NEW c \in Client, NEW p \in Peer
  PROVE  /\ \A n \in Name, A \in SUBSET Addr : Add(c, n, p, A) => IInv'
         /\ \A n \in Name : Rename(c, p, n) => IInv'
         /\ \A a \in Addr : AddressAdd(c, p, a) \/ AddressRemove(c, p, a) => IInv'
         /\ Remove(c, p) \/ Trust(c, p) \/ Untrust(c, p) \/ Attach(c, p) => IInv'
<1>1. ASSUME NEW n \in Name, NEW A \in SUBSET Addr, Add(c, n, p, A) PROVE IInv'
  BY <1>1, BeginInv DEF Add, Ops
<1>2. ASSUME NEW n \in Name, Rename(c, p, n) PROVE IInv'
  BY <1>2, BeginInv DEF Rename, Ops
<1>3. ASSUME NEW a \in Addr, AddressAdd(c, p, a) PROVE IInv'
  BY <1>3, BeginInv DEF AddressAdd, Ops
<1>4. ASSUME NEW a \in Addr, AddressRemove(c, p, a) PROVE IInv'
  BY <1>4, BeginInv DEF AddressRemove, Ops
<1>5. ASSUME Remove(c, p) PROVE IInv'
  BY <1>5, BeginInv DEF Remove, Ops
<1>6. ASSUME Trust(c, p) PROVE IInv'
  BY <1>6, BeginInv DEF Trust, Ops
<1>7. ASSUME Untrust(c, p) PROVE IInv'
  BY <1>7, BeginInv DEF Untrust, Ops
<1>8. ASSUME Attach(c, p) PROVE IInv'
  BY <1>8, BeginInv DEF Attach, Ops
<1> QED
  BY <1>1, <1>2, <1>3, <1>4, <1>5, <1>6, <1>7, <1>8

-----------------------------------------------------------------------------
\* At its start the daemon makes the addresses of all devices in the file known
\* to the dialer.
LEMMA LoadFacts ==
  ASSUME NEW d \in Directory
  PROVE  Load(d) \in [Peer -> SUBSET Addr] /\ \A p \in Peer : d[p] # NoDevice => Load(d)[p] = d[p].addrs
<1>1. \A p \in Peer : d[p] = NoDevice \/ d[p].addrs \subseteq Addr
  BY DEF Directory, Device
<1> QED
  BY <1>1 DEF Load

\* A daemon that has loaded its files and serves nobody yet satisfies the
\* invariant.
LEMMA FreshInv ==
  ASSUME NEW d \in Directory, NEW s \in SUBSET Peer, Unique(d), kept' \in [Peer -> SUBSET Kept],
         devices' = d, devicesFile' = d, trusted' = s, trustedFile' = s, allowed' = s,
         dialable' = Load(d), task' = [c \in Client |-> Idle],
         raced' = {}, gone' = {}, shaky' = {}
  PROVE  IInv'
<1>1. \A c \in Client : task'[c] = Idle
  OBVIOUS
<1>2. Idle.pc = "idle" /\ Idle.op = "none" /\ Idle \in Tasks /\ Equipped(Idle) /\ ~ Active(Idle)
  BY IdleFacts DEF Idle
<1>3. Types'
  BY <1>2, LoadFacts DEF Types
<1>4. CommandInv'
  BY <1>1, <1>2 DEF CommandInv
<1>5. FilesInv' /\ NamesInv'
  BY DEF FilesInv, NamesInv
<1>6. ASSUME NEW p \in Peer PROVE Trusts(p)' /\ Gone(p)' /\ Dials(p)'
  <2>1. Trusts(p)'
    BY <1>1, <1>2 DEF Trusts, At
  <2>2. Dials(p)'
    BY LoadFacts DEF Dials
  <2> QED
    BY <2>1, <2>2 DEF Gone
<1>7. RemovalInv'
  BY <1>1, <1>2 DEF RemovalInv, Removes
<1> QED
  BY <1>3, <1>4, <1>5, <1>6, <1>7 DEF IInv, PeerInv

\* A restart on files that can be parsed ends all commands and makes memory,
\* allow list and dialer agree with the files.
LEMMA RestartInv ==
  ASSUME IInv, Restart
  PROVE  IInv'
<1>1. PICK d \in Directory, s \in SUBSET Peer : d = devicesFile /\ s = trustedFile
  BY DEF IInv, Types, Restart
<1>2. Unique(d) /\ kept' \in [Peer -> SUBSET Kept]
  BY <1>1 DEF IInv, Types, NamesInv, Restart
<1>3. /\ devices' = d /\ devicesFile' = d /\ trusted' = s /\ trustedFile' = s /\ allowed' = s
      /\ dialable' = Load(d) /\ task' = [c \in Client |-> Idle]
      /\ raced' = {} /\ gone' = {} /\ shaky' = {}
  BY <1>1 DEF Restart
<1> QED
  BY <1>2, <1>3, FreshInv

\* The first start, on no files, satisfies the invariant.
LEMMA InitIInv ==
  ASSUME Init
  PROVE  IInv
<1>1. /\ NoDevices \in Directory /\ Unique(NoDevices)
      /\ devices = NoDevices /\ devicesFile = NoDevices
      /\ trusted = {} /\ trustedFile = {} /\ allowed = {} /\ raced = {} /\ gone = {} /\ shaky = {}
  BY DEF Init, NoDevices, Directory, Unique
<1>2. dialable = Load(NoDevices) /\ kept \in [Peer -> SUBSET Kept] /\ \A p \in Peer : kept[p] = {}
  BY <1>1 DEF Init
<1>3. task = [c \in Client |-> Idle] /\ \A c \in Client : task[c] = Idle
  BY DEF Init
<1>4. Idle.pc = "idle" /\ Idle.op = "none" /\ Idle \in Tasks /\ Equipped(Idle) /\ ~ Active(Idle)
  BY IdleFacts DEF Idle
<1>5. Types
  BY <1>1, <1>2, <1>3, <1>4, LoadFacts DEF Types
<1>6. CommandInv /\ FilesInv /\ NamesInv
  BY <1>1, <1>3, <1>4 DEF CommandInv, FilesInv, NamesInv
<1>7. ASSUME NEW p \in Peer PROVE Trusts(p) /\ Gone(p) /\ Dials(p)
  <2>1. Trusts(p) /\ Gone(p)
    BY <1>1, <1>3, <1>4 DEF Trusts, Gone, At
  <2>2. devices[p] = NoDevice
    BY <1>1 DEF NoDevices
  <2> QED
    BY <2>1, <2>2 DEF Dials
<1>8. RemovalInv
  BY <1>3, <1>4 DEF RemovalInv, Removes
<1> QED
  BY <1>5, <1>6, <1>7, <1>8 DEF IInv, PeerInv

\* The invariant is about the variables of the module only.
LEMMA StutterIInv ==
  ASSUME IInv, UNCHANGED vars
  PROVE  IInv'
<1>1. UNCHANGED <<devices, devicesFile, trusted, trustedFile, allowed, dialable, kept, task, raced, gone, shaky>>
  BY DEF vars, directory, policy
<1>2. \A c \in Client, p \in Peer, k \in {"allow", "disallow", "record"} : At(c, p, k)' <=> At(c, p, k)
  BY <1>1 DEF At
<1>3. Types' /\ CommandInv' /\ FilesInv' /\ NamesInv'
  BY <1>1 DEF IInv, Types, CommandInv, FilesInv, NamesInv
<1>4. ASSUME NEW p \in Peer PROVE Trusts(p)' /\ Gone(p)' /\ Dials(p)'
  BY <1>1, <1>2 DEF IInv, PeerInv, Trusts, Gone, Dials
<1>5. RemovalInv'
  BY <1>1 DEF IInv, RemovalInv, Removes
<1> QED
  BY <1>3, <1>4, <1>5 DEF IInv, PeerInv

\* Every request of every command, and a restart, keep the invariant.
LEMMA NextIInv ==
  ASSUME IInv, Next
  PROVE  IInv'
<1>1. ASSUME NEW c \in Client, NEW p \in Peer, NEW n \in Name,
             (\E A \in SUBSET Addr : Add(c, n, p, A)) \/ Rename(c, p, n)
      PROVE  IInv'
  BY <1>1, ArgumentsInv
<1>2. ASSUME NEW c \in Client, NEW p \in Peer, NEW a \in Addr, AddressAdd(c, p, a) \/ AddressRemove(c, p, a)
      PROVE  IInv'
  BY <1>2, ArgumentsInv
<1>3. ASSUME NEW c \in Client, NEW p \in Peer, Remove(c, p) \/ Trust(c, p) \/ Untrust(c, p) \/ Attach(c, p)
      PROVE  IInv'
  BY <1>3, ArgumentsInv
<1>4. ASSUME NEW c \in Client, GetDevice(c) \/ UpdateDevice(c) \/ Record(c)
      PROVE  IInv'
  BY <1>4, GetDeviceInv, UpdateDeviceInv, RecordInv
<1>5. ASSUME NEW c \in Client, RemoveDevice(c) \/ RemoveSnapshot(c) \/ ForgetDevice(c)
      PROVE  IInv'
  <2>1. CASE RemoveSnapshot(c)
    BY <2>1, DropInv DEF RemoveSnapshot
  <2>2. CASE ForgetDevice(c)
    BY <2>2, DropInv DEF ForgetDevice
  <2> QED
    BY <1>5, <2>1, <2>2, RemoveDeviceInv
<1>6. ASSUME NEW c \in Client, AuthorizeStep(c) \/ Allow(c) \/ RevokeStep(c) \/ Disallow(c) \/ Keep(c)
      PROVE  IInv'
  BY <1>6, AuthorizeStepInv, AllowInv, RevokeStepInv, DisallowInv, KeepInv
<1> QED
  BY <1>1, <1>2, <1>3, <1>4, <1>5, <1>6, RestartInv DEF Next

\* The inductive invariant of the devices holds in every reachable state.
THEOREM Inductive == Spec => []IInv
<1>1. Init => IInv
  BY InitIInv
<1>2. IInv /\ [Next]_vars => IInv'
  BY NextIInv, StutterIInv
<1> QED
  BY <1>1, <1>2, PTL DEF Spec

-----------------------------------------------------------------------------
\* The directory, the list of trusted devices, the stores and the commands have
\* their types in every reachable state.
THEOREM TypeCorrect == Spec => []TypeOK
<1>1. IInv => TypeOK
  BY DEF IInv, Types, Tasks, TypeOK
<1> QED
  BY <1>1, Inductive, PTL

\* A set whose members are all equal has at most one of them.
LEMMA AtMostOne ==
  ASSUME NEW S, \A x, y \in S : x = y
  PROVE  Cardinality(S) <= 1
<1>1. CASE S = {}
  BY <1>1, FS_EmptySet
<1>2. CASE S # {}
  <2>1. PICK x : S = {x}
    BY <1>2
  <2> QED
    BY <2>1, FS_Singleton
<1> QED
  BY <1>1, <1>2

\* A name leads to at most one device, in memory and on disk, for any number of
\* commands that edit devices at once, failed saves and restarts.
THEOREM OneDevicePerName == Spec => []NamesUnique
<1>1. ASSUME NEW d, NEW n, Unique(d) PROVE Cardinality(ByName(d, n)) <= 1
  <2>1. \A x, y \in ByName(d, n) : x = y
    BY <1>1 DEF ByName, Unique
  <2> QED
    BY <2>1, AtMostOne
<1>2. IInv => NamesUnique
  BY <1>1 DEF IInv, NamesInv, NamesUnique
<1> QED
  BY <1>2, Inductive, PTL

\* Whenever no request about a device is under way and no two opposite ones
\* have overlapped, the swarm's allow list, the list in memory and, after a
\* save that succeeded, the file agree about it.
THEOREM SwarmKnowsTrust == Spec => []TrustAgrees
<1>1. ASSUME IInv, NEW p \in Peer, Changing(p) = {}, p \notin raced
      PROVE  (p \in allowed <=> p \in trusted) /\ ("trusted" \notin shaky => (p \in allowed <=> p \in trustedFile))
  <2>1. \A c \in Client : ~ At(c, p, "allow") /\ ~ At(c, p, "disallow")
    BY <1>1 DEF Changing, At
  <2>2. Trusts(p)
    BY <1>1 DEF IInv, PeerInv
  <2>3. p \in allowed <=> p \in trusted
    BY <1>1, <2>1, <2>2 DEF Trusts
  <2> QED
    BY <1>1, <2>3 DEF IInv, FilesInv
<1>2. IInv => TrustAgrees
  BY <1>1 DEF TrustAgrees
<1> QED
  BY <1>2, Inductive, PTL

\* Of a device whose removal has succeeded undisturbed, and which nobody has
\* touched since, nothing is left in the directory, the snapshots, the
\* accesses, the trust or the allow list.
THEOREM NothingLeftOfRemoved == Spec => []RemovedIsGone
<1>1. ASSUME IInv, NEW p \in gone
      PROVE  /\ devices[p] = NoDevice /\ kept[p] = {}
             /\ "devices" \notin shaky => devicesFile[p] = NoDevice
             /\ p \notin allowed \cup trusted
             /\ "trusted" \notin shaky => p \notin trustedFile
  <2>1. p \in Peer
    BY <1>1 DEF IInv, Types
  <2>2. Gone(p)
    BY <1>1, <2>1 DEF IInv, PeerInv
  <2> QED
    BY <1>1, <2>2 DEF Gone, IInv, FilesInv
<1>2. IInv => RemovedIsGone
  BY <1>1 DEF RemovedIsGone
<1> QED
  BY <1>2, Inductive, PTL

\* The addresses of a device are known to the dialer whenever no command on the
\* device is under way.
THEOREM GivenAddressesDialable == Spec => []AddressesDialable
<1>1. ASSUME IInv, NEW p \in Peer, Changing(p) = {}, devices[p] # NoDevice
      PROVE  devices[p].addrs \subseteq dialable[p]
  <2>1. \A c \in Client : ~ At(c, p, "record")
    BY <1>1 DEF Changing, At
  <2> QED
    BY <1>1, <2>1 DEF IInv, PeerInv, Dials
<1>2. IInv => AddressesDialable
  BY <1>1 DEF AddressesDialable
<1> QED
  BY <1>2, Inductive, PTL

=============================================================================
