---------------------------- MODULE RecipesProofs ----------------------------
(***************************************************************************)
(* The recipe cache for any number of calls, releases and faults: what the *)
(* cache names is there, a refresh is not answered with an old release,    *)
(* and a manifest is the one of its release.                               *)
(***************************************************************************)
EXTENDS Recipes, TLAPS

\* The call is about to write the file, or does.
Heads(t, f) == t.pc \in {"fetch", "open", "write"} /\ t.file = f

\* It writes latest.json or reads the index that it names.
NeedsIndex(t) ==
  \/ t.pc \in {"open", "write"} /\ t.file = Latest
  \/ t.pc = "index"

\* It has a manifest to hand out.
HasManifest(t) == t.pc = "save" \/ (t.pc = "done" /\ t.op = "resolve")

\* What a call knows of itself.
Consistent(t) ==
  /\ t.pc \in {"fetch", "open", "write", "index", "asset", "read", "save", "done"} => t.release \in Release
  /\ ~ t.refresh => t.asked = 1
  /\ t.release # NoRelease => t.asked <= t.release
  /\ t.pc = "fetch" => t.file \in {<<"index", t.release>>, <<"manifest", t.release>>}
  /\ t.pc \in {"open", "write"} => t.file \in {Latest, <<"index", t.release>>, <<"manifest", t.release>>}
  /\ t.pc \in {"read", "save"} => t.op = "resolve"
  /\ t.pc = "asset" => t.file = <<"manifest", t.release>>
  /\ t.pc = "write" /\ t.mixed => t.file = Latest /\ ~ t.alone
  /\ HasManifest(t) => t.of = t.release

\* A list with refresh has failed for a reason.
Excused(t, ql) ==
  t.pc = "failed" /\ t.op = "list" /\ t.refresh =>
    ~ t.alone \/ t.fault \/ (t.release # NoRelease /\ ql[t.release] # "fine")

\* The index a call relies on is there, and whole when it has written it undisturbed.
Indexed(t, fl) ==
  NeedsIndex(t) =>
    /\ fl[<<"index", t.release>>] # "absent"
    /\ t.refresh /\ t.alone => fl[<<"index", t.release>>] = "whole"

\* A part of a manifest that an undisturbed call has read stays what it is.
Settled(t, fl, ct, ts) ==
  HasManifest(t) /\ t.got = "part" /\ t.alone =>
    /\ fl[<<"manifest", t.of>>] = "part" /\ <<"manifest", t.of>> \in ct
    /\ \A q \in Caller : ~ Heads(ts[q], <<"manifest", t.of>>)

CallInv ==
  \A p \in Caller :
    /\ Consistent(task[p]) /\ task[p].asked <= published
    /\ Indexed(task[p], file)
    /\ Settled(task[p], file, cut, task)

ExcusedInv == \A p \in Caller : Excused(task[p], quality)

Active(t) == t.pc \notin {"idle", "done", "failed"}

AloneInv ==
  \A p, q \in Caller : Active(task[p]) /\ task[p].alone /\ q # p => ~ Active(task[q])

\* A file that is not whole was cut off or is being written.
CutInv ==
  \A f \in File \ {Latest} :
    file[f] \in {"empty", "part"} => f \in cut \/ \E q \in Caller : Writing(q, f)

NamedInv ==
  file[Latest] = "whole" => named \in Release /\ file[<<"index", named>>] # "absent"

IInv == TypeOK /\ CallInv /\ ExcusedInv /\ AloneInv /\ CutInv /\ NamedInv

-----------------------------------------------------------------------------
\* latest.json, the indexes and the manifests of the releases are different
\* files of the cache.
LEMMA FileFacts ==
  /\ Latest \in File
  /\ \A r \in Release : <<"index", r>> \in File /\ <<"manifest", r>> \in File
  /\ \A r : <<"index", r>> # Latest /\ <<"manifest", r>> # Latest
  /\ \A r, s : <<"index", r>> # <<"manifest", s>>
  BY DEF File, Latest

\* A caller without a call knows no release and writes no file.
LEMMA IdleFacts ==
  /\ Idle \in Task /\ Idle.pc = "idle" /\ Idle.release = NoRelease /\ Idle.asked = 1
  /\ Idle.file = Latest /\ Idle.mixed = FALSE
  BY RecipesAssumption, FileFacts DEF Idle, Task, Pc, Release

\* A call that failed has nothing to hand out; it remembers what was asked and
\* whether it was disturbed.
LEMMA FailedFacts ==
  ASSUME NEW t \in Task
  PROVE  /\ Failed(t) \in Task /\ Failed(t).pc = "failed"
         /\ Failed(t).release = IF t.pc = "index" THEN t.release ELSE NoRelease
         /\ Failed(t).asked = 1 /\ Failed(t).op = t.op /\ Failed(t).refresh = t.refresh
         /\ Failed(t).alone = t.alone /\ Failed(t).fault = t.fault
<1>1. PICK op \in {"list", "get", "resolve"}, r \in BOOLEAN, a \in BOOLEAN, f \in BOOLEAN :
        op = t.op /\ r = t.refresh /\ a = t.alone /\ f = t.fault
  BY DEF Task
<1> DEFINE kept == IF t.pc = "index" THEN t.release ELSE NoRelease
<1>8. PICK k \in Release \cup {NoRelease} : k = kept
  BY DEF Task
<1>2. PICK i \in Task : i = Idle
  BY IdleFacts
<1>3. PICK y : y = [i EXCEPT !.pc = "failed", !.op = op, !.refresh = r, !.alone = a, !.fault = f,
                         !.release = k]
  OBVIOUS
<1>4. i.asked = 1
  BY <1>2, IdleFacts
<1>5. y \in Task
  <2>1. PICK x : x = [i EXCEPT !.pc = "failed", !.op = op, !.refresh = r]
    OBVIOUS
  <2>2. x \in Task
    BY <2>1 DEF Task, Pc
  <2>3. y = [x EXCEPT !.alone = a, !.fault = f, !.release = k]
    BY <1>3, <2>1
  <2> QED
    BY <2>2, <2>3 DEF Task
<1>6. /\ y.pc = "failed" /\ y.release = k /\ y.asked = 1
      /\ y.op = op /\ y.refresh = r /\ y.alone = a /\ y.fault = f
  BY <1>3, <1>4 DEF Task
<1>7. y = Failed(t)
  BY <1>1, <1>2, <1>3, <1>8 DEF Failed
<1> QED
  BY <1>1, <1>5, <1>6, <1>7, <1>8

\* A call that failed because of the network or the disk remembers that too.
LEMMA FaultFacts ==
  ASSUME NEW t \in Task
  PROVE  /\ Failed([t EXCEPT !.fault = TRUE]) \in Task
         /\ Failed([t EXCEPT !.fault = TRUE]).pc = "failed"
         /\ Failed([t EXCEPT !.fault = TRUE]).asked = 1
         /\ Failed([t EXCEPT !.fault = TRUE]).alone = t.alone
         /\ Failed([t EXCEPT !.fault = TRUE]).fault
<1>1. PICK u : u = [t EXCEPT !.fault = TRUE]
  OBVIOUS
<1>2. u \in Task /\ u.alone = t.alone /\ u.fault
  BY <1>1 DEF Task
<1> QED
  BY <1>1, <1>2, FailedFacts

\* A call that is done hands out what it has found.
LEMMA DoneFacts ==
  ASSUME NEW t \in Task
  PROVE  /\ Done(t) \in Task /\ Done(t).pc = "done" /\ Done(t).op = t.op
         /\ Done(t).refresh = t.refresh /\ Done(t).release = t.release /\ Done(t).got = t.got
         /\ Done(t).of = t.of /\ Done(t).asked = t.asked /\ Done(t).alone = t.alone
  BY FileFacts DEF Done, Task, Pc

-----------------------------------------------------------------------------
\* A step of p that writes no file keeps the invariant if what p relies on
\* afterwards is in the cache: the other calls rely on files, which stay as
\* they are, and on nobody having started to write the manifest they have read.
LEMMA MoveInv ==
  ASSUME IInv, NEW p \in Caller, NEW u \in Task,
         Active(task[p]), task[p].pc # "write", task' = [task EXCEPT ![p] = u],
         UNCHANGED <<published, quality, file, named, cut>>, faults' \in 0 .. MaxFaults,
         Consistent(u), Excused(u, quality), u.asked <= published, Indexed(u, file),
         u.alone => task[p].alone, Settled(u, file, cut, task'),
         \A r \in Release : Heads(u, <<"manifest", r>>) =>
            Heads(task[p], <<"manifest", r>>) \/ file[<<"manifest", r>>] # "part"
  PROVE  IInv'
<1>1. \A q \in Caller : task'[q] = IF q = p THEN u ELSE task[q]
  BY DEF IInv, TypeOK
<1>2. TypeOK'
  <2>1. task' \in [Caller -> Task]
    BY DEF IInv, TypeOK
  <2>2. u.pc \in {"index", "asset", "read", "save"} => u.release # NoRelease
    BY RecipesAssumption DEF Consistent, Release
  <2> QED
    BY <1>1, <2>1, <2>2 DEF IInv, TypeOK
<1>3. AloneInv'
  BY <1>1 DEF IInv, AloneInv
<1>4. CutInv'
  BY <1>1 DEF IInv, CutInv, Writing
<1>5. NamedInv'
  BY DEF IInv, NamedInv
<1>6. ASSUME NEW q \in Caller, q # p PROVE Settled(task[q], file, cut, task')
  <2> SUFFICES ASSUME HasManifest(task[q]), task[q].got = "part", task[q].alone
               PROVE  /\ file[<<"manifest", task[q].of>>] = "part"
                      /\ <<"manifest", task[q].of>> \in cut
                      /\ \A x \in Caller : ~ Heads(task'[x], <<"manifest", task[q].of>>)
    BY DEF Settled
  <2>1. /\ file[<<"manifest", task[q].of>>] = "part"
        /\ <<"manifest", task[q].of>> \in cut
        /\ \A x \in Caller : ~ Heads(task[x], <<"manifest", task[q].of>>)
    BY DEF IInv, CallInv, Settled
  <2>2. task[q].of \in Release
    BY DEF IInv, CallInv, Consistent, HasManifest
  <2> QED
    BY <1>1, <2>1, <2>2
<1>7. CallInv'
  BY <1>1, <1>6 DEF IInv, CallInv
<1>8. ExcusedInv'
  BY <1>1 DEF IInv, ExcusedInv
<1> QED
  BY <1>2, <1>3, <1>4, <1>5, <1>7, <1>8 DEF IInv

\* A call may fail at any point at which it writes no file; a list with refresh
\* may do so only with a reason.
LEMMA FailInv ==
  ASSUME IInv, NEW p \in Caller, NEW u \in Task, Active(task[p]), task[p].pc # "write",
         task' = [task EXCEPT ![p] = u], UNCHANGED <<published, quality, file, named, cut>>,
         faults' \in 0 .. MaxFaults,
         u.pc = "failed", u.asked = 1, u.alone => task[p].alone, Excused(u, quality)
  PROVE  IInv'
<1>1. Consistent(u)
  BY RecipesAssumption DEF Consistent, HasManifest, Release, Task
<1>2. u.asked <= published
  BY DEF IInv, TypeOK, Release
<1>3. Indexed(u, file) /\ Settled(u, file, cut, task')
  BY DEF Indexed, NeedsIndex, Settled, HasManifest
<1>4. \A f : ~ Heads(u, f)
  BY DEF Heads
<1> QED
  BY <1>1, <1>2, <1>3, <1>4, MoveInv

\* A call may go on as long as it hands nothing out, relies on no index that is
\* missing, and is not about to write a manifest of which there is already a
\* part.
LEMMA GoInv ==
  ASSUME IInv, NEW p \in Caller, NEW u \in Task, Active(task[p]), task[p].pc # "write",
         task' = [task EXCEPT ![p] = u], UNCHANGED <<published, quality, file, named, cut>>,
         faults' = faults,
         Consistent(u), u.asked = task[p].asked, u.alone = task[p].alone, Indexed(u, file),
         ~ HasManifest(u), u.pc # "failed",
         \A r \in Release : Heads(u, <<"manifest", r>>) =>
            Heads(task[p], <<"manifest", r>>) \/ file[<<"manifest", r>>] # "part"
  PROVE  IInv'
<1>1. Settled(u, file, cut, task') /\ Excused(u, quality)
  BY DEF Settled, Excused
<1>2. u.asked <= published /\ faults' \in 0 .. MaxFaults
  BY DEF IInv, CallInv, TypeOK
<1> QED
  BY <1>1, <1>2, MoveInv

-----------------------------------------------------------------------------
\* Reading latest.json, or passing it by for a refresh: the release it names
\* has its index in the cache.
LEMMA ReadLatestInv ==
  ASSUME IInv, NEW p \in Caller, ReadLatest(p)
  PROVE  IInv'
<1>1. PICK t \in Task : t = task[p]
  BY DEF IInv, TypeOK
<1>2. t.pc = "latest" /\ Active(t) /\ t.asked <= published /\ Consistent(t)
  BY <1>1 DEF ReadLatest, Active, IInv, CallInv
<1>3. UNCHANGED <<published, quality, file, named, cut, faults>> /\ faults' \in 0 .. MaxFaults
  BY DEF ReadLatest, IInv, TypeOK
<1>4. CASE task' = [task EXCEPT ![p].pc = "ask"]
  <2>1. PICK u : u = [t EXCEPT !.pc = "ask"]
    OBVIOUS
  <2>2. /\ u \in Task /\ u.pc = "ask" /\ u.asked = t.asked /\ u.alone = t.alone
        /\ u.release = t.release /\ u.refresh = t.refresh
    BY <2>1 DEF Task, Pc
  <2>3. Consistent(u) /\ Indexed(u, file) /\ ~ HasManifest(u) /\ \A f : ~ Heads(u, f)
    BY <1>2, <2>2 DEF Consistent, Indexed, NeedsIndex, HasManifest, Heads
  <2> QED
    BY <1>1, <1>2, <1>3, <1>4, <2>1, <2>2, <2>3, GoInv
<1>5. CASE /\ ~ t.refresh /\ file[Latest] = "whole" /\ file[<<"index", named>>] # "absent"
           /\ task' = [task EXCEPT ![p] = [@ EXCEPT !.pc = "index", !.release = named]]
  <2>1. PICK r \in Release : r = named
    BY <1>5 DEF IInv, NamedInv
  <2>2. PICK u : u = [t EXCEPT !.pc = "index", !.release = r]
    OBVIOUS
  <2>3. /\ u \in Task /\ u.pc = "index" /\ u.asked = t.asked /\ u.alone = t.alone
        /\ u.release = r /\ u.refresh = t.refresh
    BY <2>2 DEF Task, Pc
  <2>4. t.asked <= r
    BY <1>2, <1>5 DEF Release, Consistent
  <2>5. Consistent(u) /\ ~ HasManifest(u) /\ \A f : ~ Heads(u, f)
    BY <1>2, <1>5, <2>3, <2>4 DEF Consistent, HasManifest, Heads
  <2>6. Indexed(u, file)
    BY <1>5, <2>1, <2>3 DEF Indexed
  <2> QED
    BY <1>1, <1>2, <1>3, <1>5, <2>1, <2>2, <2>3, <2>5, <2>6, GoInv
<1>6. CASE ~ t.refresh /\ task' = [task EXCEPT ![p] = Failed(@)]
  <2>1. PICK u : u = Failed(t)
    OBVIOUS
  <2>2. /\ u \in Task /\ u.pc = "failed" /\ u.asked = 1 /\ u.alone = t.alone /\ ~ u.refresh
    BY <1>6, <2>1, FailedFacts
  <2>4. Excused(u, quality)
    BY <2>2 DEF Excused
  <2>3. task' = [task EXCEPT ![p] = u]
    BY <1>1, <1>6, <2>1
  <2> QED
    BY <1>1, <1>2, <1>3, <2>2, <2>3, <2>4, FailInv
<1> QED
  BY <1>1, <1>4, <1>5, <1>6 DEF ReadLatest, Goto

\* A download, or the question for the latest release, may fail.
LEMMA FailsInv ==
  ASSUME IInv, NEW p \in Caller, Active(task[p]), task[p].pc # "write", Fails(p),
         UNCHANGED <<published, quality, file, named, cut>>, faults' \in 0 .. MaxFaults
  PROVE  IInv'
<1>1. PICK t \in Task : t = task[p]
  BY DEF IInv, TypeOK
<1>2. task' = [task EXCEPT ![p] = Failed([t EXCEPT !.fault = TRUE])]
  BY <1>1 DEF Fails
<1>3. PICK u : u = Failed([t EXCEPT !.fault = TRUE])
  OBVIOUS
<1>4. u \in Task /\ u.pc = "failed" /\ u.asked = 1 /\ u.alone = t.alone /\ u.fault
  BY <1>3, FaultFacts
<1>5. Excused(u, quality)
  BY <1>4 DEF Excused
<1> QED
  BY <1>1, <1>2, <1>3, <1>4, <1>5, FailInv

\* The answer to the question for the latest release is as new as any release
\* published when the call began.
LEMMA AskInv ==
  ASSUME IInv, NEW p \in Caller, Ask(p)
  PROVE  IInv'
<1>1. PICK t \in Task : t = task[p]
  BY DEF IInv, TypeOK
<1>2. t.pc = "ask" /\ Active(t) /\ t.asked <= published /\ Consistent(t)
  BY <1>1 DEF Ask, Active, IInv, CallInv
<1>3. UNCHANGED <<published, quality, file, named, cut, faults>> /\ faults' \in 0 .. MaxFaults
  BY DEF Ask, IInv, TypeOK
<1>4. CASE task' = [task EXCEPT ![p] = [@ EXCEPT !.pc = "fetch", !.release = published,
                                                 !.file = <<"index", published>>]]
  <2>1. PICK r \in Release : r = published
    BY DEF IInv, TypeOK
  <2>2. PICK u : u = [t EXCEPT !.pc = "fetch", !.release = r, !.file = <<"index", r>>]
    OBVIOUS
  <2>3. /\ u \in Task /\ u.pc = "fetch" /\ u.asked = t.asked /\ u.alone = t.alone
        /\ u.release = r /\ u.file = <<"index", r>> /\ u.refresh = t.refresh
    BY <2>2, FileFacts DEF Task, Pc
  <2>4. Consistent(u) /\ ~ HasManifest(u) /\ Indexed(u, file)
    BY <1>2, <2>1, <2>3 DEF Consistent, HasManifest, Indexed, NeedsIndex
  <2>5. \A m : ~ Heads(u, <<"manifest", m>>)
    BY <2>3, FileFacts DEF Heads
  <2> QED
    BY <1>1, <1>2, <1>3, <1>4, <2>1, <2>2, <2>3, <2>4, <2>5, GoInv
<1>5. CASE Fails(p)
  BY <1>1, <1>2, <1>3, <1>5, FailsInv
<1> QED
  BY <1>4, <1>5 DEF Ask

\* A file is downloaded as a whole before the cache is touched.
LEMMA FetchInv ==
  ASSUME IInv, NEW p \in Caller, Fetch(p)
  PROVE  IInv'
<1>1. PICK t \in Task : t = task[p]
  BY DEF IInv, TypeOK
<1>2. t.pc = "fetch" /\ Active(t) /\ Consistent(t)
  BY <1>1 DEF Fetch, Active, IInv, CallInv
<1>3. UNCHANGED <<published, quality, file, named, cut, faults>> /\ faults' \in 0 .. MaxFaults
  BY DEF Fetch, IInv, TypeOK
<1>4. CASE Goto(p, "open")
  <2>1. PICK u : u = [t EXCEPT !.pc = "open"]
    OBVIOUS
  <2>2. /\ u \in Task /\ u.pc = "open" /\ u.asked = t.asked /\ u.alone = t.alone
        /\ u.release = t.release /\ u.file = t.file /\ u.refresh = t.refresh
    BY <2>1 DEF Task, Pc
  <2>3. u.file # Latest
    BY <1>2, <2>2, FileFacts DEF Consistent
  <2>4. Consistent(u) /\ ~ HasManifest(u) /\ Indexed(u, file)
    BY <1>2, <2>2, <2>3 DEF Consistent, HasManifest, Indexed, NeedsIndex
  <2>5. \A f : Heads(u, f) => Heads(t, f)
    BY <1>2, <2>2 DEF Heads
  <2>6. task' = [task EXCEPT ![p] = u]
    BY <1>1, <1>4, <2>1 DEF Goto
  <2> QED
    BY <1>1, <1>2, <1>3, <2>2, <2>4, <2>5, <2>6, GoInv
<1>5. CASE Fails(p)
  BY <1>1, <1>2, <1>3, <1>5, FailsInv
<1> QED
  BY <1>4, <1>5 DEF Fetch

\* The index is read back; one that is not whole fails a list, which an
\* undisturbed refresh never sees since it has written the index itself, and so
\* does one this version cannot parse or not show.
LEMMA ReadIndexInv ==
  ASSUME IInv, NEW p \in Caller, ReadIndex(p)
  PROVE  IInv'
<1>1. PICK t \in Task : t = task[p]
  BY DEF IInv, TypeOK
<1>2. t.pc = "index" /\ Active(t) /\ Consistent(t) /\ t.release \in Release /\ Indexed(t, file)
  BY <1>1 DEF ReadIndex, Active, IInv, CallInv, Consistent
<1>3. UNCHANGED <<published, quality, file, named, cut, faults>> /\ faults' \in 0 .. MaxFaults
  BY DEF ReadIndex, IInv, TypeOK
<1>4. CASE task' = [task EXCEPT ![p] = AfterIndex(t)]
  <2>1. CASE t.op = "list" /\ quality[t.release] = "fine"
    <3>1. PICK u : u = Done(t)
      OBVIOUS
    <3>2. /\ u \in Task /\ u.pc = "done" /\ u.op = "list" /\ u.refresh = t.refresh
          /\ u.release = t.release /\ u.asked = t.asked /\ u.alone = t.alone
      BY <2>1, <3>1, DoneFacts
    <3>3. Consistent(u) /\ ~ HasManifest(u) /\ Indexed(u, file) /\ \A f : ~ Heads(u, f)
      BY <1>2, <3>2 DEF Consistent, HasManifest, Indexed, NeedsIndex, Heads
    <3>4. task' = [task EXCEPT ![p] = u]
      BY <1>4, <2>1, <3>1 DEF AfterIndex
    <3> QED
      BY <1>1, <1>2, <1>3, <3>2, <3>3, <3>4, GoInv
  <2>2. CASE t.op # "list"
    <3>1. PICK u : u = [t EXCEPT !.pc = "asset", !.file = <<"manifest", t.release>>]
      OBVIOUS
    <3>2. PICK f \in File : f = <<"manifest", t.release>>
      BY <1>2, FileFacts
    <3>3. /\ u \in Task /\ u.pc = "asset" /\ u.asked = t.asked /\ u.alone = t.alone
          /\ u.release = t.release /\ u.refresh = t.refresh /\ u.file = <<"manifest", u.release>>
      BY <3>1, <3>2 DEF Task, Pc
    <3>4. Consistent(u) /\ ~ HasManifest(u) /\ Indexed(u, file) /\ \A g : ~ Heads(u, g)
      BY <1>2, <3>3 DEF Consistent, HasManifest, Indexed, NeedsIndex, Heads
    <3>5. task' = [task EXCEPT ![p] = u]
      BY <1>4, <2>2, <3>1 DEF AfterIndex
    <3> QED
      BY <1>1, <1>2, <1>3, <3>3, <3>4, <3>5, GoInv
  <2>3. CASE t.op = "list" /\ quality[t.release] # "fine"
    <3>1. PICK u : u = Failed(t)
      OBVIOUS
    <3>2. /\ u \in Task /\ u.pc = "failed" /\ u.release = t.release /\ u.asked = 1
          /\ u.alone = t.alone
      BY <1>2, <3>1, FailedFacts
    <3>3. Excused(u, quality)
      BY <1>2, <2>3, <3>2, RecipesAssumption DEF Excused, Release
    <3>4. task' = [task EXCEPT ![p] = u]
      BY <1>4, <2>3, <3>1 DEF AfterIndex
    <3> QED
      BY <1>1, <1>2, <1>3, <3>2, <3>3, <3>4, FailInv
  <2> QED
    BY <2>1, <2>2, <2>3
<1>5. CASE /\ \/ file[<<"index", t.release>>] # "whole" \/ quality[t.release] = "unparsable"
              \/ t.op # "list"
           /\ task' = [task EXCEPT ![p] = Failed(t)]
  <2>1. PICK u : u = Failed(t)
    OBVIOUS
  <2>2. /\ u \in Task /\ u.pc = "failed" /\ u.release = t.release /\ u.asked = 1
        /\ u.alone = t.alone /\ u.op = t.op /\ u.refresh = t.refresh
    BY <1>2, <2>1, FailedFacts
  <2>3. Excused(u, quality)
    BY <1>2, <1>5, <2>2, RecipesAssumption DEF Excused, Indexed, NeedsIndex, Release
  <2>4. task' = [task EXCEPT ![p] = u]
    BY <1>5, <2>1
  <2> QED
    BY <1>1, <1>2, <1>3, <2>2, <2>3, <2>4, FailInv
<1> QED
  BY <1>1, <1>4, <1>5 DEF ReadIndex

\* A manifest that is in the cache, if only in part, is used; one that is
\* missing or empty is downloaded.
LEMMA EnsureAssetInv ==
  ASSUME IInv, NEW p \in Caller, EnsureAsset(p)
  PROVE  IInv'
<1>1. PICK t \in Task : t = task[p]
  BY DEF IInv, TypeOK
<1>2. t.pc = "asset" /\ Active(t) /\ Consistent(t)
  BY <1>1 DEF EnsureAsset, Active, IInv, CallInv
<1>3. UNCHANGED <<published, quality, file, named, cut, faults>> /\ faults' \in 0 .. MaxFaults
  BY DEF EnsureAsset, IInv, TypeOK
<1>4. ASSUME NEW c \in {"read", "fetch"}, task' = [task EXCEPT ![p] = [t EXCEPT !.pc = c]],
             c = "fetch" => file[t.file] # "part", c = "read" => t.op = "resolve"
      PROVE  IInv'
  <2>1. PICK u : u = [t EXCEPT !.pc = c]
    OBVIOUS
  <2>2. /\ u \in Task /\ u.pc = c /\ u.op = t.op /\ u.asked = t.asked /\ u.alone = t.alone
        /\ u.release = t.release /\ u.file = t.file /\ u.refresh = t.refresh
    BY <2>1 DEF Task, Pc
  <2>3. Consistent(u) /\ ~ HasManifest(u) /\ Indexed(u, file)
    BY <1>2, <1>4, <2>2 DEF Consistent, HasManifest, Indexed, NeedsIndex
  <2>4. \A f : Heads(u, f) => file[f] # "part"
    BY <1>4, <2>2 DEF Heads
  <2>5. task' = [task EXCEPT ![p] = u]
    BY <1>4, <2>1
  <2>6. t.pc # "write"
    BY <1>2
  <2> QED
    BY <1>1, <1>2, <1>3, <2>2, <2>3, <2>4, <2>5, <2>6, GoInv
<1>5. CASE t.op # "resolve" /\ task' = [task EXCEPT ![p] = Done(t)]
  <2>1. PICK u : u = Done(t)
    OBVIOUS
  <2>2. /\ u \in Task /\ u.pc = "done" /\ u.op # "resolve" /\ u.refresh = t.refresh
        /\ u.release = t.release /\ u.asked = t.asked /\ u.alone = t.alone
    BY <1>5, <2>1, DoneFacts
  <2>3. Consistent(u) /\ ~ HasManifest(u) /\ Indexed(u, file) /\ \A f : ~ Heads(u, f)
    BY <1>2, <2>2 DEF Consistent, HasManifest, Indexed, NeedsIndex, Heads
  <2>4. task' = [task EXCEPT ![p] = u]
    BY <1>5, <2>1
  <2> QED
    BY <1>1, <1>2, <1>3, <2>2, <2>3, <2>4, GoInv
<1>6. \/ t.op # "resolve" /\ task' = [task EXCEPT ![p] = Done(t)]
      \/ t.op = "resolve" /\ task' = [task EXCEPT ![p] = [t EXCEPT !.pc = "read"]]
      \/ file[t.file] # "part" /\ task' = [task EXCEPT ![p] = [t EXCEPT !.pc = "fetch"]]
  BY <1>1 DEF EnsureAsset
<1> QED
  BY <1>4, <1>5, <1>6

\* Reading the manifest of the release: a file that an undisturbed call finds
\* in part was cut off before, for nobody is writing it.
LEMMA ReadManifestInv ==
  ASSUME IInv, NEW p \in Caller, ReadManifest(p)
  PROVE  IInv'
<1>1. PICK t \in Task : t = task[p]
  BY DEF IInv, TypeOK
<1>2. t.pc = "read" /\ Active(t) /\ Consistent(t) /\ t.release \in Release /\ t.asked <= published
  BY <1>1 DEF ReadManifest, Active, IInv, CallInv, Consistent
<1>3. UNCHANGED <<published, quality, file, named, cut, faults>> /\ faults' \in 0 .. MaxFaults
  BY DEF ReadManifest, IInv, TypeOK
<1>4. PICK f \in File : f = <<"manifest", t.release>> /\ f # Latest
  BY <1>2, FileFacts
<1>5. CASE /\ file[f] \in {"part", "whole"}
           /\ task' = [task EXCEPT ![p] = [@ EXCEPT !.pc = "save", !.of = t.release, !.got = file[f]]]
  <2>1. PICK s \in {"part", "whole"} : s = file[f]
    BY <1>5
  <2>2. PICK u : u = [t EXCEPT !.pc = "save", !.of = t.release, !.got = s]
    OBVIOUS
  <2>3. /\ u \in Task /\ u.pc = "save" /\ u.op = t.op /\ u.asked = t.asked /\ u.alone = t.alone
        /\ u.release = t.release /\ u.refresh = t.refresh /\ u.of = t.release /\ u.got = s
    BY <2>2, <1>2 DEF Task, Pc
  <2>4. Consistent(u) /\ Indexed(u, file) /\ \A g : ~ Heads(u, g)
    BY <1>2, <2>3 DEF Consistent, Indexed, NeedsIndex, Heads, HasManifest
  <2>8. Excused(u, quality)
    BY <2>3 DEF Excused
  <2>5. \A q \in Caller : task'[q] = IF q = p THEN u ELSE task[q]
    BY <1>1, <1>5, <2>1, <2>2 DEF IInv, TypeOK
  <2>6. Settled(u, file, cut, task')
    <3> SUFFICES ASSUME s = "part", t.alone
                 PROVE  f \in cut /\ \A q \in Caller : ~ Heads(task'[q], f)
      BY <1>4, <2>1, <2>3 DEF Settled
    <3>1. \A q \in Caller \ {p} : ~ Active(task[q])
      BY <1>1, <1>2 DEF IInv, AloneInv
    <3>2. \A q \in Caller : ~ Writing(q, f)
      BY <1>1, <1>2, <3>1 DEF Writing, Active
    <3>3. \A q \in Caller : ~ Heads(task'[q], f)
      BY <2>4, <2>5, <3>1 DEF Heads, Active
    <3> QED
      BY <1>4, <2>1, <3>2, <3>3 DEF IInv, CutInv
  <2>7. task' = [task EXCEPT ![p] = u]
    BY <1>1, <1>5, <2>1, <2>2
  <2> QED
    BY <1>1, <1>2, <1>3, <2>3, <2>4, <2>6, <2>7, <2>8, MoveInv
<1>6. CASE task' = [task EXCEPT ![p] = Failed(@)]
  <2>1. PICK u : u = Failed(t)
    OBVIOUS
  <2>2. /\ u \in Task /\ u.pc = "failed" /\ u.asked = 1 /\ u.alone = t.alone /\ u.op = t.op
    BY <2>1, FailedFacts
  <2>3. Excused(u, quality)
    BY <1>2, <2>2 DEF Consistent, Excused
  <2>4. task' = [task EXCEPT ![p] = u]
    BY <1>1, <1>6, <2>1
  <2> QED
    BY <1>1, <1>2, <1>3, <2>2, <2>3, <2>4, FailInv
<1> QED
  BY <1>1, <1>4, <1>5, <1>6 DEF ReadManifest

\* The resolved manifest goes to a file of its own, outside the cache.
LEMMA SaveResolvedInv ==
  ASSUME IInv, NEW p \in Caller, SaveResolved(p)
  PROVE  IInv'
<1>1. PICK t \in Task : t = task[p]
  BY DEF IInv, TypeOK
<1>2. t.pc = "save" /\ Active(t) /\ Consistent(t) /\ t.asked <= published
  BY <1>1 DEF SaveResolved, Active, IInv, CallInv
<1>3. UNCHANGED <<published, quality, file, named, cut>> /\ faults' \in 0 .. MaxFaults
  BY RecipesAssumption DEF SaveResolved, IInv, TypeOK
<1>4. CASE task' = [task EXCEPT ![p] = Done(@)]
  <2>1. PICK u : u = Done(t)
    OBVIOUS
  <2>2. /\ u \in Task /\ u.pc = "done" /\ u.refresh = t.refresh /\ u.got = t.got /\ u.of = t.of
        /\ u.release = t.release /\ u.asked = t.asked /\ u.alone = t.alone
    BY <2>1, DoneFacts
  <2>3. Consistent(u) /\ Indexed(u, file) /\ \A f : ~ Heads(u, f)
    BY <1>2, <2>2 DEF Consistent, HasManifest, Indexed, NeedsIndex, Heads
  <2>8. Excused(u, quality)
    BY <2>2 DEF Excused
  <2>4. \A q \in Caller : task'[q] = IF q = p THEN u ELSE task[q]
    BY <1>1, <1>4, <2>1 DEF IInv, TypeOK
  <2>5. Settled(t, file, cut, task)
    BY <1>1 DEF IInv, CallInv
  <2>6. Settled(u, file, cut, task')
    BY <1>2, <2>2, <2>3, <2>4, <2>5 DEF Settled, HasManifest
  <2>7. task' = [task EXCEPT ![p] = u]
    BY <1>1, <1>4, <2>1
  <2> QED
    BY <1>1, <1>2, <1>3, <2>2, <2>3, <2>6, <2>7, <2>8, MoveInv
<1>5. CASE Fails(p)
  BY <1>1, <1>2, <1>3, <1>5, FailsInv
<1> QED
  BY <1>4, <1>5 DEF SaveResolved

-----------------------------------------------------------------------------
\* What opening a file changes in the calls: p goes on, and the calls that write the same file
\* learn of it.
Opened(p) ==
  \A q \in Caller :
    /\ task'[q] \in Task
    /\ task'[q].pc = IF q = p THEN "write" ELSE task[q].pc
    /\ task'[q].op = task[q].op /\ task'[q].refresh = task[q].refresh
    /\ task'[q].release = task[q].release /\ task'[q].file = task[q].file
    /\ task'[q].got = task[q].got /\ task'[q].of = task[q].of
    /\ task'[q].asked = task[q].asked /\ task'[q].alone = task[q].alone
    /\ task'[q].fault = task[q].fault
    /\ task'[q].mixed =>
         \/ q # p /\ task[q].mixed
         \/ task[q].file = Latest /\ \E x \in Caller \ {q} : Active(task[x])

\* What opening a file changes in the calls: p writes from now on, and those
\* that write latest.json at the same time learn of it.
LEMMA OpenFacts ==
  ASSUME IInv, NEW p \in Caller, Open(p)
  PROVE  Opened(p) /\ task' \in [Caller -> Task]
<1>1. PICK t \in Task : t = task[p]
  BY DEF IInv, TypeOK
<1>2. PICK f \in File : f = t.file
  BY DEF Task
<1>3. PICK others \in SUBSET Caller : others = {q \in Caller \ {p} : Writing(q, f)}
  OBVIOUS
<1>4. PICK b \in BOOLEAN : b = (f = Latest /\ others # {})
  <2>1. CASE f = Latest /\ others # {}
    <3>1. (f = Latest /\ others # {}) = TRUE
      BY <2>1
    <3> QED
      BY <3>1, Zenon
  <2>2. CASE ~ (f = Latest /\ others # {})
    <3>1. (f = Latest /\ others # {}) = FALSE
      BY <2>2
    <3> QED
      BY <3>1, Zenon
  <2> QED
    BY <2>1, <2>2
<1>5. PICK c \in BOOLEAN : c = (f = Latest)
  <2>1. CASE f = Latest
    <3>1. (f = Latest) = TRUE
      BY <2>1
    <3> QED
      BY <3>1, Zenon
  <2>2. CASE f # Latest
    <3>1. (f = Latest) = FALSE
      BY <2>2
    <3> QED
      BY <3>1, Zenon
  <2> QED
    BY <2>1, <2>2
<1>6. (b => f = Latest /\ others # {}) /\ (c => f = Latest)
  BY <1>4, <1>5
<1>7. task' = [q \in Caller |->
         IF q = p THEN [task[p] EXCEPT !.pc = "write", !.mixed = b]
         ELSE IF q \in others THEN [task[q] EXCEPT !.mixed = c] ELSE task[q]]
  BY <1>1, <1>2, <1>3, <1>4, <1>5 DEF Open
<1>8. t.pc = "open" /\ Active(t)
  BY <1>1 DEF Open, Active
<1>9. \A x \in others : Active(task[x]) /\ x # p
  BY <1>3 DEF Writing, Active
<1>10. ASSUME NEW q \in Caller
       PROVE  /\ task'[q] \in Task
              /\ task'[q].pc = IF q = p THEN "write" ELSE task[q].pc
              /\ task'[q].op = task[q].op /\ task'[q].refresh = task[q].refresh
              /\ task'[q].release = task[q].release /\ task'[q].file = task[q].file
              /\ task'[q].got = task[q].got /\ task'[q].of = task[q].of
              /\ task'[q].asked = task[q].asked /\ task'[q].alone = task[q].alone
              /\ task'[q].fault = task[q].fault
              /\ task'[q].mixed =>
                   \/ q # p /\ task[q].mixed
                   \/ task[q].file = Latest /\ \E x \in Caller \ {q} : Active(task[x])
  <2>1. PICK z \in Task : z = task[q]
    BY DEF IInv, TypeOK
  <2>2. CASE q = p
    <3>1. PICK u : u = [z EXCEPT !.pc = "write", !.mixed = b]
      OBVIOUS
    <3>2. /\ u \in Task /\ u.pc = "write" /\ u.op = z.op /\ u.refresh = z.refresh
          /\ u.release = z.release /\ u.file = z.file /\ u.got = z.got /\ u.of = z.of
          /\ u.asked = z.asked /\ u.alone = z.alone /\ u.fault = z.fault /\ u.mixed = b
      BY <3>1 DEF Task, Pc
    <3>3. task'[q] = u
      BY <1>7, <2>1, <2>2, <3>1
    <3>4. b => z.file = Latest /\ \E x \in Caller \ {q} : Active(task[x])
      BY <1>1, <1>2, <1>6, <1>9, <2>1, <2>2
    <3> QED
      BY <2>1, <2>2, <3>2, <3>3, <3>4
  <2>3. CASE q # p /\ q \in others
    <3>1. PICK u : u = [z EXCEPT !.mixed = c]
      OBVIOUS
    <3>2. /\ u \in Task /\ u.pc = z.pc /\ u.op = z.op /\ u.refresh = z.refresh
          /\ u.release = z.release /\ u.file = z.file /\ u.got = z.got /\ u.of = z.of
          /\ u.asked = z.asked /\ u.alone = z.alone /\ u.fault = z.fault /\ u.mixed = c
      BY <3>1 DEF Task, Pc
    <3>3. task'[q] = u
      BY <1>7, <2>1, <2>3, <3>1
    <3>4. c => z.file = Latest /\ \E x \in Caller \ {q} : Active(task[x])
      BY <1>1, <1>3, <1>6, <1>8, <2>1, <2>3 DEF Writing
    <3> QED
      BY <2>1, <2>3, <3>2, <3>3, <3>4
  <2>4. CASE q # p /\ q \notin others
    BY <1>7, <2>1, <2>4
  <2> QED
    BY <2>2, <2>3, <2>4
<1>11. Opened(p)
  BY <1>10 DEF Opened
<1>12. task' \in [Caller -> Task]
  BY <1>7, <1>10
<1> QED
  BY <1>1, <1>2, <1>11, <1>12

\* Opening a file truncates it, which is remembered by p being about to write
\* it: nobody who is undisturbed relies on that file, and an index remains
\* there.
LEMMA OpenInv ==
  ASSUME IInv, NEW p \in Caller, Open(p)
  PROVE  IInv'
<1>1. PICK f : f = task[p].file
  OBVIOUS
<1>2. task' \in [Caller -> Task] /\ Opened(p)
  BY <1>1, OpenFacts
<1>3. PICK s \in {"empty", "part"} : file' = [file EXCEPT ![f] = s]
  BY <1>1 DEF Open
<1>4. /\ UNCHANGED <<published, quality, named, cut, faults>>
      /\ task[p].pc = "open" /\ Active(task[p]) /\ f \in File /\ Consistent(task[p])
      /\ f \in {Latest, <<"index", task[p].release>>, <<"manifest", task[p].release>>}
  BY <1>1 DEF Open, Active, IInv, TypeOK, CallInv, Consistent, Task
<1>5. \A g \in File : file'[g] = IF g = f THEN s ELSE file[g]
  BY <1>3 DEF IInv, TypeOK
<1>6. TypeOK'
  <2>1. file' \in [File -> Status]
    BY <1>3 DEF IInv, TypeOK, Status
  <2>2. \A q \in Caller :
          task'[q].pc \in {"index", "asset", "read", "save"} => task'[q].release # NoRelease
    BY <1>2 DEF Opened, IInv, TypeOK
  <2> QED
    BY <1>2, <1>4, <2>1, <2>2 DEF IInv, TypeOK
<1>7. AloneInv'
  BY <1>2, <1>4 DEF Opened, IInv, AloneInv, Active
<1>8. CutInv'
  <2> SUFFICES ASSUME NEW g \in File \ {Latest}, file'[g] \in {"empty", "part"}, g \notin cut
               PROVE  \E q \in Caller : task'[q].pc = "write" /\ task'[q].file = g
    BY <1>4 DEF CutInv, Writing
  <2>1. CASE g = f
    BY <1>1, <1>2, <2>1 DEF Opened
  <2>2. CASE g # f
    <3>1. PICK q \in Caller : Writing(q, g)
      BY <1>5, <2>2 DEF IInv, CutInv
    <3> QED
      BY <1>2, <1>4, <3>1 DEF Opened, Writing
  <2> QED
    BY <2>1, <2>2
<1>9. NamedInv'
  <2> SUFFICES ASSUME file'[Latest] = "whole"
               PROVE  named \in Release /\ file'[<<"index", named>>] # "absent"
    BY <1>4 DEF NamedInv
  <2>1. file[Latest] = "whole"
    BY <1>5, FileFacts
  <2> QED
    BY <1>5, <2>1, FileFacts DEF IInv, NamedInv
<1>10. ASSUME NEW q \in Caller PROVE Consistent(task'[q]) /\ task'[q].asked <= published
  <2>1. Consistent(task[q]) /\ task[q].asked <= published
    BY DEF IInv, CallInv
  <2>2. task'[q].pc = "write" /\ task'[q].mixed => task'[q].file = Latest /\ ~ task'[q].alone
    <3> SUFFICES ASSUME task'[q].pc = "write", task'[q].mixed
                 PROVE  task[q].file = Latest /\ ~ task[q].alone
      BY <1>2 DEF Opened
    <3>1. Active(task[q])
      BY <1>2, <1>4 DEF Opened, Active
    <3>2. CASE q # p /\ task[q].mixed
      BY <1>2, <2>1, <3>2 DEF Opened, Consistent
    <3>3. CASE task[q].file = Latest /\ \E x \in Caller \ {q} : Active(task[x])
      BY <3>1, <3>3 DEF IInv, AloneInv
    <3> QED
      BY <1>2, <3>2, <3>3 DEF Opened
  <2> QED
    BY <1>2, <1>4, <2>1, <2>2 DEF Opened, Consistent, HasManifest
<1>11. ASSUME NEW q \in Caller PROVE Indexed(task'[q], file')
  <2>1. Indexed(task[q], file) /\ Consistent(task[q])
    BY DEF IInv, CallInv
  <2> SUFFICES ASSUME NeedsIndex(task'[q])
               PROVE  /\ file'[<<"index", task[q].release>>] # "absent"
                      /\ task[q].refresh /\ task[q].alone =>
                           file'[<<"index", task[q].release>>] = "whole"
    BY <1>2 DEF Opened, Indexed
  <2>2. NeedsIndex(task[q]) /\ Active(task[q]) /\ task[q].release \in Release
    BY <1>2, <1>4, <2>1 DEF Opened, NeedsIndex, Active, Consistent
  <2>3. <<"index", task[q].release>> \in File
    BY <2>2, FileFacts
  <2>4. file[<<"index", task[q].release>>] # "absent"
    BY <2>1, <2>2 DEF Indexed
  <2>5. file'[<<"index", task[q].release>>] # "absent"
    BY <1>5, <2>3, <2>4
  <2>6. ASSUME task[q].refresh, task[q].alone
        PROVE  file'[<<"index", task[q].release>>] = "whole"
    <3>1. q = p
      BY <1>4, <2>2, <2>6 DEF IInv, AloneInv
    <3>2. f = Latest
      BY <1>1, <1>4, <2>2, <3>1 DEF NeedsIndex
    <3> QED
      BY <1>5, <2>1, <2>2, <2>3, <2>6, <3>2, FileFacts DEF Indexed
  <2> QED
    BY <2>5, <2>6
<1>12. ASSUME NEW q \in Caller PROVE Settled(task'[q], file', cut, task')
  <2> SUFFICES ASSUME HasManifest(task'[q]), task[q].got = "part", task[q].alone
               PROVE  /\ file'[<<"manifest", task[q].of>>] = "part"
                      /\ <<"manifest", task[q].of>> \in cut
                      /\ \A x \in Caller : ~ Heads(task'[x], <<"manifest", task[q].of>>)
    BY <1>2 DEF Opened, Settled
  <2>1. q # p /\ HasManifest(task[q])
    BY <1>2 DEF Opened, HasManifest
  <2>2. /\ file[<<"manifest", task[q].of>>] = "part"
        /\ <<"manifest", task[q].of>> \in cut
        /\ \A x \in Caller : ~ Heads(task[x], <<"manifest", task[q].of>>)
        /\ task[q].of \in Release
    BY <2>1 DEF IInv, CallInv, Settled, Consistent, HasManifest
  <2>3. <<"manifest", task[q].of>> # f
    BY <1>1, <1>4, <2>2 DEF Heads
  <2>4. \A x \in Caller : ~ Heads(task'[x], <<"manifest", task[q].of>>)
    BY <1>1, <1>2, <1>4, <2>2, <2>3 DEF Opened, Heads
  <2> QED
    BY <1>5, <2>2, <2>3, <2>4, FileFacts
<1>13. CallInv'
  BY <1>4, <1>10, <1>11, <1>12 DEF CallInv
<1>14. ExcusedInv'
  BY <1>2, <1>4 DEF Opened, IInv, ExcusedInv, Excused
<1> QED
  BY <1>6, <1>7, <1>8, <1>9, <1>13, <1>14 DEF IInv

-----------------------------------------------------------------------------
\* What a call does after it has written an index, latest.json or a manifest.
LEMMA AfterWriteFacts ==
  ASSUME NEW t \in Task, t.pc = "write", Consistent(t)
  PROVE  /\ AfterWrite(t) \in Task /\ AfterWrite(t).op = t.op
         /\ AfterWrite(t).refresh = t.refresh /\ AfterWrite(t).release = t.release
         /\ AfterWrite(t).asked = t.asked /\ AfterWrite(t).alone = t.alone
         /\ \/ t.file = <<"index", t.release>> /\ AfterWrite(t).pc = "open" /\ AfterWrite(t).file = Latest
            \/ t.file = Latest /\ AfterWrite(t).pc = "index"
            \/ /\ t.file = <<"manifest", t.release>> /\ AfterWrite(t).pc = "asset"
               /\ AfterWrite(t).file = t.file
<1>1. t.file \in {Latest, <<"index", t.release>>, <<"manifest", t.release>>}
  BY DEF Consistent
<1>2. CASE t.file = <<"index", t.release>>
  <2>1. AfterWrite(t) = [t EXCEPT !.pc = "open", !.file = Latest]
    BY <1>2, FileFacts DEF AfterWrite
  <2> QED
    BY <1>2, <2>1, FileFacts DEF Task, Pc
<1>3. CASE t.file = Latest
  <2>1. AfterWrite(t) = [t EXCEPT !.pc = "index"]
    BY <1>3 DEF AfterWrite, Latest
  <2> QED
    BY <1>3, <2>1 DEF Task, Pc
<1>4. CASE t.file = <<"manifest", t.release>>
  <2>1. AfterWrite(t) = [t EXCEPT !.pc = "asset"]
    BY <1>4, FileFacts DEF AfterWrite
  <2> QED
    BY <1>4, <2>1 DEF Task, Pc
<1> QED
  BY <1>1, <1>2, <1>3, <1>4

\* The end of a write: the index is whole before latest.json is opened, and
\* latest.json, when it is whole, names an index that was written.
LEMMA WriteEndsInv ==
  ASSUME IInv, NEW p \in Caller, WriteEnds(p)
  PROVE  IInv'
<1>1. PICK t \in Task : t = task[p]
  BY DEF IInv, TypeOK
<1>2. /\ t.pc = "write" /\ Active(t) /\ Consistent(t) /\ t.asked <= published
      /\ Indexed(t, file) /\ t.release \in Release
  BY <1>1 DEF WriteEnds, Active, IInv, CallInv, Consistent
<1>3. PICK f \in File : f = t.file
  BY DEF Task
<1>4. PICK others \in SUBSET Caller : others = {q \in Caller \ {p} : Writing(q, f)}
  OBVIOUS
<1>5. PICK s \in {"whole"} \cup (IF t.mixed \/ others # {} THEN {"part"} ELSE {}) :
        file' = [file EXCEPT ![f] = s]
  BY <1>1, <1>3, <1>4 DEF WriteEnds
<1>6. s \in {"whole", "part"} /\ (s = "part" => t.mixed \/ others # {})
  BY <1>5
<1>7. /\ UNCHANGED <<published, quality, faults>>
      /\ named' = IF f = Latest THEN t.release ELSE named
      /\ cut' = IF others = {} THEN cut \ {f} ELSE cut
  BY <1>1, <1>3, <1>4 DEF WriteEnds
<1>8. PICK u : u = AfterWrite(t)
  OBVIOUS
<1>9. /\ u \in Task /\ u.op = t.op /\ u.refresh = t.refresh /\ u.release = t.release
      /\ u.asked = t.asked /\ u.alone = t.alone
      /\ \/ f = <<"index", t.release>> /\ u.pc = "open" /\ u.file = Latest
         \/ f = Latest /\ u.pc = "index"
         \/ f = <<"manifest", t.release>> /\ u.pc = "asset" /\ u.file = f
  BY <1>2, <1>3, <1>8, AfterWriteFacts
<1>10. task' = [task EXCEPT ![p] = u]
  BY <1>1, <1>8 DEF WriteEnds
<1>11. \A q \in Caller : task'[q] = IF q = p THEN u ELSE task[q]
  BY <1>10 DEF IInv, TypeOK
<1>12. \A g \in File : file'[g] = IF g = f THEN s ELSE file[g]
  BY <1>5 DEF IInv, TypeOK
<1>13. TypeOK'
  <2>1. file' \in [File -> Status] /\ task' \in [Caller -> Task]
    BY <1>5, <1>6, <1>9, <1>10 DEF IInv, TypeOK, Status
  <2>2. named' \in Release \cup {NoRelease} /\ cut' \subseteq File
    BY <1>2, <1>7 DEF IInv, TypeOK
  <2>3. u.release # NoRelease
    BY <1>2, <1>9, RecipesAssumption DEF Release
  <2>4. \A q \in Caller :
          task'[q].pc \in {"index", "asset", "read", "save"} => task'[q].release # NoRelease
    BY <1>11, <2>3 DEF IInv, TypeOK
  <2> QED
    BY <1>7, <2>1, <2>2, <2>4 DEF IInv, TypeOK
<1>14. AloneInv'
  BY <1>1, <1>2, <1>9, <1>11 DEF IInv, AloneInv
<1>15. \A x \in others : x # p /\ Active(task[x]) /\ task'[x] = task[x]
  BY <1>4, <1>11 DEF Writing, Active
<1>16. CutInv'
  <2> SUFFICES ASSUME NEW g \in File \ {Latest}, file'[g] \in {"empty", "part"}, g \notin cut'
               PROVE  \E q \in Caller : task'[q].pc = "write" /\ task'[q].file = g
    BY DEF CutInv, Writing
  <2>1. CASE g = f
    <3>1. s = "part"
      BY <1>6, <1>12, <2>1
    <3>2. ~ t.mixed
      BY <1>2, <1>3, <2>1 DEF Consistent
    <3>3. PICK x \in others : TRUE
      BY <1>6, <3>1, <3>2
    <3> QED
      BY <1>4, <1>15, <2>1, <3>3 DEF Writing
  <2>2. CASE g # f
    <3>1. PICK q \in Caller : Writing(q, g)
      BY <1>7, <1>12, <2>2 DEF IInv, CutInv
    <3>2. q # p
      BY <1>1, <1>3, <2>2, <3>1 DEF Writing
    <3> QED
      BY <1>11, <3>1, <3>2 DEF Writing
  <2> QED
    BY <2>1, <2>2
<1>17. NamedInv'
  <2>1. CASE f = Latest
    <3>1. file[<<"index", t.release>>] # "absent"
      BY <1>2, <1>3, <2>1 DEF Indexed, NeedsIndex
    <3> QED
      BY <1>2, <1>7, <1>12, <2>1, <3>1, FileFacts DEF NamedInv
  <2>2. CASE f # Latest
    BY <1>6, <1>7, <1>12, <2>2, FileFacts DEF IInv, NamedInv
  <2> QED
    BY <2>1, <2>2
<1>18. ASSUME NEW q \in Caller PROVE Consistent(task'[q]) /\ task'[q].asked <= published
  <2>1. CASE q = p
    <3>1. Consistent(u)
      BY <1>2, <1>9 DEF Consistent, HasManifest
    <3> QED
      BY <1>2, <1>9, <1>11, <2>1, <3>1
  <2>2. CASE q # p
    BY <1>11, <2>2 DEF IInv, CallInv
  <2> QED
    BY <2>1, <2>2
<1>19. ASSUME NEW q \in Caller PROVE Indexed(task'[q], file')
  <2>1. CASE q = p
    <3> SUFFICES ASSUME NeedsIndex(u)
                 PROVE  /\ file'[<<"index", t.release>>] # "absent"
                        /\ t.refresh /\ t.alone => file'[<<"index", t.release>>] = "whole"
      BY <1>9, <1>11, <2>1 DEF Indexed
    <3>1. f # <<"manifest", t.release>>
      BY <1>9, FileFacts DEF NeedsIndex
    <3>2. CASE f = Latest
      <4>1. NeedsIndex(t)
        BY <1>2, <1>3, <3>2 DEF NeedsIndex
      <4> QED
        BY <1>2, <1>12, <3>2, <4>1, FileFacts DEF Indexed
    <3>3. CASE f = <<"index", t.release>>
      <4>1. t.alone => ~ t.mixed /\ others = {}
        BY <1>1, <1>2, <1>15 DEF Consistent, IInv, AloneInv
      <4>2. s # "absent" /\ (t.alone => s = "whole")
        BY <1>6, <4>1
      <4> QED
        BY <1>12, <3>3, <4>2
    <3> QED
      BY <1>9, <3>1, <3>2, <3>3
  <2>2. CASE q # p
    <3>1. Indexed(task[q], file) /\ Consistent(task[q]) /\ task'[q] = task[q]
      BY <1>11, <2>2 DEF IInv, CallInv
    <3> SUFFICES ASSUME NeedsIndex(task[q])
                 PROVE  /\ file'[<<"index", task[q].release>>] # "absent"
                        /\ ~ task[q].alone
      BY <3>1 DEF Indexed
    <3>2. Active(task[q]) /\ task[q].release \in Release
      BY <3>1 DEF NeedsIndex, Active, Consistent
    <3>3. ~ task[q].alone
      BY <1>1, <1>2, <2>2, <3>2 DEF IInv, AloneInv
    <3>4. file[<<"index", task[q].release>>] # "absent"
      BY <3>1 DEF Indexed
    <3> QED
      BY <1>6, <1>12, <3>2, <3>3, <3>4, FileFacts
  <2> QED
    BY <2>1, <2>2
<1>20. ASSUME NEW q \in Caller PROVE Settled(task'[q], file', cut', task')
  <2>1. CASE q = p
    BY <1>9, <1>11, <2>1 DEF Settled, HasManifest
  <2>2. CASE q # p
    <3> SUFFICES ASSUME HasManifest(task[q]), task[q].got = "part", task[q].alone
                 PROVE  /\ file'[<<"manifest", task[q].of>>] = "part"
                        /\ <<"manifest", task[q].of>> \in cut'
                        /\ \A x \in Caller : ~ Heads(task'[x], <<"manifest", task[q].of>>)
      BY <1>11, <2>2 DEF Settled
    <3>1. /\ file[<<"manifest", task[q].of>>] = "part"
          /\ <<"manifest", task[q].of>> \in cut
          /\ \A x \in Caller : ~ Heads(task[x], <<"manifest", task[q].of>>)
          /\ task[q].of \in Release
      BY DEF IInv, CallInv, Settled, Consistent, HasManifest
    <3>2. <<"manifest", task[q].of>> # f
      BY <1>1, <1>2, <1>3, <3>1 DEF Heads
    <3>3. ~ Heads(u, <<"manifest", task[q].of>>)
      BY <1>9, FileFacts DEF Heads
    <3> QED
      BY <1>7, <1>11, <1>12, <3>1, <3>2, <3>3, FileFacts
  <2> QED
    BY <2>1, <2>2
<1>21. CallInv'
  BY <1>7, <1>18, <1>19, <1>20 DEF CallInv
<1>22. ExcusedInv'
  <2>1. u.pc # "failed"
    BY <1>9
  <2> QED
    BY <1>7, <1>11, <2>1 DEF IInv, ExcusedInv, Excused
<1> QED
  BY <1>13, <1>14, <1>16, <1>17, <1>21, <1>22 DEF IInv

\* A write that fails leaves a file cut off, which is remembered; the call
\* fails with a fault.
LEMMA WriteFailsInv ==
  ASSUME IInv, NEW p \in Caller, WriteFails(p)
  PROVE  IInv'
<1>1. PICK t \in Task : t = task[p]
  BY DEF IInv, TypeOK
<1>2. t.pc \in {"open", "write"} /\ Active(t)
  BY <1>1 DEF WriteFails, Active
<1>3. /\ UNCHANGED <<published, quality, file, named>> /\ faults' \in 0 .. MaxFaults
      /\ cut' = IF t.pc = "write" THEN cut \cup {t.file} ELSE cut
  BY <1>1, RecipesAssumption DEF WriteFails, IInv, TypeOK
<1>4. PICK u : u = Failed([t EXCEPT !.fault = TRUE])
  OBVIOUS
<1>5. /\ u \in Task /\ u.pc = "failed" /\ u.asked = 1 /\ u.alone = t.alone /\ u.fault
  BY <1>4, FaultFacts
<1>6. task' = [task EXCEPT ![p] = u]
  BY <1>1, <1>4 DEF WriteFails, Fails
<1>7. \A q \in Caller : task'[q] = IF q = p THEN u ELSE task[q]
  BY <1>6 DEF IInv, TypeOK
<1>8. TypeOK'
  <2>1. task' \in [Caller -> Task] /\ cut' \subseteq File
    BY <1>3, <1>5, <1>6 DEF IInv, TypeOK, Task
  <2>2. \A q \in Caller :
          task'[q].pc \in {"index", "asset", "read", "save"} => task'[q].release # NoRelease
    BY <1>5, <1>7 DEF IInv, TypeOK
  <2> QED
    BY <1>3, <2>1, <2>2 DEF IInv, TypeOK
<1>9. AloneInv'
  BY <1>5, <1>7 DEF IInv, AloneInv, Active
<1>10. CutInv'
  <2> SUFFICES ASSUME NEW g \in File \ {Latest}, file[g] \in {"empty", "part"}, g \notin cut'
               PROVE  \E q \in Caller : task'[q].pc = "write" /\ task'[q].file = g
    BY <1>3 DEF CutInv, Writing
  <2>1. PICK q \in Caller : Writing(q, g)
    BY <1>3 DEF IInv, CutInv
  <2>2. q # p
    BY <1>1, <1>3, <2>1 DEF Writing
  <2> QED
    BY <1>7, <2>1, <2>2 DEF Writing
<1>11. NamedInv'
  BY <1>3 DEF IInv, NamedInv
<1>12. ASSUME NEW q \in Caller
       PROVE  /\ Consistent(task'[q]) /\ task'[q].asked <= published
              /\ Indexed(task'[q], file)
  <2>1. CASE q = p
    <3>1. Consistent(u) /\ Indexed(u, file)
      BY <1>5, RecipesAssumption DEF Consistent, HasManifest, Indexed, NeedsIndex, Release, Task
    <3>2. u.asked <= published
      BY <1>5 DEF IInv, TypeOK, Release
    <3> QED
      BY <1>7, <2>1, <3>1, <3>2
  <2>2. CASE q # p
    BY <1>7, <2>2 DEF IInv, CallInv
  <2> QED
    BY <2>1, <2>2
<1>13. ASSUME NEW q \in Caller PROVE Settled(task'[q], file, cut', task')
  <2>1. CASE q = p
    BY <1>5, <1>7, <2>1 DEF Settled, HasManifest
  <2>2. CASE q # p
    <3>1. Settled(task[q], file, cut, task) /\ task'[q] = task[q]
      BY <1>7, <2>2 DEF IInv, CallInv
    <3>2. \A x \in Caller : \A g : Heads(task'[x], g) => Heads(task[x], g)
      BY <1>5, <1>7 DEF Heads
    <3> QED
      BY <1>3, <3>1, <3>2 DEF Settled
  <2> QED
    BY <2>1, <2>2
<1>14. CallInv'
  BY <1>3, <1>12, <1>13 DEF CallInv
<1>15. ExcusedInv'
  BY <1>3, <1>5, <1>7 DEF IInv, ExcusedInv, Excused
<1> QED
  BY <1>8, <1>9, <1>10, <1>11, <1>14, <1>15 DEF IInv

-----------------------------------------------------------------------------
\* The call that p begins, and what the others learn of it.
Begun(p) ==
  \A q \in Caller :
    /\ task'[q] \in Task
    /\ q = p => /\ task'[q].pc = "latest" /\ task'[q].release = NoRelease
                /\ task'[q].asked <= published /\ (~ task'[q].refresh => task'[q].asked = 1)
                /\ task'[q].alone => \A x \in Caller \ {p} : ~ Active(task[x])
    /\ q # p =>
         /\ task'[q].pc = task[q].pc /\ task'[q].op = task[q].op
         /\ task'[q].refresh = task[q].refresh /\ task'[q].release = task[q].release
         /\ task'[q].file = task[q].file /\ task'[q].mixed = task[q].mixed
         /\ task'[q].got = task[q].got /\ task'[q].of = task[q].of
         /\ task'[q].asked = task[q].asked /\ task'[q].fault = task[q].fault
         /\ task'[q].alone => task[q].alone /\ ~ Active(task[q])
         /\ task[q].alone /\ ~ Active(task[q]) => task'[q].alone

\* What the start of a call changes: those that are under way are undisturbed
\* no longer, and the new one is only if there are none.
LEMMA BeginFacts ==
  ASSUME IInv, NEW p \in Caller, NEW op \in {"list", "get", "resolve"}, NEW refresh \in BOOLEAN,
         Begin(p, op, refresh)
  PROVE  task' \in [Caller -> Task] /\ Begun(p)
<1>1. PICK a \in BOOLEAN : a = (\A q \in Caller \ {p} : Ended(q))
  <2>1. CASE \A q \in Caller \ {p} : Ended(q)
    <3>1. (\A q \in Caller \ {p} : Ended(q)) = TRUE
      BY <2>1
    <3> QED
      BY <3>1, Zenon
  <2>2. CASE ~ \A q \in Caller \ {p} : Ended(q)
    <3>1. (\A q \in Caller \ {p} : Ended(q)) = FALSE
      BY <2>2
    <3> QED
      BY <3>1, Zenon
  <2> QED
    BY <2>1, <2>2
<1>2. \A q \in Caller : Ended(q) <=> ~ Active(task[q])
  BY DEF Ended, Active, IInv, TypeOK, Task, Pc
<1>3. a => \A x \in Caller \ {p} : ~ Active(task[x])
  BY <1>1, <1>2
<1>4. PICK m \in Release : m = IF refresh THEN published ELSE 1
  BY RecipesAssumption DEF IInv, TypeOK, Release
<1>5. m <= published /\ (~ refresh => m = 1)
  BY <1>4 DEF IInv, TypeOK, Release
<1>6. task' = [q \in Caller |->
         IF q = p THEN [Idle EXCEPT !.pc = "latest", !.op = op, !.refresh = refresh,
                                    !.asked = m, !.alone = a]
         ELSE [task[q] EXCEPT !.alone = @ /\ Ended(q)]]
  BY <1>1, <1>4 DEF Begin
<1>7. ASSUME NEW q \in Caller, q = p
      PROVE  /\ task'[q] \in Task /\ task'[q].pc = "latest" /\ task'[q].release = NoRelease
             /\ task'[q].asked = m /\ task'[q].refresh = refresh /\ task'[q].alone = a
  <2>1. PICK i \in Task : i = Idle /\ i.release = NoRelease
    BY IdleFacts
  <2>2. PICK x : x = [i EXCEPT !.pc = "latest", !.op = op, !.refresh = refresh]
    OBVIOUS
  <2>3. x \in Task /\ x.pc = "latest" /\ x.refresh = refresh /\ x.release = NoRelease
    <3>1. x \in Task
      BY <2>2 DEF Task, Pc
    <3>2. x.pc = "latest" /\ x.refresh = refresh /\ x.release = i.release
      BY <2>2 DEF Task
    <3> QED
      BY <2>1, <3>1, <3>2
  <2>4. PICK y : y = [x EXCEPT !.asked = m, !.alone = a]
    OBVIOUS
  <2>5. /\ y \in Task /\ y.pc = "latest" /\ y.refresh = refresh /\ y.release = NoRelease
        /\ y.asked = m /\ y.alone = a
    BY <2>3, <2>4 DEF Task
  <2>6. y = [i EXCEPT !.pc = "latest", !.op = op, !.refresh = refresh, !.asked = m, !.alone = a]
    BY <2>2, <2>4 DEF Task
  <2>7. task'[q] = y
    BY <1>6, <1>7, <2>1, <2>6
  <2> QED
    BY <2>5, <2>7
<1>8. ASSUME NEW q \in Caller, q # p
      PROVE  /\ task'[q] \in Task
             /\ task'[q].pc = task[q].pc /\ task'[q].op = task[q].op
             /\ task'[q].refresh = task[q].refresh /\ task'[q].release = task[q].release
             /\ task'[q].file = task[q].file /\ task'[q].mixed = task[q].mixed
             /\ task'[q].got = task[q].got /\ task'[q].of = task[q].of
             /\ task'[q].asked = task[q].asked /\ task'[q].fault = task[q].fault
             /\ task'[q].alone => task[q].alone /\ ~ Active(task[q])
             /\ task[q].alone /\ ~ Active(task[q]) => task'[q].alone
  <2>1. PICK z \in Task : z = task[q]
    BY DEF IInv, TypeOK
  <2>2. PICK b \in BOOLEAN : b = (z.alone /\ Ended(q))
    <3>1. CASE z.alone /\ Ended(q)
      <4>1. (z.alone /\ Ended(q)) = TRUE
        BY <3>1
      <4> QED
        BY <4>1, Zenon
    <3>2. CASE ~ (z.alone /\ Ended(q))
      <4>1. (z.alone /\ Ended(q)) = FALSE
        BY <3>2
      <4> QED
        BY <4>1, Zenon
    <3> QED
      BY <3>1, <3>2
  <2>3. b <=> z.alone /\ ~ Active(z)
    BY <1>2, <2>1, <2>2
  <2>4. PICK u : u = [z EXCEPT !.alone = b]
    OBVIOUS
  <2>5. /\ u \in Task /\ u.pc = z.pc /\ u.op = z.op /\ u.refresh = z.refresh
        /\ u.release = z.release /\ u.file = z.file /\ u.mixed = z.mixed /\ u.got = z.got
        /\ u.of = z.of /\ u.asked = z.asked /\ u.fault = z.fault /\ u.alone = b
    BY <2>4 DEF Task
  <2>6. task'[q] = u
    BY <1>6, <1>8, <2>1, <2>2, <2>4
  <2> QED
    BY <2>1, <2>3, <2>5, <2>6
<1>9. task' \in [Caller -> Task]
  <2>1. \A q \in Caller : task'[q] \in Task
    BY <1>7, <1>8
  <2> QED
    BY <1>6, <2>1
<1>10. Begun(p)
  BY <1>3, <1>5, <1>7, <1>8 DEF Begun
<1> QED
  BY <1>9, <1>10

\* A call begins and knows nothing yet.
LEMMA BeginInv ==
  ASSUME IInv, NEW p \in Caller, NEW op \in {"list", "get", "resolve"}, NEW refresh \in BOOLEAN,
         Begin(p, op, refresh)
  PROVE  IInv'
<1>1. task' \in [Caller -> Task] /\ Begun(p)
  BY BeginFacts
<1>2. UNCHANGED <<published, quality, file, named, cut, faults>> /\ ~ Active(task[p])
  BY DEF Begin, Ended, Active
<1>3. TypeOK'
  BY <1>1, <1>2 DEF IInv, TypeOK, Begun
<1>4. AloneInv'
  BY <1>1, <1>2 DEF IInv, AloneInv, Begun, Active
<1>5. CutInv'
  <2> SUFFICES ASSUME NEW g \in File \ {Latest}, file[g] \in {"empty", "part"}, g \notin cut
               PROVE  \E q \in Caller : task'[q].pc = "write" /\ task'[q].file = g
    BY <1>2 DEF CutInv, Writing
  <2>1. PICK q \in Caller : Writing(q, g)
    BY DEF IInv, CutInv
  <2>2. q # p
    BY <1>2, <2>1 DEF Writing, Active
  <2> QED
    BY <1>1, <2>1, <2>2 DEF Writing, Begun
<1>6. NamedInv'
  BY <1>2 DEF IInv, NamedInv
<1>7. ASSUME NEW q \in Caller
      PROVE  /\ Consistent(task'[q]) /\ task'[q].asked <= published
             /\ Indexed(task'[q], file)
  <2>1. CASE q = p
    BY <1>1, <2>1 DEF Begun, Consistent, HasManifest, Indexed, NeedsIndex
  <2>2. CASE q # p
    <3>1. /\ Consistent(task[q]) /\ task[q].asked <= published /\ Indexed(task[q], file)
      BY DEF IInv, CallInv
    <3> QED
      BY <1>1, <2>2, <3>1 DEF Begun, Consistent, HasManifest, Indexed, NeedsIndex
  <2> QED
    BY <2>1, <2>2
<1>8. ASSUME NEW q \in Caller PROVE Settled(task'[q], file, cut, task')
  <2>1. CASE q = p
    BY <1>1, <2>1 DEF Begun, Settled, HasManifest
  <2>2. CASE q # p
    <3>1. Settled(task[q], file, cut, task)
      BY DEF IInv, CallInv
    <3>2. \A x \in Caller : \A g : Heads(task'[x], g) => Heads(task[x], g)
      BY <1>1 DEF Heads, Begun
    <3> QED
      BY <1>1, <2>2, <3>1, <3>2 DEF Settled, Begun, HasManifest
  <2> QED
    BY <2>1, <2>2
<1>9. CallInv'
  BY <1>2, <1>7, <1>8 DEF CallInv
<1>10. ASSUME NEW q \in Caller PROVE Excused(task'[q], quality)
  <2>1. Excused(task[q], quality)
    BY DEF IInv, ExcusedInv
  <2>2. task'[q].pc = "failed" => q # p /\ ~ Active(task[q])
    BY <1>1 DEF Begun, Active
  <2> QED
    BY <1>1, <2>1, <2>2 DEF Begun, Excused
<1>11. ExcusedInv'
  BY <1>2, <1>10 DEF ExcusedInv
<1> QED
  BY <1>3, <1>4, <1>5, <1>6, <1>9, <1>11 DEF IInv

\* A new release upstream changes nothing in the cache, and what a call asked
\* for is not newer than it.
LEMMA PublishInv ==
  ASSUME IInv, PublishRelease
  PROVE  IInv'
<1>1. /\ UNCHANGED <<quality, file, named, task, cut, faults>>
      /\ published' \in Release /\ published <= published'
  BY RecipesAssumption DEF PublishRelease, IInv, TypeOK, Release
<1>2. TypeOK' /\ ExcusedInv' /\ AloneInv' /\ CutInv' /\ NamedInv'
  BY <1>1 DEF IInv, TypeOK, ExcusedInv, AloneInv, CutInv, Writing, NamedInv
<1>3. \A q \in Caller : task[q].asked <= published'
  BY <1>1 DEF IInv, CallInv, TypeOK, Release, Task
<1>4. CallInv'
  BY <1>1, <1>3 DEF IInv, CallInv
<1> QED
  BY <1>2, <1>4 DEF IInv

\* A caller without a call relies on nothing.
LEMMA IdleInv ==
  ASSUME NEW fl, NEW ct, NEW ts, NEW ql
  PROVE  Consistent(Idle) /\ Excused(Idle, ql) /\ Indexed(Idle, fl) /\ Settled(Idle, fl, ct, ts) /\ ~ Active(Idle)
  BY IdleFacts DEF Consistent, Excused, Indexed, NeedsIndex, Settled, HasManifest, Active

\* A crash ends all calls and leaves every file that was being written cut off.
LEMMA CrashInv ==
  ASSUME IInv, Crash
  PROVE  IInv'
<1>1. /\ UNCHANGED <<published, quality, file, named>> /\ faults' \in 0 .. MaxFaults
      /\ task' = [p \in Caller |-> Idle]
      /\ cut' = cut \cup {task[p].file : p \in {q \in Caller : task[q].pc = "write"}}
  BY RecipesAssumption DEF Crash, IInv, TypeOK
<1>2. TypeOK'
  <2>1. cut' \subseteq File
    BY <1>1 DEF IInv, TypeOK, Task
  <2> QED
    BY <1>1, <2>1, IdleFacts DEF IInv, TypeOK
<1>3. AloneInv' /\ NamedInv' /\ ExcusedInv'
  BY <1>1, IdleInv DEF IInv, AloneInv, NamedInv, ExcusedInv
<1>4. CutInv'
  BY <1>1 DEF IInv, CutInv, Writing
<1>5. CallInv'
  <2>1. Idle.asked <= published
    BY IdleFacts DEF IInv, TypeOK, Release
  <2> QED
    BY <1>1, <2>1, IdleInv DEF CallInv
<1> QED
  BY <1>2, <1>3, <1>4, <1>5 DEF IInv

-----------------------------------------------------------------------------
\* An empty cache without calls satisfies the invariant.
LEMMA InitIInv == Init => IInv
<1> SUFFICES ASSUME Init PROVE IInv
  OBVIOUS
<1>1. TypeOK
  BY RecipesAssumption, IdleFacts DEF Init, TypeOK, Status, Release
<1>2. AloneInv /\ CutInv /\ NamedInv /\ ExcusedInv
  BY IdleInv, FileFacts DEF Init, ExcusedInv, AloneInv, CutInv, NamedInv
<1>3. CallInv
  <2>1. \A p \in Caller : task[p] = Idle
    BY DEF Init
  <2>2. Idle.asked <= published
    BY IdleFacts DEF Init
  <2> QED
    BY <2>1, <2>2, IdleInv DEF CallInv
<1> QED
  BY <1>1, <1>2, <1>3 DEF IInv

\* Every step of the calls, a new release and a crash keep the invariant.
LEMMA NextIInv == IInv /\ [Next]_vars => IInv'
<1> SUFFICES ASSUME IInv, [Next]_vars PROVE IInv'
  OBVIOUS
<1>1. ASSUME NEW p \in Caller, Step(p) PROVE IInv'
  BY <1>1, ReadLatestInv, AskInv, FetchInv, OpenInv, WriteEndsInv, WriteFailsInv, ReadIndexInv,
     EnsureAssetInv, ReadManifestInv, SaveResolvedInv DEF Step
<1>2. CASE UNCHANGED vars
  BY <1>2 DEF vars, IInv, TypeOK, CallInv, ExcusedInv, AloneInv, CutInv, Writing, NamedInv
<1> QED
  BY <1>1, <1>2, BeginInv, PublishInv, CrashInv DEF Next

\* The inductive invariant of the recipe cache holds in every reachable state.
THEOREM Inductive == Spec => []IInv
  BY InitIInv, NextIInv, PTL DEF Spec

\* Files, calls and releases have their types in every reachable state.
THEOREM TypeCorrect == Spec => []TypeOK
<1>1. IInv => TypeOK
  BY DEF IInv
<1> QED
  BY <1>1, Inductive, PTL

\* latest.json, when it can be read, names a release whose index is in the
\* cache, for any number of calls, faults and crashes: the order of the two
\* writes of a refresh is what makes it true.
THEOREM NamedIndexCached == Spec => []LatestHasIndex
<1>1. IInv => LatestHasIndex
  BY DEF IInv, NamedInv, LatestHasIndex
<1> QED
  BY <1>1, Inductive, PTL

\* A refresh is never answered with a release older than the latest one when it
\* was asked for, and a list with refresh fails only if another call or a fault
\* disturbs it, or on an index that this version cannot parse or not show.
THEOREM RefreshIsFresh == Spec => []RefreshDelivers
<1>1. IInv => RefreshDelivers
  <2> SUFFICES ASSUME IInv, NEW p \in Caller
               PROVE  /\ task[p].pc = "done" /\ task[p].refresh => task[p].release >= task[p].asked
                      /\ task[p].pc = "failed" /\ task[p].op = "list" /\ task[p].refresh =>
                           \/ ~ task[p].alone \/ task[p].fault
                           \/ task[p].release # NoRelease /\ quality[task[p].release] # "fine"
    BY DEF RefreshDelivers
  <2>1. Consistent(task[p]) /\ Excused(task[p], quality) /\ task[p].asked \in Nat
    BY DEF IInv, CallInv, ExcusedInv, TypeOK, Task, Release
  <2>2. task[p].pc = "done" => task[p].release \in Nat /\ task[p].release # NoRelease
    BY <2>1, RecipesAssumption DEF Consistent, Release
  <2> QED
    BY <2>1, <2>2 DEF Consistent, Excused
<1> QED
  BY <1>1, Inductive, PTL

\* The manifest handed out is that of the release shown to the user, and is a
\* mere part only if the cached file was cut off or another call was at work.
THEOREM ManifestOfItsRelease == Spec => []OneRelease
<1>1. IInv => OneRelease
  <2> SUFFICES ASSUME IInv, NEW p \in Caller, task[p].pc = "done", task[p].op = "resolve"
               PROVE  /\ task[p].of = task[p].release
                      /\ task[p].got = "part" =>
                           <<"manifest", task[p].of>> \in cut \/ ~ task[p].alone
    BY DEF OneRelease
  <2>1. Consistent(task[p]) /\ Settled(task[p], file, cut, task) /\ HasManifest(task[p])
    BY DEF IInv, CallInv, HasManifest
  <2> QED
    BY <2>1 DEF Consistent, Settled
<1> QED
  BY <1>1, Inductive, PTL

=============================================================================
