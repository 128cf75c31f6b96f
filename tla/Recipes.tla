------------------------------- MODULE Recipes -------------------------------
(***************************************************************************)
(* The cache of official service recipes (crates/daemon/src/recipes.rs,    *)
(* crates/config/src/recipe_cache.rs).  A call works on the release that   *)
(* latest.json names, or asks for the latest one, and downloads index.json *)
(* and the assets of that release once.                                    *)
(*                                                                         *)
(* The files are written in place and nothing serialises the calls: one    *)
(* call reads what another one is writing, two of them write one file, and *)
(* a crash leaves a file cut off.                                          *)
(***************************************************************************)
EXTENDS Naturals

CONSTANTS
  Caller,        \* calls of the API that may be in progress
  MaxRelease,    \* releases are numbered in the order of their publication
  MaxFaults,     \* bound on crashes and failed writes
  Qualities,     \* what the indices of the releases may be like
  NoRelease

ASSUME RecipesAssumption ==
  /\ MaxRelease \in Nat \ {0}
  /\ MaxFaults \in Nat
  /\ NoRelease \notin Nat
  /\ Qualities \subseteq [1 .. MaxRelease -> {"fine", "unsupported", "unparsable"}]

Release == 1 .. MaxRelease
Latest == <<"latest", 0>>                        \* latest.json
File == {Latest} \cup ({"index", "manifest"} \X Release)

\* "empty" and "part": the file has been opened, and maybe begun, but not finished.
Status == {"absent", "empty", "part", "whole"}

VARIABLES
  published,   \* the latest release upstream
  quality,     \* [Release -> ...]: "unparsable" is an index this version cannot parse,
               \* "unsupported" one with a recipe of a runtime it does not know
  file,        \* [File -> Status]
  named,       \* the release in latest.json
  task,
  cut,         \* history: files whose writing was cut off and not done again since
  faults

vars == <<published, quality, file, named, task, cut, faults>>

Pc == {"idle", "latest", "ask", "fetch", "open", "write", "index", "asset", "read", "save",
       "done", "failed"}

Task == [pc : Pc,
         op : {"list", "get", "resolve"},
         refresh : BOOLEAN,
         release : Release \cup {NoRelease},
         file : File,              \* the one it fetches, writes or needs next
         mixed : BOOLEAN,          \* another call opened latest.json while this one wrote it
         got : {"none", "part", "whole"},    \* the manifest it returns
         of : Release \cup {NoRelease},      \* ... and the release that is from
         asked : Release,          \* history: the latest release when it began
         alone : BOOLEAN,          \* history: no other call was in progress
         fault : BOOLEAN]          \* history: a download or a write failed

Idle == [pc |-> "idle", op |-> "list", refresh |-> FALSE, release |-> NoRelease, file |-> Latest,
         mixed |-> FALSE, got |-> "none", of |-> NoRelease, asked |-> 1, alone |-> TRUE,
         fault |-> FALSE]

Ended(p) == task[p].pc \in {"idle", "done", "failed"}
Writing(p, f) == task[p].pc = "write" /\ task[p].file = f

TypeOK ==
  /\ published \in Release
  /\ quality \in Qualities
  /\ file \in [File -> Status]
  /\ named \in Release \cup {NoRelease}
  /\ task \in [Caller -> Task]
  /\ cut \subseteq File
  /\ faults \in 0 .. MaxFaults
  /\ \A p \in Caller : task[p].pc \in {"index", "asset", "read", "save"} => task[p].release # NoRelease

-----------------------------------------------------------------------------
Init ==
  /\ published = 1
  /\ quality \in Qualities
  /\ file = [f \in File |-> "absent"]
  /\ named = NoRelease
  /\ task = [p \in Caller |-> Idle]
  /\ cut = {}
  /\ faults = 0

\* list_recipes, get_recipe and resolve_recipe
Begin(p, op, refresh) ==
  LET alone == \A q \in Caller \ {p} : Ended(q) IN
  /\ Ended(p)
  /\ task' = [q \in Caller |->
       IF q = p THEN [Idle EXCEPT !.pc = "latest", !.op = op, !.refresh = refresh,
                                  !.asked = IF refresh THEN published ELSE 1, !.alone = alone]
       ELSE [task[q] EXCEPT !.alone = @ /\ Ended(q)]]
  /\ UNCHANGED <<published, quality, file, named, cut, faults>>

Goto(p, pc) == task' = [task EXCEPT ![p].pc = pc]

\* A call ends; one that fails keeps the release whose index it could not use.
Done(t) == [t EXCEPT !.pc = "done", !.file = Latest, !.mixed = FALSE]
Failed(t) == [Idle EXCEPT !.pc = "failed", !.op = t.op, !.refresh = t.refresh, !.alone = t.alone,
                          !.fault = t.fault,
                          !.release = IF t.pc = "index" THEN t.release ELSE NoRelease]
Fails(p) == task' = [task EXCEPT ![p] = Failed([@ EXCEPT !.fault = TRUE])]

\* Mutant: latest.json is read in any case.
ReadLatestAlways(p) ==
  /\ task[p].pc = "latest"
  /\ task' = [task EXCEPT ![p] =
       IF file[Latest] \in {"empty", "part"} THEN Failed(@)
       ELSE IF task[p].refresh \/ file[Latest] = "absent" THEN [@ EXCEPT !.pc = "ask"]
       ELSE [@ EXCEPT !.pc = "index", !.release = named]]
  /\ UNCHANGED <<published, quality, file, named, cut, faults>>

\* load_official_recipe_index: latest.json is read unless a refresh is asked for; a file that
\* cannot be parsed is an error.
ReadLatest(p) ==
  /\ task[p].pc = "latest"
  /\ \/ /\ task[p].refresh \/ file[Latest] = "absent"
        /\ Goto(p, "ask")
     \/ /\ ~ task[p].refresh /\ file[Latest] = "whole"
        /\ task' = [task EXCEPT ![p] =
             IF file[<<"index", named>>] # "absent" THEN [@ EXCEPT !.pc = "index", !.release = named]
                                                    ELSE [@ EXCEPT !.pc = "ask"]]
     \/ /\ ~ task[p].refresh /\ file[Latest] \in {"empty", "part"}
        /\ task' = [task EXCEPT ![p] = Failed(@)]
  /\ UNCHANGED <<published, quality, file, named, cut, faults>>

\* refresh_latest_official_recipe_index follows the redirection to the latest release.
Ask(p) ==
  /\ task[p].pc = "ask"
  /\ \/ task' = [task EXCEPT ![p] = [@ EXCEPT !.pc = "fetch", !.release = published,
                                              !.file = <<"index", published>>]]
     \/ Fails(p)
  /\ UNCHANGED <<published, quality, file, named, cut, faults>>

\* The file is downloaded as a whole first; this may fail or be given up.
Fetch(p) ==
  /\ task[p].pc = "fetch"
  /\ Goto(p, "open") \/ Fails(p)
  /\ UNCHANGED <<published, quality, file, named, cut, faults>>

\* std::fs::write opens and truncates the file, and may have written a part of it by the time
\* another call looks ...
Open(p) ==
  LET f == task[p].file
      others == {q \in Caller \ {p} : Writing(q, f)}
  IN
  /\ task[p].pc = "open"
  /\ \E s \in {"empty", "part"} : file' = [file EXCEPT ![f] = s]
  /\ task' = [q \in Caller |->
       IF q = p THEN [task[p] EXCEPT !.pc = "write", !.mixed = f = Latest /\ others # {}]
       ELSE IF q \in others THEN [task[q] EXCEPT !.mixed = f = Latest] ELSE task[q]]
  /\ UNCHANGED <<published, quality, named, cut, faults>>

\* What follows: the index is written, then latest.json that names it, and both are read.
AfterWrite(t) ==
  CASE t.file[1] = "index" -> [t EXCEPT !.pc = "open", !.file = Latest]
    [] t.file = Latest -> [t EXCEPT !.pc = "index"]
    [] OTHER -> [t EXCEPT !.pc = "asset"]

\* ... and ends.  Two calls write the same index or the same asset, so that the one that ends last leaves it
\* whole; two versions of latest.json may get mixed up.
WriteEnds(p) ==
  LET t == task[p]
      f == t.file
      others == {q \in Caller \ {p} : Writing(q, f)}
  IN
  /\ t.pc = "write"
  /\ \E s \in {"whole"} \cup (IF t.mixed \/ others # {} THEN {"part"} ELSE {}) :
       file' = [file EXCEPT ![f] = s]
  /\ named' = IF f = Latest THEN t.release ELSE named
  /\ cut' = IF others = {} THEN cut \ {f} ELSE cut
  /\ task' = [task EXCEPT ![p] = AfterWrite(t)]
  /\ UNCHANGED <<published, quality, faults>>

\* Mutant: the error is dropped.
WriteFailsIgnored(p) ==
  /\ task[p].pc \in {"open", "write"}
  /\ faults < MaxFaults
  /\ faults' = faults + 1
  /\ task' = [task EXCEPT ![p] = AfterWrite(@)]
  /\ UNCHANGED <<published, quality, file, named, cut>>

\* The directory cannot be made, or the disk is full.
WriteFails(p) ==
  /\ task[p].pc \in {"open", "write"}
  /\ faults < MaxFaults
  /\ faults' = faults + 1
  /\ cut' = IF task[p].pc = "write" THEN cut \cup {task[p].file} ELSE cut
  /\ Fails(p)
  /\ UNCHANGED <<published, quality, file, named>>

\* A list has all it needs, and fails as a whole if it does not know the runtime of one recipe;
\* the detail of a recipe and its resolution need its manifest.
AfterIndex(t) ==
  CASE t.op # "list" -> [t EXCEPT !.pc = "asset", !.file = <<"manifest", t.release>>]
    [] t.op = "list" /\ quality[t.release] = "fine" -> Done(t)
    [] OTHER -> Failed(t)

\* The index is read back and parsed, and the recipe looked up, which it may not list or whose
\* runtime may be unknown.
ReadIndex(p) ==
  LET t == task[p]
      readable == file[<<"index", t.release>>] = "whole" /\ quality[t.release] # "unparsable"
  IN
  /\ t.pc = "index"
  /\ \/ /\ readable
        /\ task' = [task EXCEPT ![p] = AfterIndex(t)]
     \/ /\ ~ readable \/ t.op # "list"
        /\ task' = [task EXCEPT ![p] = Failed(t)]
  /\ UNCHANGED <<published, quality, file, named, cut, faults>>

\* ensure_cached_asset: a file that is not empty will do.  (The read-me goes the same way.)
EnsureAsset(p) ==
  LET t == task[p] IN
  /\ t.pc = "asset"
  /\ task' = [task EXCEPT ![p] =
       IF file[t.file] \in {"part", "whole"} 
       THEN IF t.op = "resolve" THEN [t EXCEPT !.pc = "read"] ELSE Done(t)
       ELSE [t EXCEPT !.pc = "fetch"]]
  /\ UNCHANGED <<published, quality, file, named, cut, faults>>

\* Mutant: the manifest of the release that is latest by now.
ReadManifestOfLatest(p) ==
  /\ task[p].pc = "read"
  /\ LET r == IF file[Latest] = "whole" /\ file[<<"manifest", named>>] = "whole"
              THEN named ELSE task[p].release
     IN task' = [task EXCEPT ![p] = [@ EXCEPT !.pc = "save", !.of = r, !.got = "whole"]]
  /\ UNCHANGED <<published, quality, file, named, cut, faults>>

\* resolve_official_service_recipe reads the manifest and puts the name of the service in; what
\* is left of a manifest that was cut off may pass for one.
ReadManifest(p) ==
  LET r == task[p].release
      s == file[<<"manifest", r>>]
  IN
  /\ task[p].pc = "read"
  /\ \/ /\ s \in {"part", "whole"}
        /\ task' = [task EXCEPT ![p] = [@ EXCEPT !.pc = "save", !.of = r, !.got = s]]
     \/ /\ s \in {"empty", "part"}
        /\ task' = [task EXCEPT ![p] = Failed(@)]
  /\ UNCHANGED <<published, quality, file, named, cut, faults>>

\* write_resolved_manifest, to a file of its own
SaveResolved(p) ==
  /\ task[p].pc = "save"
  /\ \/ task' = [task EXCEPT ![p] = Done(@)] /\ UNCHANGED faults
     \/ faults < MaxFaults /\ faults' = faults + 1 /\ Fails(p)
  /\ UNCHANGED <<published, quality, file, named, cut>>

-----------------------------------------------------------------------------
\* A new release upstream
PublishRelease ==
  /\ published < MaxRelease
  /\ published' = published + 1
  /\ UNCHANGED <<quality, file, named, task, cut, faults>>

\* The daemon crashes: what is being written stays as it is.
Crash ==
  /\ faults < MaxFaults
  /\ faults' = faults + 1
  /\ cut' = cut \cup {task[p].file : p \in {q \in Caller : task[q].pc = "write"}}
  /\ task' = [p \in Caller |-> Idle]
  /\ UNCHANGED <<published, quality, file, named>>

Step(p) ==
  \/ ReadLatest(p) \/ Ask(p) \/ Fetch(p) \/ Open(p) \/ WriteEnds(p) \/ WriteFails(p)
  \/ ReadIndex(p) \/ EnsureAsset(p) \/ ReadManifest(p) \/ SaveResolved(p)

Next ==
  \/ \E p \in Caller, op \in {"list", "get", "resolve"}, refresh \in BOOLEAN : Begin(p, op, refresh)
  \/ \E p \in Caller : Step(p)
  \/ PublishRelease
  \/ Crash

Spec == Init /\ [][Next]_vars

-----------------------------------------------------------------------------
\* Properties

\* Whatever calls overlap and whenever the daemon crashes, latest.json names a release whose
\* index has been written: else a call without a network could not use the cache although it
\* holds the index of an earlier release (recipes.rs:222).
LatestHasIndex ==
  file[Latest] = "whole" => file[<<"index", named>>] # "absent"

\* A refresh is never answered with a release older than the latest one when it was asked for,
\* although another call may put an older one into latest.json meanwhile; and whichever
\* files of the cache have been cut off before, a list with refresh that nothing disturbs fails
\* only on an index that this version cannot parse or not show.
RefreshDelivers ==
  \A p \in Caller :
    LET t == task[p] IN
    /\ t.pc = "done" /\ t.refresh => t.release >= t.asked
    /\ t.pc = "failed" /\ t.op = "list" /\ t.refresh =>
         ~ t.alone \/ t.fault \/ (t.release # NoRelease /\ quality[t.release] # "fine")

\* The manifest handed out is the one of the release that is shown to the user, although other
\* calls move latest.json to another release at any point; and only a part of it only if a crash
\* or a full disk has cut the cached file off, or while another call writes it.
OneRelease ==
  \A p \in Caller :
    LET t == task[p] IN
    t.pc = "done" /\ t.op = "resolve" =>
      /\ t.of = t.release
      /\ t.got = "part" => <<"manifest", t.of>> \in cut \/ ~ t.alone

=============================================================================
