---------------------------- MODULE FallbackAtlas ----------------------------
(***************************************************************************)
(* Which Atlas a process works with (ensure_atlas and build_option_b_atlas *)
(* of ecl_trainer/oracle/atlas.py).  Every construction of an Atlas reader *)
(* or of the patch manager takes the Atlas at the path it is given, the    *)
(* configured one unless --atlas-path names another, if there is a file,   *)
(* and otherwise removes the fallback Atlas and builds it again, statement *)
(* by statement.  Nothing is held around this: processes that start        *)
(* together remove, build and open the same path, and may die at any       *)
(* statement.                                                              *)
(*                                                                         *)
(* Removing a file takes its name away and no more: a process that has it  *)
(* open keeps it.  DuckDB refuses a file another process has open to       *)
(* write, creates one that is missing if it is opened to write, and raises *)
(* if it is opened to read.  The statements of a patch are in AtlasPatch.  *)
(***************************************************************************)
EXTENDS Naturals, Sequences

CONSTANTS
    Process,    \* the processes that read, patch or build the Atlas
    MaxStarts   \* bound: the readers, patches and builds there are

\* build_option_b_atlas, as far as a reader or a patch tells its steps apart:
\* the five CREATE TABLE, and the five INSERT with the refresh, are one each.
BuildStatements ==
    <<"create_tables", "insert_rows", "delete_metadata", "insert_metadata">>

BuiltTag == "built in"
PatchTag == "patched"
NoTag == "no birthmark"

Paths == {"configured", "fallback"}
Tasks == {"read", "patch", "build"}

NoFile == 0
NoPath == "no path"
Nobody == "nobody"

ASSUME FallbackAssumption == Nobody \notin Process /\ MaxStarts \in Nat

VARIABLES
    dir,    \* dir[path]: the file of that name, or NoFile
    atlas,  \* the files there have been, whether they have a name or not
    proc,   \* proc[p]: where p is and what it knows
    starts  \* how often a process was started

vars == <<dir, atlas, proc, starts>>

NoView == [file |-> NoFile, whole |-> TRUE, tag |-> BuiltTag]

\* at: what p does next; task: why it was started; asked: the path it was given, or
\* the configured one; path: the path it builds, or
\* the atlas_path of its reader; managed: the atlas_path of its patch manager;
\* open: the file it has open to write; view: what it last read of the Atlas;
\* overtaken: whether another removed or opened the file at p's path since.
Idle == [at |-> "idle", task |-> "read", asked |-> "configured",
         path |-> "configured", managed |-> NoPath, open |-> NoFile,
         view |-> NoView, overtaken |-> FALSE]

NewFile(p) == [built |-> 0, tag |-> NoTag, writer |-> p, abandoned |-> FALSE]
BuiltFile == [built |-> Len(BuildStatements), tag |-> BuiltTag, writer |-> Nobody,
              abandoned |-> FALSE]

Whole(file) == file.built = Len(BuildStatements)

\* With the configured Atlas of the container image, or without.
Init ==
    /\ \/ dir = [x \in Paths |-> NoFile] /\ atlas = << >>
       \/ dir = [configured |-> 1, fallback |-> NoFile] /\ atlas = <<BuiltFile>>
    /\ proc = [p \in Process |-> Idle]
    /\ starts = 0

-----------------------------------------------------------------------------
At(p, place) == proc[p].at = place
Named(p) == dir[proc[p].path]                   \* the file at p's path
Refused(p) == Named(p) # NoFile /\ atlas[Named(p)].writer # Nobody

Empty(p) == Named(p) # NoFile /\ atlas[Named(p)].built = 0

Becomes(p, next) == proc' = [proc EXCEPT ![p] = next]

\* p goes on as next after removing or opening the file at its path.
Overtakes(p, next) ==
    proc' = [q \in Process |->
               IF q = p THEN next
               ELSE [proc[q] EXCEPT !.overtaken = @ \/ proc[q].path = proc[p].path]]

\* What p was started for is over, by an end, an exception or its death; what
\* it had open is closed as it is.
Exit(p) ==
    /\ Becomes(p, Idle)
    /\ atlas' = [i \in DOMAIN atlas |->
                   IF i = proc[p].open
                   THEN [atlas[i] EXCEPT !.writer = Nobody, !.abandoned = @ \/ ~Whole(atlas[i])]
                   ELSE atlas[i]]
    /\ UNCHANGED <<dir, starts>>

-----------------------------------------------------------------------------
(* ensure_atlas.                                                           *)

\* What p does once ensure_atlas has returned.
Ensured(p, task, managed) ==
    CASE task = "build" -> "idle"
      [] task = "patch" /\ managed = NoPath -> "manager"
      [] OTHER -> "ready"

\* ensure_atlas(x): the path x if there is a file, and otherwise the fallback,
\* which is to be built.
EnsureAtlas(x) == IF dir[x] # NoFile THEN x ELSE "fallback"

\* x: the path it is given; y: the one it goes on with.
StartAt(p, task, x, y, place) ==
    /\ At(p, "idle") /\ starts < MaxStarts
    /\ starts' = starts + 1
    /\ Becomes(p, [Idle EXCEPT !.task = task, !.asked = x, !.path = y, !.at = place])
    /\ UNCHANGED <<dir, atlas>>

\* A plausible change: a fallback Atlas that is there is taken as it is.
StartWithWhatIsThere(p, task, x) ==
    IF task = "build"
    THEN StartAt(p, task, x, x, "look")
    ELSE StartAt(p, task, x, EnsureAtlas(x),
                 IF dir[EnsureAtlas(x)] = NoFile
                 THEN "look" ELSE Ensured(p, task, NoPath))

\* A process is started with the path of either Atlas.  One that names the fallback
\* takes it as it is, if there is one.  A process may also be started to build
\* the Atlas at its path (oracle/seed.py).
Start(p, task, x) ==
    IF task = "build"
    THEN StartAt(p, task, x, x, "look")
    ELSE StartAt(p, task, x, EnsureAtlas(x),
                 IF dir[x] = NoFile THEN "look" ELSE Ensured(p, task, NoPath))

\* db_path.exists().
Look(p) ==
    /\ At(p, "look")
    /\ Becomes(p, [proc[p] EXCEPT !.at = IF Named(p) = NoFile THEN "connect" ELSE "unlink"])
    /\ UNCHANGED <<dir, atlas, starts>>

\* db_path.unlink().
Unlink(p) ==
    /\ At(p, "unlink") /\ Named(p) # NoFile
    /\ dir' = [dir EXCEPT ![proc[p].path] = NoFile]
    /\ Overtakes(p, [proc[p] EXCEPT !.at = "connect"])
    /\ UNCHANGED <<atlas, starts>>

\* It raises where another process was faster.
UnlinkRaises(p) ==
    /\ At(p, "unlink") /\ Named(p) = NoFile
    /\ Exit(p)

\* duckdb.connect, to write: a file that is missing is created.
OpenToWrite(p, place) ==
    LET i == IF Named(p) = NoFile THEN Len(atlas) + 1 ELSE Named(p)
    IN  /\ ~Refused(p)
        /\ atlas' = IF Named(p) = NoFile THEN Append(atlas, NewFile(p))
                    ELSE [atlas EXCEPT ![i].writer = p]
        /\ dir' = [dir EXCEPT ![proc[p].path] = i]
        /\ Overtakes(p, [proc[p] EXCEPT !.open = i, !.at = place])
        /\ UNCHANGED starts

Connect(p) == At(p, "connect") /\ OpenToWrite(p, "build")

ConnectRaises(p) ==
    /\ At(p, "connect") \/ At(p, "checked")
    /\ Refused(p)
    /\ Exit(p)

\* What a statement of the build leaves.
Executed(file, statement) ==
    [file EXCEPT !.built = @ + 1,
                 !.tag = CASE statement \in {"insert_rows", "insert_metadata"} -> BuiltTag
                           [] statement = "delete_metadata" -> NoTag
                           [] OTHER -> @]

\* The next statement; after the last one the connection is closed.
BuildNext(p, held) ==
    LET i == proc[p].open
        done == Executed(atlas[i], BuildStatements[atlas[i].built + 1])
    IN  /\ atlas' = [atlas EXCEPT ![i] =
                       [done EXCEPT !.writer = IF Whole(done) THEN Nobody ELSE held]]
        /\ Becomes(p, IF ~Whole(done) THEN [proc[p] EXCEPT !.at = "building"]
                      ELSE IF proc[p].task = "build" THEN Idle
                      ELSE [proc[p] EXCEPT !.open = NoFile,
                                !.at = Ensured(p, proc[p].task, proc[p].managed)])
        /\ UNCHANGED <<dir, starts>>

\* The tables are created only where there are none.
Buildable(p) == At(p, "building") \/ (At(p, "build") /\ atlas[proc[p].open].built = 0)

\* A plausible bug: every statement has a connection of its own.
ReleasingBuild(p) == Buildable(p) /\ BuildNext(p, Nobody)

Build(p) == Buildable(p) /\ BuildNext(p, p)

\* Another process built the file after p had removed the one before it.
BuildRaises(p) ==
    /\ At(p, "build") /\ atlas[proc[p].open].built > 0
    /\ Exit(p)

-----------------------------------------------------------------------------
(* Reading and patching.                                                   *)

\* A plausible bug: apply_patch reads the version from the configured Atlas.
MakeReaderOfConfigured(p) ==
    /\ At(p, "manager")
    /\ Becomes(p, [proc[p] EXCEPT
                     !.managed = proc[p].path, !.path = EnsureAtlas("configured"),
                     !.at = IF dir["configured"] # NoFile THEN "ready" ELSE "look"])
    /\ UNCHANGED <<dir, atlas, starts>>

\* apply_patch makes a reader of the manager's path: ensure_atlas once more.
MakeReader(p) ==
    LET x == proc[p].path
    IN  /\ At(p, "manager")
        /\ Becomes(p, [proc[p] EXCEPT
                         !.managed = x, !.path = EnsureAtlas(x),
                         !.at = IF dir[x] # NoFile THEN "ready" ELSE "look"])
        /\ UNCHANGED <<dir, atlas, starts>>

\* One of the reads of the core, each over a connection of its own.  A patch
\* reads the birthmark alone, to which a missing table is no error.
Read(p) ==
    LET i == Named(p)
    IN  /\ At(p, "ready") /\ i # NoFile /\ ~Refused(p)
        /\ Becomes(p, [proc[p] EXCEPT
                         !.view = [file |-> i, whole |-> Whole(atlas[i]), tag |-> atlas[i].tag],
                         !.at = IF proc[p].task = "patch" THEN "checked" ELSE "ready",
                         !.path = IF proc[p].task = "patch" THEN proc[p].managed ELSE @])
        /\ UNCHANGED <<dir, atlas, starts>>

ReadRaises(p) ==
    /\ At(p, "ready")
    /\ \/ Named(p) = NoFile \/ Refused(p)
       \/ proc[p].task = "read" /\ Empty(p)
    /\ Exit(p)

Leave(p) ==
    /\ At(p, "ready") /\ proc[p].task = "read" /\ proc[p].view # NoView
    /\ Exit(p)

\* The version a patch is for may be another one.
VersionRaises(p) == At(p, "checked") /\ Exit(p)

\* apply_patch opens the manager's path: it may be another file by now, or
\* another path than the one its version was read from.
OpenForPatch(p) == At(p, "checked") /\ OpenToWrite(p, "patching")

\* The patch is reported as applied.
Patch(p) ==
    /\ At(p, "patching") /\ atlas[proc[p].open].built > 0
    /\ atlas' = [atlas EXCEPT ![proc[p].open].tag = PatchTag, ![proc[p].open].writer = Nobody]
    /\ Becomes(p, Idle)
    /\ UNCHANGED <<dir, starts>>

\* The fingerprint reads tables the file does not have.
PatchRaises(p) ==
    /\ At(p, "patching") /\ atlas[proc[p].open].built = 0
    /\ Exit(p)

Die(p) == ~At(p, "idle") /\ Exit(p)

Next ==
    \E p \in Process :
        \/ \E task \in Tasks, x \in Paths : Start(p, task, x)
        \/ Look(p) \/ Unlink(p) \/ UnlinkRaises(p) \/ Connect(p) \/ ConnectRaises(p)
        \/ Build(p) \/ BuildRaises(p)
        \/ MakeReader(p) \/ Read(p) \/ ReadRaises(p) \/ Leave(p)
        \/ VersionRaises(p) \/ OpenForPatch(p) \/ Patch(p) \/ PatchRaises(p)
        \/ Die(p)

Spec == Init /\ [][Next]_vars

-----------------------------------------------------------------------------
(***************************************************************************)
(* Properties.                                                             *)
(***************************************************************************)
\* An Atlas that is being built is never read: a process that reads one that is
\* not whole reads what a process that died or raised has left, for a builder
\* keeps the file open and a file that is removed loses its name
\* (build_option_b_atlas, _EclInternalCore._connect).
HalfBuiltIsAbandoned ==
    \A p \in Process :
        ~proc[p].view.whole => atlas[proc[p].view.file].abandoned

\* Whatever died and whatever was patched before it, a process that asked for the
\* configured Atlas and works with the fallback reads a whole Atlas of the version
\* that was built in, unless another one removed or opened it since: falling back
\* mends the fallback, and with it undoes every patch of it (ensure_atlas).  One
\* that asks for the fallback by its path may read whatever was left there.
StartMendsTheFallback ==
    \A p \in Process :
        LET q == proc[p]
        IN  q.asked = "configured" /\ q.path = "fallback" /\ ~q.overtaken =>
                (q.view # NoView => q.view.whole /\ q.view.tag = BuiltTag)

\* A patch is applied to the file its version was checked on, unless another
\* process removed or opened that path in between: the reader apply_patch makes
\* to check it never ends up with another Atlas than the manager's on its own
\* account (OfflineSyncManager.apply_patch).
PatchedAsChecked ==
    \A p \in Process :
        At(p, "patching") /\ ~proc[p].overtaken => proc[p].open = proc[p].view.file

-----------------------------------------------------------------------------
(***************************************************************************)
(* The invariant the proofs rest on.                                       *)
(***************************************************************************)
Places ==
    {"idle", "look", "unlink", "connect", "build", "building", "manager", "ready",
     "checked", "patching"}
Holding == {"build", "building", "patching"}
Tags == {BuiltTag, PatchTag, NoTag}

File == [built : 0..Len(BuildStatements), tag : Tags, writer : Process \cup {Nobody},
         abandoned : BOOLEAN]
View == [file : Nat, whole : BOOLEAN, tag : Tags]
ProcessState ==
    [at : Places, task : Tasks, asked : Paths, path : Paths, managed : Paths \cup {NoPath},
     open : Nat, view : View, overtaken : BOOLEAN]

FallbackTypeOK ==
    /\ atlas \in Seq(File)
    /\ dir \in [Paths -> 0..Len(atlas)]
    /\ proc \in [Process -> ProcessState]
    /\ starts \in Nat

\* No file has two names.
NamesDiffer == \A x, y \in Paths : dir[x] = dir[y] /\ dir[x] # NoFile => x = y

\* A file nobody has open to write is whole, or was abandoned.
HeldUntilWhole ==
    \A i \in DOMAIN atlas :
        Whole(atlas[i]) \/ atlas[i].abandoned \/ atlas[i].writer # Nobody

\* The file at path x is as its builder left it.
Mended(x) ==
    /\ dir[x] # NoFile
    /\ LET file == atlas[dir[x]]
       IN  Whole(file) /\ file.tag = BuiltTag /\ file.writer = Nobody

\* What p has open is its own; it builds what it found empty, and patches what
\* somebody built or abandoned.
HoldsItsFile(p) ==
    LET q == proc[p]
    IN  /\ IF q.at \in Holding
           THEN q.open \in DOMAIN atlas /\ atlas[q.open].writer = p
           ELSE q.open = NoFile
        /\ q.at = "building" => atlas[q.open].built \in 1..(Len(BuildStatements) - 1)
        /\ q.at = "patching" =>
              atlas[q.open].built = 0 \/ Whole(atlas[q.open]) \/ atlas[q.open].abandoned

\* What p, unless it was overtaken, knows of the file at its path.
KnowsItsPath(p) ==
    LET q == proc[p]
    IN  /\ q.view # NoView =>
              q.at \in {"ready", "checked", "patching"} /\ q.view.file \in DOMAIN atlas
        /\ q.at = "ready" /\ q.task = "patch" => q.managed # NoPath
        /\ q.managed = "fallback" => q.path = "fallback"
        /\ ~q.overtaken =>
              /\ q.managed # NoPath => q.path = q.managed
              /\ q.at \in {"build", "building"} => dir[q.path] = q.open
              /\ q.at = "manager" => dir[q.path] # NoFile
              /\ q.asked = "configured" /\ q.path = "fallback" =>
                    (q.at \in {"manager", "ready"} => Mended(q.path))
              /\ q.at = "checked" => dir[q.path] = q.view.file /\ q.view.file # NoFile

FallbackInvariant ==
    /\ FallbackTypeOK /\ NamesDiffer /\ HeldUntilWhole
    /\ \A p \in Process : HoldsItsFile(p) /\ KnowsItsPath(p)
    /\ HalfBuiltIsAbandoned /\ StartMendsTheFallback /\ PatchedAsChecked
=============================================================================
