--------------------------- MODULE FallbackProofs ---------------------------
(* Proofs of the safety properties of FallbackAtlas. *)
EXTENDS FallbackAtlas, SequenceTheorems, TLAPS

-----------------------------------------------------------------------------
(* Facts about files and processes.                                        *)

\* What the properties say of one process.
ReadsWhatThereIs(p) ==
    LET q == proc[p]
    IN  /\ ~q.view.whole => atlas[q.view.file].abandoned
        /\ q.asked = "configured" /\ q.path = "fallback" /\ ~q.overtaken =>
              (q.view # NoView => q.view.whole /\ q.view.tag = BuiltTag)
        /\ q.at = "patching" /\ ~q.overtaken => q.open = q.view.file

Fine(p) == HoldsItsFile(p) /\ KnowsItsPath(p) /\ ReadsWhatThereIs(p)

\* The invariant, process by process.
LEMMA InvariantByProcess ==
    FallbackInvariant <=>
        FallbackTypeOK /\ NamesDiffer /\ HeldUntilWhole /\ \A p \in Process : Fine(p)
<1>1. (\A p \in Process : ReadsWhatThereIs(p)) <=>
          HalfBuiltIsAbandoned /\ StartMendsTheFallback /\ PatchedAsChecked
    BY DEF ReadsWhatThereIs, HalfBuiltIsAbandoned, StartMendsTheFallback, PatchedAsChecked, At
<1> QED
    BY <1>1 DEF FallbackInvariant, Fine

LEMMA InvariantByProcessNext ==
    ASSUME FallbackTypeOK', NamesDiffer', HeldUntilWhole', \A p \in Process : Fine(p)'
    PROVE  FallbackInvariant'
<1>1. (\A p \in Process : ReadsWhatThereIs(p)') =>
          HalfBuiltIsAbandoned' /\ StartMendsTheFallback' /\ PatchedAsChecked'
    BY DEF ReadsWhatThereIs, HalfBuiltIsAbandoned, StartMendsTheFallback, PatchedAsChecked, At
<1> QED
    BY <1>1 DEF FallbackInvariant, Fine

\* The statements a build has.
LEMMA StatementCount == Len(BuildStatements) = 4
BY DEF BuildStatements

\* The files there have been are numbered.
LEMMA FileShape ==
    ASSUME FallbackTypeOK
    PROVE  /\ Len(atlas) \in Nat /\ DOMAIN atlas = 1..Len(atlas)
           /\ \A i \in DOMAIN atlas : atlas[i] \in File
           /\ \A x \in Paths : dir[x] = NoFile \/ dir[x] \in DOMAIN atlas
<1>1. Len(atlas) \in Nat /\ DOMAIN atlas = 1..Len(atlas) /\ atlas \in [1..Len(atlas) -> File]
    BY LenProperties DEF FallbackTypeOK
<1>2. dir \in [Paths -> 0..Len(atlas)]
    BY DEF FallbackTypeOK
<1> QED
    BY <1>1, <1>2 DEF NoFile

\* One file changed, or one more.
LEMMA ChangedFile ==
    ASSUME FallbackTypeOK, NEW i \in DOMAIN atlas, NEW f \in File
    PROVE  /\ [atlas EXCEPT ![i] = f] \in Seq(File)
           /\ Len([atlas EXCEPT ![i] = f]) = Len(atlas)
           /\ DOMAIN [atlas EXCEPT ![i] = f] = DOMAIN atlas
BY FileShape, ExceptSeq DEF FallbackTypeOK

LEMMA AddedFile ==
    ASSUME FallbackTypeOK, NEW f \in File
    PROVE  /\ Append(atlas, f) \in Seq(File)
           /\ Len(Append(atlas, f)) = Len(atlas) + 1
           /\ \A i \in DOMAIN atlas : Append(atlas, f)[i] = atlas[i]
           /\ Append(atlas, f)[Len(atlas) + 1] = f
BY FileShape, AppendProperties DEF FallbackTypeOK

\* What a process is goes on but for its being overtaken.
GoesOn(v, b) ==
    /\ proc'[v].at = proc[v].at /\ proc'[v].task = proc[v].task
    /\ proc'[v].asked = proc[v].asked
    /\ proc'[v].path = proc[v].path /\ proc'[v].managed = proc[v].managed
    /\ proc'[v].open = proc[v].open /\ proc'[v].view = proc[v].view
    /\ proc'[v].overtaken = b

\* A process is not disturbed by a step of another one that leaves the files it
\* has open, and the file at its path unless it overtakes it.
LEMMA OthersAreFine ==
    ASSUME FallbackTypeOK, FallbackTypeOK', NEW v \in Process, Fine(v),
           NEW b \in BOOLEAN, GoesOn(v, b), proc[v].overtaken => b,
           \A i \in DOMAIN atlas :
               /\ i \in DOMAIN atlas'
               /\ atlas[i].abandoned => atlas'[i].abandoned
               /\ atlas[i].writer = v => atlas'[i] = atlas[i],
           ~b => /\ dir'[proc[v].path] = dir[proc[v].path]
                 /\ dir[proc[v].path] \in DOMAIN atlas
                       /\ atlas[dir[proc[v].path]].writer = Nobody =>
                          atlas'[dir[proc[v].path]] = atlas[dir[proc[v].path]]
    PROVE  Fine(v)'
<1>1. proc[v] \in ProcessState /\ proc[v].path \in Paths /\ proc[v].overtaken \in BOOLEAN
      /\ proc[v].view.whole \in BOOLEAN
    BY DEF FallbackTypeOK, ProcessState, View
<1>2. HoldsItsFile(v)'
    <2>1. CASE proc[v].at \in Holding
        <3>1. proc[v].open \in DOMAIN atlas /\ atlas[proc[v].open].writer = v
            BY <2>1 DEF Fine, HoldsItsFile
        <3>2. proc[v].open \in DOMAIN atlas' /\ atlas'[proc[v].open] = atlas[proc[v].open]
            BY <3>1
        <3> QED
            BY <2>1, <3>1, <3>2 DEF Fine, HoldsItsFile, GoesOn, Whole
    <2>2. CASE proc[v].at \notin Holding
        BY <2>2 DEF Fine, HoldsItsFile, GoesOn, Holding
    <2> QED
        BY <2>1, <2>2
<1>3. KnowsItsPath(v)'
    <2>1. proc[v].view # NoView =>
              proc[v].at \in {"ready", "checked", "patching"} /\ proc[v].view.file \in DOMAIN atlas'
        BY DEF Fine, KnowsItsPath
    <2>2. /\ proc[v].at = "ready" /\ proc[v].task = "patch" => proc[v].managed # NoPath
          /\ proc[v].managed = "fallback" => proc[v].path = "fallback"
        BY DEF Fine, KnowsItsPath
    <2>3. ASSUME ~b
          PROVE  /\ proc[v].managed # NoPath => proc[v].path = proc[v].managed
                 /\ proc[v].at \in {"build", "building"} => dir'[proc[v].path] = proc[v].open
                 /\ proc[v].at = "manager" => dir'[proc[v].path] # NoFile
                 /\ proc[v].at = "checked" =>
                       dir'[proc[v].path] = proc[v].view.file /\ proc[v].view.file # NoFile
        BY <2>3 DEF Fine, KnowsItsPath
    <2>4. ASSUME ~b, proc[v].at \in {"manager", "ready"}, proc[v].path = "fallback",
                 proc[v].asked = "configured"
          PROVE  Mended(proc[v].path)'
        <3>1. Mended(proc[v].path)
            BY <2>4 DEF Fine, KnowsItsPath
        <3>2. /\ dir[proc[v].path] \in DOMAIN atlas
              /\ atlas[dir[proc[v].path]].writer = Nobody
            BY <1>1, <3>1, FileShape DEF Mended
        <3>3. /\ dir'[proc[v].path] = dir[proc[v].path]
              /\ atlas'[dir[proc[v].path]] = atlas[dir[proc[v].path]]
            BY <2>4, <3>2
        <3>4. proc'[v].path = proc[v].path
            BY DEF GoesOn
        <3> QED
            BY <3>1, <3>3, <3>4 DEF Mended, Whole
    <2> QED
        BY <2>1, <2>2, <2>3, <2>4 DEF KnowsItsPath, GoesOn
<1>4. ReadsWhatThereIs(v)'
    <2>1. ~proc[v].view.whole => atlas'[proc[v].view.file].abandoned
        <3>1. ~proc[v].view.whole => proc[v].view # NoView
            BY DEF NoView
        <3> QED
            BY <3>1 DEF Fine, KnowsItsPath, ReadsWhatThereIs
    <2> QED
        BY <2>1, <1>1 DEF Fine, ReadsWhatThereIs, GoesOn
<1> QED
    BY <1>2, <1>3, <1>4 DEF Fine

-----------------------------------------------------------------------------
(* Steps that leave the files alone.                                       *)

LEMMA IdleIsTyped == Idle \in ProcessState /\ Idle.overtaken = FALSE
BY DEF Idle, ProcessState, Places, Tasks, Paths, NoFile, NoView, View, Tags

LEMMA BecomesShape ==
    ASSUME FallbackTypeOK, NEW p \in Process, NEW next \in ProcessState, Becomes(p, next)
    PROVE  /\ proc' \in [Process -> ProcessState] /\ proc'[p] = next
           /\ \A v \in Process \ {p} :
                 GoesOn(v, proc[v].overtaken) /\ proc[v].overtaken \in BOOLEAN
<1>1. proc \in [Process -> ProcessState]
    BY DEF FallbackTypeOK
<1>2. proc' \in [Process -> ProcessState] /\ proc'[p] = next
      /\ \A v \in Process \ {p} : proc'[v] = proc[v]
    BY <1>1 DEF Becomes
<1>3. \A v \in Process : proc[v].overtaken \in BOOLEAN
    BY <1>1 DEF ProcessState
<1> QED
    BY <1>2, <1>3 DEF GoesOn

\* A step that changes what one process is, and nothing else.
LEMMA OnlyItself ==
    ASSUME FallbackInvariant, NEW p \in Process, NEW next \in ProcessState,
           Becomes(p, next), UNCHANGED <<dir, atlas>>, starts' \in Nat, Fine(p)'
    PROVE  FallbackInvariant'
<1> USE InvariantByProcess
<1>1. FallbackTypeOK'
    BY BecomesShape DEF FallbackTypeOK
<1>2. NamesDiffer' /\ HeldUntilWhole'
    BY DEF NamesDiffer, HeldUntilWhole, Whole
<1>3. ASSUME NEW v \in Process, v # p
      PROVE  Fine(v)'
    <2>1. GoesOn(v, proc[v].overtaken) /\ proc[v].overtaken \in BOOLEAN
        BY <1>3, BecomesShape
    <2> QED
        BY <2>1, <1>1, OthersAreFine
<1> QED
    BY <1>1, <1>2, <1>3, InvariantByProcessNext

LEMMA StartKeeps ==
    ASSUME FallbackInvariant, NEW p \in Process, NEW task \in Tasks, NEW x \in Paths,
           Start(p, task, x)
    PROVE  FallbackInvariant'
<1> DEFINE y == IF task = "build" THEN x ELSE EnsureAtlas(x)
           place == IF task = "build" THEN "look"
                    ELSE IF dir[x] = NoFile THEN "look" ELSE Ensured(p, task, NoPath)
           next == [Idle EXCEPT !.task = task, !.asked = x, !.path = y, !.at = place]
<1>1. /\ starts' = starts + 1 /\ Becomes(p, next) /\ UNCHANGED <<dir, atlas>>
    BY DEF Start, StartAt
<1>2. /\ place \in {"look", "manager", "ready"} /\ y \in Paths
      /\ place = "manager" => dir[y] # NoFile
      /\ place \in {"manager", "ready"} => y = x
      /\ place = "ready" => task # "patch"
    BY DEF Tasks, Paths, Ensured, EnsureAtlas
<1> HIDE DEF y, place
<1>3. next \in ProcessState
    BY <1>2, IdleIsTyped DEF ProcessState, Places
<1>4. FallbackTypeOK /\ proc'[p] = next /\ starts' \in Nat
    BY <1>1, <1>3, BecomesShape DEF FallbackInvariant, FallbackTypeOK
<1>5. /\ next.at = place /\ next.task = task /\ next.path = y /\ next.managed = NoPath
      /\ next.asked = x
      /\ next.open = NoFile /\ next.view = NoView /\ next.overtaken = FALSE
    BY DEF Idle
<1> HIDE DEF next
<1>6. NoPath \notin Paths
    BY DEF NoPath, Paths
<1>7. HoldsItsFile(p)'
    BY <1>2, <1>4, <1>5 DEF HoldsItsFile, Holding
<1>8. KnowsItsPath(p)'
    BY <1>1, <1>2, <1>4, <1>5 DEF KnowsItsPath, NoPath
<1>9. ReadsWhatThereIs(p)'
    BY <1>2, <1>4, <1>5 DEF ReadsWhatThereIs, NoView
<1> QED
    BY <1>1, <1>3, <1>4, <1>7, <1>8, <1>9, OnlyItself DEF Fine

LEMMA LookKeeps ==
    ASSUME FallbackInvariant, NEW p \in Process, Look(p)
    PROVE  FallbackInvariant'
<1> DEFINE place == IF Named(p) = NoFile THEN "connect" ELSE "unlink"
           next == [proc[p] EXCEPT !.at = place]
<1>0. FallbackTypeOK /\ Fine(p)
    BY InvariantByProcess
<1>1. Becomes(p, next) /\ UNCHANGED <<dir, atlas, starts>> /\ proc[p].at = "look"
    BY DEF Look, At
<1>2. place \in {"connect", "unlink"}
    OBVIOUS
<1> HIDE DEF place
<1>3. next \in ProcessState /\ starts' \in Nat
    BY <1>0, <1>1, <1>2 DEF FallbackTypeOK, ProcessState, Places
<1>4. /\ next.at = place /\ next.task = proc[p].task /\ next.path = proc[p].path
      /\ next.managed = proc[p].managed /\ next.open = proc[p].open
      /\ next.view = proc[p].view /\ next.overtaken = proc[p].overtaken
      /\ next.asked = proc[p].asked
    BY <1>0 DEF FallbackTypeOK, ProcessState
<1> HIDE DEF next
<1>5. proc'[p] = next
    BY <1>0, <1>1, <1>3, BecomesShape
<1>6. Fine(p)'
    <2>1. HoldsItsFile(p)'
        BY <1>0, <1>1, <1>2, <1>4, <1>5 DEF Fine, HoldsItsFile, Holding
    <2>2. KnowsItsPath(p)'
        BY <1>0, <1>1, <1>2, <1>4, <1>5 DEF Fine, KnowsItsPath
    <2>3. ReadsWhatThereIs(p)'
        BY <1>0, <1>1, <1>2, <1>4, <1>5 DEF Fine, ReadsWhatThereIs
    <2> QED
        BY <2>1, <2>2, <2>3 DEF Fine
<1> QED
    BY <1>1, <1>3, <1>6, OnlyItself

LEMMA MakeReaderKeeps ==
    ASSUME FallbackInvariant, NEW p \in Process, MakeReader(p)
    PROVE  FallbackInvariant'
<1> DEFINE x == proc[p].path
           y == EnsureAtlas(x)
           place == IF dir[x] # NoFile THEN "ready" ELSE "look"
           next == [proc[p] EXCEPT !.managed = x, !.path = y, !.at = place]
<1>0. FallbackTypeOK /\ Fine(p) /\ x \in Paths
    BY InvariantByProcess DEF FallbackTypeOK, ProcessState
<1>1. Becomes(p, next) /\ UNCHANGED <<dir, atlas, starts>> /\ proc[p].at = "manager"
    BY DEF MakeReader, At
<1>2. /\ place \in {"ready", "look"} /\ y \in Paths /\ x # NoPath
      /\ dir[x] # NoFile => y = x
      /\ x = "fallback" => y = "fallback"
      /\ place = "ready" => dir[x] # NoFile
    BY <1>0 DEF EnsureAtlas, Paths, NoPath
<1>3. ~proc[p].overtaken =>
          /\ dir[x] # NoFile
          /\ proc[p].asked = "configured" /\ x = "fallback" => Mended(x)
    BY <1>0, <1>1 DEF Fine, KnowsItsPath
<1>4. proc[p].view = NoView /\ proc[p].open = NoFile
    BY <1>0, <1>1 DEF Fine, KnowsItsPath, HoldsItsFile, Holding
<1>5. next \in ProcessState /\ starts' \in Nat
    <2> HIDE DEF place, y
    <2> QED
        BY <1>0, <1>1, <1>2 DEF FallbackTypeOK, ProcessState, Places
<1>6. /\ next.at = place /\ next.task = proc[p].task /\ next.path = y /\ next.managed = x
      /\ next.open = NoFile /\ next.view = NoView /\ next.overtaken = proc[p].overtaken
      /\ next.asked = proc[p].asked
    BY <1>0, <1>4 DEF FallbackTypeOK, ProcessState
<1> HIDE DEF next, x, y, place
<1>7. proc'[p] = next
    BY <1>0, <1>1, <1>5, BecomesShape
<1>8. Fine(p)'
    <2>1. HoldsItsFile(p)'
        BY <1>2, <1>6, <1>7 DEF HoldsItsFile, Holding
    <2>2. KnowsItsPath(p)'
        <3>1. ASSUME ~proc[p].overtaken, y = "fallback", proc[p].asked = "configured"
              PROVE  Mended(proc[p].path)'
            BY <3>1, <1>1, <1>2, <1>3, <1>6, <1>7 DEF Mended, Whole
        <3> QED
            BY <3>1, <1>1, <1>2, <1>3, <1>6, <1>7 DEF KnowsItsPath
    <2>3. ReadsWhatThereIs(p)'
        BY <1>2, <1>6, <1>7 DEF ReadsWhatThereIs, NoView
    <2> QED
        BY <2>1, <2>2, <2>3 DEF Fine
<1> QED
    BY <1>1, <1>5, <1>8, OnlyItself

LEMMA ReadKeeps ==
    ASSUME FallbackInvariant, NEW p \in Process, Read(p)
    PROVE  FallbackInvariant'
<1> DEFINE i == Named(p)
           seen == [file |-> i, whole |-> Whole(atlas[i]), tag |-> atlas[i].tag]
           place == IF proc[p].task = "patch" THEN "checked" ELSE "ready"
           x == IF proc[p].task = "patch" THEN proc[p].managed ELSE proc[p].path
           next == [proc[p] EXCEPT !.view = seen, !.at = place, !.path = x]
<1>0. /\ FallbackTypeOK /\ HeldUntilWhole /\ Fine(p)
      /\ proc[p].path \in Paths /\ proc[p].managed \in Paths \cup {NoPath}
    BY InvariantByProcess DEF FallbackTypeOK, ProcessState
<1>1. /\ Becomes(p, next) /\ UNCHANGED <<dir, atlas, starts>> /\ proc[p].at = "ready"
      /\ i # NoFile /\ atlas[i].writer = Nobody /\ i = dir[proc[p].path]
    BY <1>0 DEF Read, At, Refused, Named, FallbackTypeOK, ProcessState
<1>2. /\ i \in DOMAIN atlas /\ i \in Nat /\ atlas[i] \in File
      /\ Whole(atlas[i]) \/ atlas[i].abandoned
    BY <1>0, <1>1, FileShape DEF HeldUntilWhole
<1>3. /\ seen \in View /\ seen.file = i /\ seen.tag = atlas[i].tag
      /\ ~seen.whole => atlas[i].abandoned
      /\ seen.whole = Whole(atlas[i])
    BY <1>2 DEF View, File, Whole
<1>4. /\ x \in Paths /\ place \in {"checked", "ready"}
      /\ place = "ready" => proc[p].task # "patch"
      /\ proc[p].managed = "fallback" => x = "fallback"
      /\ ~proc[p].overtaken => x = proc[p].path
                                /\ (proc[p].managed # NoPath => proc[p].path = proc[p].managed)
      /\ ~proc[p].overtaken /\ proc[p].asked = "configured" /\ x = "fallback" => Mended(x)
    BY <1>0, <1>1 DEF Fine, KnowsItsPath
<1>5. proc[p].open = NoFile
    BY <1>0, <1>1 DEF Fine, HoldsItsFile, Holding
<1> HIDE DEF seen, place, x, i
<1>6. next \in ProcessState /\ starts' \in Nat
    BY <1>0, <1>1, <1>3, <1>4 DEF FallbackTypeOK, ProcessState, Places
<1>7. /\ next.at = place /\ next.task = proc[p].task /\ next.path = x
      /\ next.managed = proc[p].managed
      /\ next.open = NoFile /\ next.view = seen /\ next.overtaken = proc[p].overtaken
      /\ next.asked = proc[p].asked
    BY <1>0, <1>5 DEF FallbackTypeOK, ProcessState
<1> HIDE DEF next
<1>8. proc'[p] = next
    BY <1>0, <1>1, <1>6, BecomesShape
<1>9. Fine(p)'
    <2>1. HoldsItsFile(p)'
        BY <1>4, <1>7, <1>8 DEF HoldsItsFile, Holding
    <2>2. KnowsItsPath(p)'
        <3>1. ASSUME ~proc[p].overtaken, x = "fallback", proc[p].asked = "configured"
              PROVE  Mended(proc[p].path)'
            BY <3>1, <1>1, <1>4, <1>7, <1>8 DEF Mended, Whole
        <3> QED
            BY <3>1, <1>1, <1>2, <1>3, <1>4, <1>7, <1>8 DEF KnowsItsPath
    <2>3. ReadsWhatThereIs(p)'
        <3>1. ASSUME ~proc[p].overtaken, x = "fallback", proc[p].asked = "configured"
              PROVE  seen.whole /\ seen.tag = BuiltTag
            BY <3>1, <1>1, <1>3, <1>4 DEF Mended
        <3> QED
            BY <3>1, <1>1, <1>3, <1>4, <1>7, <1>8 DEF ReadsWhatThereIs
    <2> QED
        BY <2>1, <2>2, <2>3 DEF Fine
<1> QED
    BY <1>1, <1>6, <1>9, OnlyItself

-----------------------------------------------------------------------------
(* Steps that change the files.                                            *)

\* Idle is fine whatever the files are.
LEMMA IdleIsFine ==
    ASSUME NEW p \in Process, proc'[p] = Idle
    PROVE  Fine(p)'
<1>1. /\ Idle.at = "idle" /\ Idle.open = NoFile /\ Idle.view = NoView
      /\ Idle.path = "configured" /\ Idle.managed = NoPath /\ Idle.task = "read"
      /\ NoView.whole = TRUE
    BY DEF Idle, NoView
<1>2. HoldsItsFile(p)'
    BY <1>1 DEF HoldsItsFile, Holding
<1>3. KnowsItsPath(p)'
    BY <1>1 DEF KnowsItsPath, NoPath
<1>4. ReadsWhatThereIs(p)'
    BY <1>1 DEF ReadsWhatThereIs
<1> QED
    BY <1>2, <1>3, <1>4 DEF Fine

\* A step that changes no file but what p has open, and no name, disturbs nobody.
LEMMA OwnFileOnly ==
    ASSUME FallbackInvariant, FallbackTypeOK', NEW p \in Process, NEW next \in ProcessState,
           Becomes(p, next), UNCHANGED dir, DOMAIN atlas' = DOMAIN atlas,
           \A i \in DOMAIN atlas :
               \/ atlas'[i] = atlas[i]
               \/ /\ i = proc[p].open /\ atlas[i].writer = p
                  /\ atlas[i].abandoned => atlas'[i].abandoned
                  /\ Whole(atlas'[i]) \/ atlas'[i].abandoned \/ atlas'[i].writer # Nobody,
           Fine(p)'
    PROVE  FallbackInvariant'
<1> USE InvariantByProcess
<1>1. NamesDiffer'
    BY DEF NamesDiffer
<1>2. HeldUntilWhole'
    <2> SUFFICES ASSUME NEW i \in DOMAIN atlas
                 PROVE  Whole(atlas'[i]) \/ atlas'[i].abandoned \/ atlas'[i].writer # Nobody
        BY DEF HeldUntilWhole, Whole
    <2>1. Whole(atlas[i]) \/ atlas[i].abandoned \/ atlas[i].writer # Nobody
        BY DEF HeldUntilWhole
    <2> QED
        BY <2>1
<1>3. ASSUME NEW v \in Process, v # p
      PROVE  Fine(v)'
    <2>1. GoesOn(v, proc[v].overtaken) /\ proc[v].overtaken \in BOOLEAN
        BY <1>3, BecomesShape
    <2>2. p # Nobody
        BY FallbackAssumption
    <2> QED
        BY <1>3, <2>1, <2>2, OthersAreFine
<1> QED
    BY <1>1, <1>2, <1>3, InvariantByProcessNext

LEMMA ExitKeeps ==
    ASSUME FallbackInvariant, NEW p \in Process, Exit(p)
    PROVE  FallbackInvariant'
<1> DEFINE closed(i) ==
              [atlas[i] EXCEPT !.writer = Nobody, !.abandoned = @ \/ ~Whole(atlas[i])]
<1>0. FallbackTypeOK /\ Fine(p)
    BY InvariantByProcess
<1>1. /\ Becomes(p, Idle) /\ UNCHANGED <<dir, starts>>
      /\ atlas' = [i \in DOMAIN atlas |-> IF i = proc[p].open THEN closed(i) ELSE atlas[i]]
    BY DEF Exit
<1>2. \A i \in DOMAIN atlas :
          /\ closed(i) \in File
          /\ closed(i).abandoned = (atlas[i].abandoned \/ ~Whole(atlas[i]))
          /\ Whole(closed(i)) <=> Whole(atlas[i])
    BY <1>0, FileShape DEF File, Whole
<1>3. DOMAIN atlas' = DOMAIN atlas
      /\ \A i \in DOMAIN atlas :
            atlas'[i] = (IF i = proc[p].open THEN closed(i) ELSE atlas[i]) /\ atlas'[i] \in File
    BY <1>0, <1>1, <1>2, FileShape
<1> HIDE DEF closed
<1>4. atlas' \in Seq(File) /\ Len(atlas') = Len(atlas)
    <2>1. atlas' \in [1..Len(atlas) -> File] /\ Len(atlas) \in Nat
        BY <1>0, <1>1, <1>3, FileShape
    <2> QED
        BY <2>1, SeqDef, LenProperties
<1>5. FallbackTypeOK'
    BY <1>0, <1>1, <1>4, IdleIsTyped, BecomesShape DEF FallbackTypeOK
<1>6. Fine(p)'
    BY <1>0, <1>1, IdleIsTyped, BecomesShape, IdleIsFine
<1>7. \A i \in DOMAIN atlas : i = proc[p].open => atlas[i].writer = p
    <2>1. 0 \notin DOMAIN atlas
        BY <1>0, FileShape
    <2> QED
        BY <1>0, <2>1 DEF Fine, HoldsItsFile, NoFile
<1> QED
    BY <1>1, <1>2, <1>3, <1>5, <1>6, <1>7, IdleIsTyped, OwnFileOnly

LEMMA OvertakesShape ==
    ASSUME FallbackTypeOK, NEW p \in Process, NEW next \in ProcessState, Overtakes(p, next)
    PROVE  /\ proc' \in [Process -> ProcessState] /\ proc'[p] = next
           /\ \A v \in Process \ {p} :
                 /\ GoesOn(v, proc[v].overtaken \/ proc[v].path = proc[p].path)
                 /\ proc[v].overtaken \in BOOLEAN
<1>1. \A v \in Process : proc[v] \in ProcessState
    BY DEF FallbackTypeOK
<1> DEFINE other(v) == [proc[v] EXCEPT !.overtaken = @ \/ proc[v].path = proc[p].path]
<1>2. \A v \in Process :
          /\ other(v) \in ProcessState
          /\ other(v).at = proc[v].at /\ other(v).task = proc[v].task
          /\ other(v).asked = proc[v].asked
          /\ other(v).path = proc[v].path /\ other(v).managed = proc[v].managed
          /\ other(v).open = proc[v].open /\ other(v).view = proc[v].view
          /\ other(v).overtaken = (proc[v].overtaken \/ proc[v].path = proc[p].path)
          /\ proc[v].overtaken \in BOOLEAN
    BY <1>1 DEF ProcessState
<1>3. proc' = [v \in Process |-> IF v = p THEN next ELSE other(v)]
    BY DEF Overtakes
<1> HIDE DEF other
<1> QED
    BY <1>2, <1>3 DEF GoesOn

LEMMA UnlinkKeeps ==
    ASSUME FallbackInvariant, NEW p \in Process, Unlink(p)
    PROVE  FallbackInvariant'
<1> DEFINE next == [proc[p] EXCEPT !.at = "connect"]
<1>0. FallbackTypeOK /\ NamesDiffer /\ HeldUntilWhole /\ Fine(p)
      /\ (\A v \in Process : Fine(v)) /\ proc[p].path \in Paths
    BY InvariantByProcess DEF FallbackTypeOK, ProcessState
<1>1. /\ Overtakes(p, next) /\ UNCHANGED <<atlas, starts>> /\ proc[p].at = "unlink"
      /\ dir' = [dir EXCEPT ![proc[p].path] = NoFile]
    BY DEF Unlink, At
<1>2. next \in ProcessState
    BY <1>0 DEF FallbackTypeOK, ProcessState, Places
<1>3. /\ next.at = "connect" /\ next.task = proc[p].task /\ next.path = proc[p].path
      /\ next.managed = proc[p].managed /\ next.open = proc[p].open
      /\ next.view = proc[p].view /\ next.overtaken = proc[p].overtaken
      /\ next.asked = proc[p].asked
    BY <1>0 DEF FallbackTypeOK, ProcessState
<1> HIDE DEF next
<1>4. dir' \in [Paths -> 0..Len(atlas)] /\ dir'[proc[p].path] = NoFile
      /\ \A x \in Paths : x # proc[p].path => dir'[x] = dir[x]
    BY <1>0, <1>1, FileShape DEF FallbackTypeOK, NoFile
<1>5. FallbackTypeOK'
    BY <1>0, <1>1, <1>2, <1>4, OvertakesShape DEF FallbackTypeOK
<1>6. NamesDiffer'
    BY <1>0, <1>4 DEF NamesDiffer
<1>7. HeldUntilWhole'
    BY <1>0, <1>1 DEF HeldUntilWhole, Whole
<1>8. Fine(p)'
    <2>0. proc'[p] = next
        BY <1>0, <1>1, <1>2, OvertakesShape
    <2>1. HoldsItsFile(p)'
        BY <1>0, <1>1, <1>3, <2>0 DEF Fine, HoldsItsFile, Holding
    <2>2. KnowsItsPath(p)'
        BY <1>0, <1>1, <1>3, <2>0 DEF Fine, KnowsItsPath
    <2>3. ReadsWhatThereIs(p)'
        BY <1>0, <1>1, <1>3, <2>0 DEF Fine, ReadsWhatThereIs
    <2> QED
        BY <2>1, <2>2, <2>3 DEF Fine
<1>9. ASSUME NEW v \in Process, v # p
      PROVE  Fine(v)'
    <2> DEFINE b == proc[v].overtaken \/ proc[v].path = proc[p].path
    <2>1. GoesOn(v, b) /\ b \in BOOLEAN /\ (proc[v].overtaken => b)
        BY <1>0, <1>1, <1>2, <1>9, OvertakesShape
    <2>2. ~b => dir'[proc[v].path] = dir[proc[v].path]
        BY <1>0, <1>4 DEF FallbackTypeOK, ProcessState
    <2> HIDE DEF b
    <2> QED
        BY <1>0, <1>1, <1>5, <2>1, <2>2, OthersAreFine
<1> QED
    BY <1>5, <1>6, <1>7, <1>8, <1>9, InvariantByProcessNext

\* A file p opens is new or one nobody has open; no other process that is not
\* overtaken by it is at a path of that file.
LEMMA OpenKeeps ==
    ASSUME FallbackInvariant, NEW p \in Process, NEW place \in {"build", "patching"},
           OpenToWrite(p, place),
           place = "build" => At(p, "connect"), place = "patching" => At(p, "checked")
    PROVE  FallbackInvariant'
<1> DEFINE x == proc[p].path
           i == IF Named(p) = NoFile THEN Len(atlas) + 1 ELSE Named(p)
           next == [proc[p] EXCEPT !.open = i, !.at = place]
<1>0. /\ FallbackTypeOK /\ NamesDiffer /\ HeldUntilWhole /\ Fine(p)
      /\ \A v \in Process : Fine(v) /\ proc[v].path \in Paths
      /\ x \in Paths /\ p # Nobody /\ Named(p) = dir[x]
    BY InvariantByProcess, FallbackAssumption DEF FallbackTypeOK, ProcessState, Named
<1>1. /\ Overtakes(p, next) /\ UNCHANGED starts
      /\ dir' = [dir EXCEPT ![x] = i]
      /\ atlas' = IF dir[x] = NoFile THEN Append(atlas, NewFile(p))
                  ELSE [atlas EXCEPT ![i].writer = p]
      /\ dir[x] # NoFile => atlas[dir[x]].writer = Nobody
    BY <1>0 DEF OpenToWrite, Refused
<1>2. /\ Len(atlas) \in Nat /\ DOMAIN atlas = 1..Len(atlas)
      /\ \A j \in DOMAIN atlas : atlas[j] \in File
      /\ dir[x] = NoFile => i = Len(atlas) + 1
      /\ dir[x] # NoFile => i = dir[x] /\ i \in DOMAIN atlas
    BY <1>0, FileShape
<1>3. i \in Nat /\ i # NoFile
    BY <1>2 DEF NoFile
<1>4. /\ atlas' \in Seq(File) /\ Len(atlas) =< Len(atlas') /\ i =< Len(atlas')
      /\ Len(atlas') \in Nat /\ DOMAIN atlas' = 1..Len(atlas')
      /\ \A j \in DOMAIN atlas : j # i => atlas'[j] = atlas[j]
      /\ \A j \in DOMAIN atlas' : j # i => j \in DOMAIN atlas
      /\ atlas'[i].writer = p
      /\ dir[x] = NoFile => atlas'[i].built = 0
      /\ dir[x] # NoFile => /\ atlas'[i].built = atlas[i].built
                            /\ atlas'[i].abandoned = atlas[i].abandoned
    <2> HIDE DEF i
    <2>1. CASE dir[x] = NoFile
        <3>1. NewFile(p) \in File /\ NewFile(p).writer = p /\ NewFile(p).built = 0
            BY StatementCount DEF NewFile, File, Tags
        <3> QED
            BY <2>1, <3>1, <1>0, <1>1, <1>2, AddedFile, LenProperties
    <2>2. CASE dir[x] # NoFile
        <3> DEFINE f == [atlas[i] EXCEPT !.writer = p]
        <3>1. f \in File /\ f.writer = p /\ f.built = atlas[i].built
              /\ f.abandoned = atlas[i].abandoned
            BY <2>2, <1>2 DEF File
        <3>2. atlas' = [atlas EXCEPT ![i] = f]
            BY <2>2, <1>1
        <3> HIDE DEF f
        <3>3. atlas'[i] = f /\ \A j \in DOMAIN atlas : j # i => atlas'[j] = atlas[j]
            BY <2>2, <3>2, <1>2
        <3>4. /\ atlas' \in Seq(File) /\ Len(atlas') = Len(atlas)
              /\ DOMAIN atlas' = DOMAIN atlas
            BY <2>2, <3>1, <3>2, <1>0, <1>2, ChangedFile
        <3> QED
            BY <2>2, <3>1, <3>3, <3>4, <1>2
    <2> QED
        BY <2>1, <2>2
<1>5. next \in ProcessState
    <2>1. proc[p] \in ProcessState /\ place \in Places
        BY <1>0 DEF FallbackTypeOK, Places
    <2> HIDE DEF i
    <2> QED
        BY <1>3, <2>1 DEF ProcessState
<1>6. /\ next.at = place /\ next.task = proc[p].task /\ next.path = x
      /\ next.managed = proc[p].managed /\ next.open = i
      /\ next.view = proc[p].view /\ next.overtaken = proc[p].overtaken
      /\ next.asked = proc[p].asked
    BY <1>0 DEF FallbackTypeOK, ProcessState
<1> HIDE DEF next
<1>7. /\ dir'[x] = i /\ \A y \in Paths : y # x => dir'[y] = dir[y]
      /\ dir' \in [Paths -> 0..Len(atlas')]
    <2> HIDE DEF i, x
    <2> QED
        BY <1>0, <1>1, <1>2, <1>3, <1>4, FileShape DEF FallbackTypeOK, NoFile
<1>8. \A y \in Paths : y # x => dir[y] # i
    <2>1. \A y \in Paths : dir[y] = NoFile \/ dir[y] \in DOMAIN atlas
        BY <1>0, FileShape
    <2> QED
        BY <2>1, <1>0, <1>2, <1>3 DEF NamesDiffer
<1> HIDE DEF i
<1>9. FallbackTypeOK'
    BY <1>0, <1>1, <1>4, <1>5, <1>7, OvertakesShape DEF FallbackTypeOK
<1>10. NamesDiffer'
    BY <1>0, <1>7, <1>8 DEF NamesDiffer
<1>11. HeldUntilWhole'
    <2> SUFFICES ASSUME NEW j \in DOMAIN atlas'
                 PROVE  Whole(atlas'[j]) \/ atlas'[j].abandoned \/ atlas'[j].writer # Nobody
        BY DEF HeldUntilWhole, Whole
    <2> QED
        BY <1>0, <1>4 DEF HeldUntilWhole
<1>12. Fine(p)'
    <2>0. proc'[p] = next /\ i \in DOMAIN atlas'
        BY <1>0, <1>1, <1>2, <1>4, <1>5, OvertakesShape
    <2>1. HoldsItsFile(p)'
        <3>1. place = "patching" => \/ atlas'[i].built = 0 \/ Whole(atlas'[i])
                                    \/ atlas'[i].abandoned
            BY <1>0, <1>1, <1>2, <1>4 DEF HeldUntilWhole, Whole
        <3> QED
            BY <1>4, <1>6, <2>0, <3>1 DEF HoldsItsFile, Holding, Whole
    <2>2. KnowsItsPath(p)'
        <3>1. place = "build" => proc[p].view = NoView
            BY <1>0 DEF Fine, KnowsItsPath, At
        <3>2. proc[p].view # NoView => proc[p].view.file \in DOMAIN atlas'
            BY <1>0, <1>2, <1>4 DEF Fine, KnowsItsPath
        <3> QED
            BY <1>0, <1>6, <1>7, <2>0, <3>1, <3>2 DEF Fine, KnowsItsPath
    <2>3. ReadsWhatThereIs(p)'
        <3>1. place = "patching" /\ ~proc[p].overtaken => i = proc[p].view.file
            BY <1>0, <1>2 DEF Fine, KnowsItsPath, At
        <3>2. ~proc[p].view.whole =>
                  proc[p].view.file \in DOMAIN atlas /\ atlas[proc[p].view.file].abandoned
            BY <1>0 DEF Fine, KnowsItsPath, ReadsWhatThereIs, NoView
        <3>3. ~proc[p].view.whole => atlas'[proc[p].view.file].abandoned
            BY <3>2, <1>2, <1>3, <1>4
        <3> QED
            BY <1>0, <1>6, <2>0, <3>1, <3>3 DEF Fine, ReadsWhatThereIs
    <2> QED
        BY <2>1, <2>2, <2>3 DEF Fine
<1>13. ASSUME NEW v \in Process, v # p
       PROVE  Fine(v)'
    <2> DEFINE b == proc[v].overtaken \/ proc[v].path = proc[p].path
    <2>1. GoesOn(v, b) /\ b \in BOOLEAN /\ (proc[v].overtaken => b)
        BY <1>0, <1>1, <1>5, <1>13, OvertakesShape
    <2>2. ~b => /\ dir'[proc[v].path] = dir[proc[v].path]
                /\ dir[proc[v].path] # i
        BY <1>0, <1>7, <1>8
    <2> HIDE DEF b
    <2>3. ASSUME NEW j \in DOMAIN atlas
          PROVE  /\ j \in DOMAIN atlas'
                 /\ atlas[j].abandoned => atlas'[j].abandoned
                 /\ atlas[j].writer = v => atlas'[j] = atlas[j]
        <3>0. v # Nobody
            BY FallbackAssumption
        <3> QED
            BY <3>0, <1>1, <1>2, <1>3, <1>4
    <2>4. dir[proc[v].path] # i /\ dir[proc[v].path] \in DOMAIN atlas =>
              atlas'[dir[proc[v].path]] = atlas[dir[proc[v].path]]
        BY <1>4
    <2> QED
        BY <1>0, <1>9, <2>1, <2>2, <2>3, <2>4, OthersAreFine
<1> QED
    BY <1>9, <1>10, <1>11, <1>12, <1>13, InvariantByProcessNext

\* A statement of the build leaves a file, and the last one leaves it whole.
LEMMA ExecutedFacts ==
    ASSUME NEW file \in File, file.built < 4
    PROVE  LET done == Executed(file, BuildStatements[file.built + 1])
           IN  /\ done \in File /\ done.built = file.built + 1
               /\ done.abandoned = file.abandoned /\ done.writer = file.writer
               /\ Whole(done) <=> file.built = 3
               /\ Whole(done) => done.tag = BuiltTag
<1>1. file.built \in Nat /\ file.built \in 0..3
    BY StatementCount DEF File
<1> DEFINE statement == BuildStatements[file.built + 1]
           done == Executed(file, statement)
           tag == CASE statement \in {"insert_rows", "insert_metadata"} -> BuiltTag
                    [] statement = "delete_metadata" -> NoTag
                    [] OTHER -> file.tag
<1>2. file.built = 3 => statement = "insert_metadata"
    BY DEF BuildStatements
<1>3. tag \in Tags /\ (statement = "insert_metadata" => tag = BuiltTag)
    BY DEF Tags, File
<1>4. done = [file EXCEPT !.built = file.built + 1, !.tag = tag]
    BY DEF Executed
<1> HIDE DEF statement, tag
<1>5. /\ done.built = file.built + 1 /\ done.tag = tag
      /\ done.abandoned = file.abandoned /\ done.writer = file.writer
    BY <1>4 DEF File
<1>6. done \in File
    <2>1. file.built + 1 \in 0..Len(BuildStatements)
        BY <1>1, StatementCount
    <2> QED
        BY <1>3, <1>4, <2>1 DEF File
<1> HIDE DEF done
<1> QED
    BY <1>1, <1>2, <1>3, <1>5, <1>6, StatementCount DEF Whole, done, statement

LEMMA BuildKeeps ==
    ASSUME FallbackInvariant, NEW p \in Process, Build(p)
    PROVE  FallbackInvariant'
<1> DEFINE i == proc[p].open
           done == Executed(atlas[i], BuildStatements[atlas[i].built + 1])
           file == [done EXCEPT !.writer = IF Whole(done) THEN Nobody ELSE p]
           next == IF ~Whole(done) THEN [proc[p] EXCEPT !.at = "building"]
                   ELSE IF proc[p].task = "build" THEN Idle
                   ELSE [proc[p] EXCEPT !.open = NoFile,
                             !.at = Ensured(p, proc[p].task, proc[p].managed)]
<1>0. FallbackTypeOK /\ Fine(p) /\ proc[p] \in ProcessState
    BY InvariantByProcess DEF FallbackTypeOK
<1>1. /\ proc[p].at \in {"build", "building"}
      /\ proc[p].at = "building" \/ atlas[i].built = 0
      /\ atlas' = [atlas EXCEPT ![i] = file] /\ Becomes(p, next)
      /\ UNCHANGED <<dir, starts>>
    BY DEF Build, Buildable, BuildNext, At
<1>2. i \in DOMAIN atlas /\ atlas[i] \in File /\ atlas[i].writer = p /\ atlas[i].built < 4
    <2>1. i \in DOMAIN atlas /\ atlas[i].writer = p
        BY <1>0, <1>1 DEF Fine, HoldsItsFile, Holding
    <2>2. proc[p].at = "building" => atlas[i].built \in 1..3
        BY <1>0, StatementCount DEF Fine, HoldsItsFile
    <2>3. atlas[i] \in File
        BY <1>0, <2>1, FileShape
    <2> QED
        BY <1>1, <2>1, <2>2, <2>3
<1>3. /\ done \in File /\ done.built = atlas[i].built + 1
      /\ done.abandoned = atlas[i].abandoned
      /\ Whole(done) <=> atlas[i].built = 3
      /\ Whole(done) => done.tag = BuiltTag
    BY <1>2, ExecutedFacts
<1> HIDE DEF done
<1>4. /\ file \in File /\ file.built = done.built /\ file.abandoned = done.abandoned
      /\ file.tag = done.tag /\ (Whole(file) <=> Whole(done))
      /\ file.writer = IF Whole(done) THEN Nobody ELSE p
    BY <1>3 DEF File, Whole
<1> HIDE DEF file
<1>5. /\ atlas' \in Seq(File) /\ Len(atlas') = Len(atlas) /\ DOMAIN atlas' = DOMAIN atlas
      /\ atlas'[i] = file /\ \A j \in DOMAIN atlas : j # i => atlas'[j] = atlas[j]
    BY <1>0, <1>1, <1>2, <1>4, ChangedFile
<1>6. proc[p].view = NoView
    BY <1>0, <1>1 DEF Fine, KnowsItsPath
<1> DEFINE place == Ensured(p, proc[p].task, proc[p].managed)
<1>7. proc[p].task # "build" =>
          /\ place \in {"manager", "ready"}
          /\ place = "ready" /\ proc[p].task = "patch" => proc[p].managed # NoPath
    BY DEF Ensured
<1>8. Whole(done) /\ proc[p].task # "build" =>
          /\ next \in ProcessState
          /\ next.at = place /\ next.task = proc[p].task /\ next.path = proc[p].path
          /\ next.managed = proc[p].managed /\ next.open = NoFile
          /\ next.view = proc[p].view /\ next.overtaken = proc[p].overtaken
          /\ next.asked = proc[p].asked
    <2> HIDE DEF place
    <2> QED
        BY <1>0, <1>7 DEF ProcessState, Places, NoFile, place
<1>9. ~Whole(done) =>
          /\ next \in ProcessState
          /\ next.at = "building" /\ next.task = proc[p].task /\ next.path = proc[p].path
          /\ next.managed = proc[p].managed /\ next.open = i
          /\ next.view = proc[p].view /\ next.overtaken = proc[p].overtaken
          /\ next.asked = proc[p].asked
    BY <1>0 DEF ProcessState, Places
<1>10. Whole(done) /\ proc[p].task = "build" => next = Idle
    OBVIOUS
<1> HIDE DEF next, place
<1>11. next \in ProcessState
    BY <1>8, <1>9, <1>10, IdleIsTyped
<1>12. proc'[p] = next
    BY <1>0, <1>1, <1>11, BecomesShape
<1>13. FallbackTypeOK'
    BY <1>0, <1>1, <1>5, <1>11, BecomesShape DEF FallbackTypeOK
<1>14. Fine(p)'
    <2>0. ~proc[p].overtaken => dir[proc[p].path] = i
        BY <1>0, <1>1 DEF Fine, KnowsItsPath
    <2>1. i # NoFile
        BY <1>0, <1>2, FileShape DEF NoFile
    <2>2. /\ proc[p].managed = "fallback" => proc[p].path = "fallback"
          /\ ~proc[p].overtaken /\ proc[p].managed # NoPath => proc[p].path = proc[p].managed
        BY <1>0 DEF Fine, KnowsItsPath
    <2>3. CASE ~Whole(done)
        <3>1. HoldsItsFile(p)'
            <4>1. file.built \in 1..3
                BY <2>3, <1>2, <1>3, <1>4, StatementCount DEF File
            <4>2. proc'[p].at = "building" /\ proc'[p].open = i
                BY <2>3, <1>9, <1>12
            <4> QED
                BY <2>3, <4>1, <4>2, <1>2, <1>4, <1>5, StatementCount DEF HoldsItsFile, Holding
        <3>2. KnowsItsPath(p)'
            BY <2>3, <2>0, <2>2, <1>1, <1>6, <1>9, <1>12 DEF KnowsItsPath
        <3>3. ReadsWhatThereIs(p)'
            BY <2>3, <1>6, <1>9, <1>12 DEF ReadsWhatThereIs, NoView
        <3> QED
            BY <3>1, <3>2, <3>3 DEF Fine
    <2>4. CASE Whole(done) /\ proc[p].task # "build"
        <3>1. HoldsItsFile(p)'
            BY <2>4, <1>7, <1>8, <1>12 DEF HoldsItsFile, Holding
        <3>2. KnowsItsPath(p)'
            <4>1. ASSUME ~proc[p].overtaken
                  PROVE  Mended(proc[p].path)'
                BY <4>1, <2>0, <2>1, <2>4, <1>1, <1>3, <1>4, <1>5, <1>8, <1>12
                   DEF Mended, Whole
            <4> QED
                BY <2>4, <2>0, <2>1, <2>2, <4>1, <1>1, <1>6, <1>7, <1>8, <1>12 DEF KnowsItsPath
        <3>3. ReadsWhatThereIs(p)'
            BY <2>4, <1>6, <1>7, <1>8, <1>12 DEF ReadsWhatThereIs, NoView
        <3> QED
            BY <3>1, <3>2, <3>3 DEF Fine
    <2>5. CASE Whole(done) /\ proc[p].task = "build"
        BY <2>5, <1>10, <1>12, IdleIsFine
    <2> QED
        BY <2>3, <2>4, <2>5
<1>15. \A j \in DOMAIN atlas :
          \/ atlas'[j] = atlas[j]
          \/ /\ j = proc[p].open /\ atlas[j].writer = p
             /\ atlas[j].abandoned => atlas'[j].abandoned
             /\ Whole(atlas'[j]) \/ atlas'[j].abandoned \/ atlas'[j].writer # Nobody
    <2>1. p # Nobody
        BY FallbackAssumption
    <2> QED
        BY <2>1, <1>2, <1>3, <1>4, <1>5
<1> QED
    BY <1>1, <1>5, <1>11, <1>13, <1>14, <1>15, OwnFileOnly

LEMMA PatchKeeps ==
    ASSUME FallbackInvariant, NEW p \in Process, Patch(p)
    PROVE  FallbackInvariant'
<1> DEFINE i == proc[p].open
           file == [atlas[i] EXCEPT !.tag = PatchTag, !.writer = Nobody]
<1>0. FallbackTypeOK /\ Fine(p)
    BY InvariantByProcess
<1>1. /\ proc[p].at = "patching" /\ atlas[i].built > 0
      /\ Becomes(p, Idle) /\ UNCHANGED <<dir, starts>>
    BY DEF Patch, At
<1>2. /\ i \in DOMAIN atlas /\ atlas[i] \in File /\ atlas[i].writer = p
      /\ Whole(atlas[i]) \/ atlas[i].abandoned
    BY <1>0, <1>1, FileShape DEF Fine, HoldsItsFile, Holding, File
<1>3. atlas' = [atlas EXCEPT ![i] = file]
    BY <1>2, FileShape DEF Patch
<1>4. file \in File /\ file.abandoned = atlas[i].abandoned /\ (Whole(file) <=> Whole(atlas[i]))
    BY <1>2 DEF File, Tags, Whole
<1> HIDE DEF file
<1>5. /\ atlas' \in Seq(File) /\ Len(atlas') = Len(atlas) /\ DOMAIN atlas' = DOMAIN atlas
      /\ atlas'[i] = file /\ \A j \in DOMAIN atlas : j # i => atlas'[j] = atlas[j]
    BY <1>0, <1>2, <1>3, <1>4, ChangedFile
<1>6. FallbackTypeOK'
    BY <1>0, <1>1, <1>5, IdleIsTyped, BecomesShape DEF FallbackTypeOK
<1>7. Fine(p)'
    BY <1>0, <1>1, IdleIsTyped, BecomesShape, IdleIsFine
<1> QED
    BY <1>1, <1>2, <1>4, <1>5, <1>6, <1>7, IdleIsTyped, OwnFileOnly

-----------------------------------------------------------------------------
(* The theorems.                                                           *)

LEMMA FallbackInit == Init => FallbackInvariant
<1> SUFFICES ASSUME Init PROVE FallbackInvariant
    OBVIOUS
<1>1. FallbackTypeOK /\ NamesDiffer /\ HeldUntilWhole
    <2>1. BuiltFile \in File /\ Whole(BuiltFile)
        BY StatementCount DEF BuiltFile, File, Tags, Whole
    <2>2. proc \in [Process -> ProcessState] /\ starts \in Nat
        BY IdleIsTyped DEF Init
    <2>3. CASE dir = [x \in Paths |-> NoFile] /\ atlas = << >>
        BY <2>2, <2>3 DEF FallbackTypeOK, NamesDiffer, HeldUntilWhole, NoFile
    <2>4. CASE dir = [configured |-> 1, fallback |-> NoFile] /\ atlas = <<BuiltFile>>
        <3>1. atlas \in Seq(File) /\ Len(atlas) = 1 /\ DOMAIN atlas = 1..1
              /\ atlas[1] = BuiltFile
            BY <2>1, <2>4
        <3>2. dir \in [Paths -> 0..1] /\ dir["configured"] = 1 /\ dir["fallback"] = 0
            BY <2>4 DEF Paths, NoFile
        <3>3. FallbackTypeOK
            BY <2>2, <3>1, <3>2 DEF FallbackTypeOK
        <3>4. NamesDiffer
            BY <3>2 DEF NamesDiffer, Paths, NoFile
        <3>5. HeldUntilWhole
            BY <2>1, <3>1 DEF HeldUntilWhole
        <3> QED
            BY <3>3, <3>4, <3>5
    <2> QED
        BY <2>3, <2>4 DEF Init
<1>2. ASSUME NEW p \in Process
      PROVE  Fine(p)
    <2>1. proc[p] = Idle
        BY DEF Init
    <2>2. /\ Idle.at = "idle" /\ Idle.open = NoFile /\ Idle.view = NoView
          /\ Idle.path = "configured" /\ Idle.managed = NoPath /\ NoView.whole = TRUE
        BY DEF Idle, NoView
    <2> QED
        BY <2>1, <2>2 DEF Fine, HoldsItsFile, KnowsItsPath, ReadsWhatThereIs, Holding, NoPath
<1> QED
    BY <1>1, <1>2, InvariantByProcess

LEMMA FallbackStep == FallbackInvariant /\ [Next]_vars => FallbackInvariant'
<1> SUFFICES ASSUME FallbackInvariant, [Next]_vars PROVE FallbackInvariant'
    OBVIOUS
<1>1. CASE Next
    <2>1. PICK p \in Process :
              \/ \E task \in Tasks, x \in Paths : Start(p, task, x)
              \/ Look(p) \/ Unlink(p) \/ UnlinkRaises(p) \/ Connect(p) \/ ConnectRaises(p)
              \/ Build(p) \/ BuildRaises(p)
              \/ MakeReader(p) \/ Read(p) \/ ReadRaises(p) \/ Leave(p)
              \/ VersionRaises(p) \/ OpenForPatch(p) \/ Patch(p) \/ PatchRaises(p)
              \/ Die(p)
        BY <1>1 DEF Next
    <2>2. CASE \E task \in Tasks, x \in Paths : Start(p, task, x)
        BY <2>2, StartKeeps
    <2>3. CASE Look(p)
        BY <2>3, LookKeeps
    <2>4. CASE Unlink(p)
        BY <2>4, UnlinkKeeps
    <2>5. CASE Connect(p)
        BY <2>5, OpenKeeps DEF Connect
    <2>6. CASE Build(p)
        BY <2>6, BuildKeeps
    <2>7. CASE MakeReader(p)
        BY <2>7, MakeReaderKeeps
    <2>8. CASE Read(p)
        BY <2>8, ReadKeeps
    <2>9. CASE OpenForPatch(p)
        BY <2>9, OpenKeeps DEF OpenForPatch
    <2>10. CASE Patch(p)
        BY <2>10, PatchKeeps
    <2>11. CASE \/ UnlinkRaises(p) \/ ConnectRaises(p) \/ BuildRaises(p) \/ ReadRaises(p)
                \/ Leave(p) \/ VersionRaises(p) \/ PatchRaises(p) \/ Die(p)
        BY <2>11, ExitKeeps
           DEF UnlinkRaises, ConnectRaises, BuildRaises, ReadRaises, Leave, VersionRaises,
               PatchRaises, Die
    <2> QED
        BY <2>1, <2>2, <2>3, <2>4, <2>5, <2>6, <2>7, <2>8, <2>9, <2>10, <2>11
<1>2. CASE UNCHANGED vars
    BY <1>2 DEF vars, FallbackInvariant, FallbackTypeOK, NamesDiffer, HeldUntilWhole,
                HoldsItsFile, KnowsItsPath, HalfBuiltIsAbandoned, StartMendsTheFallback,
                PatchedAsChecked, Mended, Whole, At
<1> QED
    BY <1>1, <1>2

\* The inductive invariant: a file is open to write until it is whole or left by
\* its builder, and a process that was not overtaken knows the file at its path.
THEOREM FallbackInvariance == Spec => []FallbackInvariant
BY FallbackInit, FallbackStep, PTL DEF Spec

\* However many processes remove, build, open and patch the fallback together,
\* and wherever they die, an Atlas that is not whole is read only after its
\* builder has gone (build_option_b_atlas, _EclInternalCore._connect).
THEOREM NoAtlasIsReadWhileBuilt == Spec => []HalfBuiltIsAbandoned
<1>1. FallbackInvariant => HalfBuiltIsAbandoned
    BY DEF FallbackInvariant
<1> QED
    BY <1>1, FallbackInvariance, PTL

\* A process that asked for the configured Atlas and was not overtaken reads the
\* fallback whole and as built in, whatever was left or patched before it
\* (ensure_atlas).
THEOREM EveryStartMends == Spec => []StartMendsTheFallback
<1>1. FallbackInvariant => StartMendsTheFallback
    BY DEF FallbackInvariant
<1> QED
    BY <1>1, FallbackInvariance, PTL

\* A process that was not overtaken patches the file it checked the version on,
\* although it looks for the Atlas anew to check it (OfflineSyncManager.apply_patch).
THEOREM CheckedFileIsPatched == Spec => []PatchedAsChecked
<1>1. FallbackInvariant => PatchedAsChecked
    BY DEF FallbackInvariant
<1> QED
    BY <1>1, FallbackInvariance, PTL
=============================================================================
