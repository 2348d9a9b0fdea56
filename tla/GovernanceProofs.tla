-------------------------- MODULE GovernanceProofs --------------------------
(***************************************************************************)
(* Proofs about what a CI run is judged by: the scan of its metadata, for  *)
(* any files (MetadataScan), the gate, for any number of alerts            *)
(* (RiskGate), and packs, for series of any length (ReadinessDrift).       *)
(***************************************************************************)
EXTENDS MetadataScan, RiskGate, ReadinessDrift, SequenceTheorems, WellFoundedInduction, TLAPS

-----------------------------------------------------------------------------
(* Scans: documents.                                                       *)

\* What a file may hold, and what is walked, is a document.
LEMMA DocumentShape ==
    ASSUME NEW d \in Contents \cup {Missing}
    PROVE  /\ d.nodes \in Seq(Nodes) /\ Len(d.nodes) \in Nat
           /\ DOMAIN d.nodes = 1..Len(d.nodes)
           /\ d.loop \in BOOLEAN
           /\ d.state # "parsed" => d.nodes = << >>
           /\ \A n \in DOMAIN d.nodes : n # 1 => d.nodes[n].parent \in 1..(n - 1)
           /\ IsMapping(d) => d # Missing /\ 1 \in DOMAIN d.nodes
<1>1. IsDocument(d)
    <2>1. IsDocument(Missing)
        BY DEF IsDocument, Missing, Documents
    <2> QED
        BY <2>1, ScanAssumption
<1>2. d.nodes \in Seq(Nodes) /\ d.loop \in BOOLEAN /\ (d.state # "parsed" => d.nodes = << >>)
    BY <1>1 DEF IsDocument, Documents
<1>3. Len(d.nodes) \in Nat /\ DOMAIN d.nodes = 1..Len(d.nodes)
    BY <1>2, LenProperties
<1>4. \A n \in DOMAIN d.nodes : n # 1 => d.nodes[n].parent \in 1..(n - 1)
    BY <1>1 DEF IsDocument
<1>5. IsMapping(d) => d # Missing /\ d.nodes # << >>
    BY DEF IsMapping, Missing
<1>6. d.nodes # << >> => 1 \in DOMAIN d.nodes
    BY <1>2, <1>3, EmptySeq
<1> QED
    BY <1>2, <1>3, <1>4, <1>5, <1>6

LEMMA LeastNumber ==
    ASSUME NEW S \in SUBSET Nat, S # {}
    PROVE  \E n \in S : \A m \in S : n <= m
<1>1. PICK n \in S : \A m \in S : ~(<<m, n>> \in OpToRel(<, Nat))
    BY NatLessThanWellFounded, WFMin
<1>2. ASSUME NEW i \in Nat, NEW k \in Nat, k < i PROVE <<k, i>> \in OpToRel(<, Nat)
    BY <1>2 DEF OpToRel
<1>3. \A m \in S : n \in Nat /\ m \in Nat /\ ~(m < n)
    BY <1>1, <1>2
<1> QED
    BY <1>3

\* The node whose turn it is is one of those to visit.
LEMMA CurrentIsToDo ==
    ASSUME todo \in SUBSET Nat, todo # {}
    PROVE  Current \in todo
<1>1. \E n \in todo : \A m \in todo : n <= m
    BY LeastNumber
<1> QED
    BY <1>1 DEF Current, Min

\* A set of nodes that has the first and the children of each of its own has all:
\* the first node it lacked would have a parent before it that it has.
LEMMA ClosedIsAll ==
    ASSUME NEW d \in Contents \cup {Missing}, NEW visited, 1 \in visited,
           \A n \in visited : Children(d, n) \subseteq visited
    PROVE  DOMAIN d.nodes \subseteq visited
<1> DEFINE S == DOMAIN d.nodes \ visited
<1> SUFFICES ASSUME S # {} PROVE FALSE
    OBVIOUS
<1>1. S \in SUBSET Nat
    BY DocumentShape
<1>2. PICK n \in S : \A m \in S : n <= m
    BY <1>1, LeastNumber
<1>3. n \in DOMAIN d.nodes /\ n # 1 /\ n \in Nat
    BY <1>1
<1> DEFINE p == d.nodes[n].parent
<1>4. p \in 1..(n - 1)
    BY <1>3, DocumentShape
<1>5. p \in DOMAIN d.nodes /\ ~(n <= p)
    BY <1>3, <1>4, DocumentShape
<1>6. p \in visited
    BY <1>2, <1>5
<1>7. n \in Children(d, p)
    BY <1>3 DEF Children
<1> QED
    BY <1>6, <1>7

-----------------------------------------------------------------------------
(* Scans: flags.                                                           *)

\* Flags added to flags.
LEMMA MoreFlags ==
    ASSUME NEW f \in Seq({"high", "medium"}), NEW g \in Seq({"high", "medium"})
    PROVE  /\ f \o g \in Seq({"high", "medium"})
           /\ (\E i \in DOMAIN (f \o g) : (f \o g)[i] = "high") <=>
                 (\E i \in DOMAIN f : f[i] = "high") \/ (\E i \in DOMAIN g : g[i] = "high")
           /\ f \o g # << >> <=> f # << >> \/ g # << >>
<1>1. /\ f \o g \in Seq({"high", "medium"}) /\ Len(f \o g) = Len(f) + Len(g)
      /\ \A i \in 1..(Len(f) + Len(g)) :
            (f \o g)[i] = IF i <= Len(f) THEN f[i] ELSE g[i - Len(f)]
    BY ConcatProperties
<1>2. /\ Len(f) \in Nat /\ Len(g) \in Nat /\ DOMAIN f = 1..Len(f) /\ DOMAIN g = 1..Len(g)
      /\ DOMAIN (f \o g) = 1..(Len(f) + Len(g))
    BY <1>1, LenProperties
<1>3. ASSUME NEW i \in DOMAIN f PROVE i \in DOMAIN (f \o g) /\ (f \o g)[i] = f[i]
    BY <1>1, <1>2
<1>4. ASSUME NEW i \in DOMAIN g
      PROVE  Len(f) + i \in DOMAIN (f \o g) /\ (f \o g)[Len(f) + i] = g[i]
    <2>1. i \in Nat /\ i > 0 /\ i <= Len(g)
        BY <1>2
    <2>2. Len(f) + i \in 1..(Len(f) + Len(g)) /\ ~(Len(f) + i <= Len(f)) /\ Len(f) + i - Len(f) = i
        BY <1>2, <2>1
    <2> QED
        BY <1>1, <1>2, <2>2
<1>5. ASSUME NEW i \in DOMAIN (f \o g)
      PROVE  \/ i \in DOMAIN f /\ (f \o g)[i] = f[i]
             \/ i - Len(f) \in DOMAIN g /\ (f \o g)[i] = g[i - Len(f)]
    BY <1>1, <1>2
<1>6. f \o g # << >> <=> f # << >> \/ g # << >>
    BY ConcatEqualIffEmpty
<1> QED
    BY <1>1, <1>3, <1>4, <1>5, <1>6

\* The flags of a mapping: one is high if there is an alias or a loop, and there
\* is one if there is a split at least.
LEMMA FlagsFacts ==
    ASSUME NEW d, d.loop \in BOOLEAN
    PROVE  /\ FlagsOf(d) \in Seq({"high", "medium"})
           /\ (\E i \in DOMAIN FlagsOf(d) : FlagsOf(d)[i] = "high") <=> AliasIn(d)
           /\ FlagsOf(d) # << >> <=> AliasIn(d) \/ "split" \in Flat(d)
<1> DEFINE none == Matches(d) = {}
           alias == "alias" \in Matches(d)
           f == IF none THEN << >> ELSE IF alias THEN <<"high">> ELSE <<"medium">>
           g == IF d.loop THEN <<"high">> ELSE << >>
<1>1. /\ alias <=> "alias" \in Flat(d)
      /\ none <=> "alias" \notin Flat(d) /\ "split" \notin Flat(d)
      /\ none => ~alias
    BY DEF Matches
<1>2. FlagsOf(d) = f \o g
    BY DEF FlagsOf
<1> HIDE DEF none, alias
<1>3. /\ f \in Seq({"high", "medium"}) /\ (f # << >> <=> ~none)
      /\ (\E i \in DOMAIN f : f[i] = "high") <=> alias
    <2>1. CASE none
        BY <1>1, <2>1
    <2>2. CASE ~none /\ alias
        BY <2>2
    <2>3. CASE ~none /\ ~alias
        BY <2>3
    <2> QED
        BY <2>1, <2>2, <2>3
<1>4. /\ g \in Seq({"high", "medium"}) /\ (g # << >> <=> d.loop)
      /\ (\E i \in DOMAIN g : g[i] = "high") <=> d.loop
    <2>1. CASE d.loop
        BY <2>1
    <2>2. CASE ~d.loop
        BY <2>2
    <2> QED
        BY <2>1, <2>2
<1> HIDE DEF f, g
<1> QED
    BY <1>1, <1>2, <1>3, <1>4, MoreFlags DEF AliasIn

-----------------------------------------------------------------------------
(* Scans: the steps.                                                       *)

LEMMA SeenShape ==
    ASSUME ScanTypeOK
    PROVE  /\ Len(seen) \in Nat /\ DOMAIN seen = 1..Len(seen)
           /\ \A i \in DOMAIN seen : seen[i].content \in Contents
<1> DEFINE Reading == [path : Paths, content : Contents]
<1>1. seen \in Seq(Reading)
    BY DEF ScanTypeOK
<1>2. \A r \in Reading : r.content \in Contents
    OBVIOUS
<1> HIDE DEF Reading
<1>3. Len(seen) \in Nat /\ DOMAIN seen = 1..Len(seen) /\ seen \in [1..Len(seen) -> Reading]
    BY <1>1, LenProperties
<1> QED
    BY <1>2, <1>3

\* The file a step looks at.
LEMMA FileAtHand ==
    ASSUME ScanTypeOK, next <= Len(files)
    PROVE  /\ files[next] \in Paths /\ world[files[next]] \in Contents
           /\ next + 1 \in 1..(Len(files) + 1)
<1>1. next \in DOMAIN files /\ next \in Nat /\ Len(files) \in Nat
    BY LenProperties DEF ScanTypeOK
<1> QED
    BY <1>1 DEF ScanTypeOK

\* What a file that is read adds to what was read.
LEMMA ReadShape ==
    ASSUME ScanTypeOK, NEW p \in Paths, Read(p)
    PROVE  /\ seen' \in Seq([path : Paths, content : Contents])
           /\ Len(seen') = Len(seen) + 1 /\ DOMAIN seen' = 1..(Len(seen) + 1)
           /\ \A i \in DOMAIN seen : seen'[i] = seen[i]
           /\ seen'[Len(seen')].content = world[p]
<1> DEFINE r == [path |-> p, content |-> world[p]]
<1>1. r \in [path : Paths, content : Contents] /\ r.content = world[p]
    BY DEF ScanTypeOK
<1>2. seen' = Append(seen, r)
    BY DEF Read
<1> HIDE DEF r
<1>3. /\ Append(seen, r) \in Seq([path : Paths, content : Contents])
      /\ Len(Append(seen, r)) = Len(seen) + 1
      /\ \A i \in 1..Len(seen) : Append(seen, r)[i] = seen[i]
      /\ Append(seen, r)[Len(seen) + 1] = r
    BY <1>1, AppendProperties DEF ScanTypeOK
<1>4. DOMAIN seen' = 1..(Len(seen) + 1)
    BY <1>2, <1>3, LenProperties
<1> QED
    BY <1>1, <1>2, <1>3, <1>4, SeenShape

\* A step that is done with no further mapping.
LEMMA SameFinished ==
    ASSUME FinishedHaveNoPayload, FlagsAreOfFinished, UNCHANGED flags,
           Finished' = Finished, \A i \in Finished : seen'[i] = seen[i]
    PROVE  FinishedHaveNoPayload' /\ FlagsAreOfFinished'
BY DEF FinishedHaveNoPayload, FlagsAreOfFinished

LEMMA UnchangedFinished ==
    ASSUME FinishedHaveNoPayload, FlagsAreOfFinished, UNCHANGED <<flags, walked, seen>>
    PROVE  FinishedHaveNoPayload' /\ FlagsAreOfFinished'
<1>1. Finished' = Finished
    BY DEF Finished
<1> QED
    BY <1>1, SameFinished

LEMMA FindKeeps == ScanInvariant /\ Find => ScanInvariant'
<1> SUFFICES ASSUME ScanInvariant, Find PROVE ScanInvariant'
    OBVIOUS
<1>1. /\ ScanTypeOK /\ WalksWhatItRead /\ FinishedHaveNoPayload /\ FlagsAreOfFinished
      /\ EndsAsItStands /\ found' = TRUE
      /\ UNCHANGED <<world, files, next, walked, todo, flags, outcome, event, seen, edits>>
    BY DEF ScanInvariant, Find
<1>2. ScanTypeOK'
    BY <1>1 DEF ScanTypeOK
<1>3. WalksWhatItRead' /\ EndsAsItStands'
    BY <1>1 DEF WalksWhatItRead, Covered, EndsAsItStands, HasPayload
<1> QED
    BY <1>1, <1>2, <1>3, UnchangedFinished DEF ScanInvariant

LEMMA LoadKeeps == ScanInvariant /\ Load => ScanInvariant'
<1> SUFFICES ASSUME ScanInvariant, Load PROVE ScanInvariant'
    OBVIOUS
<1> DEFINE d == world[files[next]]
<1>1. /\ ScanTypeOK /\ FinishedHaveNoPayload /\ FlagsAreOfFinished
      /\ walked = Missing /\ outcome = "scanning" /\ next <= Len(files)
      /\ Read(files[next]) /\ next' = next + 1 /\ found' = FALSE
      /\ IF IsMapping(d) THEN walked' = d /\ todo' = {1} ELSE UNCHANGED <<walked, todo>>
      /\ UNCHANGED <<world, files, flags, outcome, event, edits>>
    BY DEF ScanInvariant, Load, BetweenFiles, Scanning
<1>2. files[next] \in Paths /\ d \in Contents /\ next + 1 \in 1..(Len(files) + 1)
    BY <1>1, FileAtHand
<1> HIDE DEF d
<1>3. /\ seen' \in Seq([path : Paths, content : Contents])
      /\ Len(seen') = Len(seen) + 1 /\ DOMAIN seen' = 1..(Len(seen) + 1)
      /\ \A i \in DOMAIN seen : seen'[i] = seen[i]
      /\ seen'[Len(seen')].content = d
      /\ Len(seen) \in Nat /\ DOMAIN seen = 1..Len(seen)
    BY <1>1, <1>2, ReadShape, SeenShape DEF d
<1>4. IsMapping(d) => d # Missing /\ 1 \in DOMAIN d.nodes
    BY <1>2, DocumentShape
<1>5. ScanTypeOK'
    BY <1>1, <1>2, <1>3, <1>4 DEF ScanTypeOK
<1>6. WalksWhatItRead'
    <2>1. CASE IsMapping(d)
        <3>1. walked' = d /\ todo' = {1} /\ seen' # << >>
            BY <1>1, <1>3, <2>1
        <3>2. Covered({})'
            BY <3>1 DEF Covered
        <3>3. {} \in SUBSET DOMAIN walked'.nodes
            OBVIOUS
        <3> QED
            BY <1>3, <2>1, <3>1, <3>2, <3>3 DEF WalksWhatItRead
    <2>2. CASE ~IsMapping(d)
        BY <1>1, <2>2 DEF WalksWhatItRead
    <2> QED
        BY <2>1, <2>2
<1>7. Finished' = Finished
    <2>1. Finished = {i \in DOMAIN seen : IsMapping(seen[i].content)}
        BY <1>1 DEF Finished
    <2>2. CASE IsMapping(d)
        <3>1. walked' # Missing
            BY <1>1, <1>4, <2>2
        <3>2. Finished' = {i \in DOMAIN seen' : IsMapping(seen'[i].content) /\ i # Len(seen')}
            BY <3>1 DEF Finished
        <3> QED
            BY <1>3, <2>1, <3>2
    <2>3. CASE ~IsMapping(d)
        <3>1. Finished' = {i \in DOMAIN seen' : IsMapping(seen'[i].content)}
            BY <1>1, <2>3 DEF Finished
        <3> QED
            BY <1>3, <2>1, <2>3, <3>1
    <2> QED
        BY <2>2, <2>3
<1>8. FinishedHaveNoPayload' /\ FlagsAreOfFinished'
    <2>1. \A i \in Finished : seen'[i] = seen[i]
        BY <1>3 DEF Finished
    <2> QED
        BY <1>1, <1>7, <2>1, SameFinished
<1>9. EndsAsItStands'
    BY <1>1 DEF EndsAsItStands
<1> QED
    BY <1>5, <1>6, <1>8, <1>9 DEF ScanInvariant

LEMMA SkipKeeps == ScanInvariant /\ Skip => ScanInvariant'
<1> SUFFICES ASSUME ScanInvariant, Skip PROVE ScanInvariant'
    OBVIOUS
<1>1. /\ ScanTypeOK /\ FinishedHaveNoPayload /\ FlagsAreOfFinished
      /\ walked = Missing /\ outcome = "scanning" /\ next <= Len(files) /\ next' = next + 1
      /\ UNCHANGED <<world, files, found, walked, todo, flags, outcome, event, seen, edits>>
    BY DEF ScanInvariant, Skip, BetweenFiles, Scanning
<1>2. ScanTypeOK'
    BY <1>1, FileAtHand DEF ScanTypeOK
<1>3. WalksWhatItRead' /\ EndsAsItStands'
    BY <1>1 DEF WalksWhatItRead, EndsAsItStands
<1> QED
    BY <1>1, <1>2, <1>3, UnchangedFinished DEF ScanInvariant

LEMMA LoadRaisesKeeps == ScanInvariant /\ LoadRaises => ScanInvariant'
<1> SUFFICES ASSUME ScanInvariant, LoadRaises PROVE ScanInvariant'
    OBVIOUS
<1> DEFINE d == world[files[next]]
<1>1. /\ ScanTypeOK /\ FinishedHaveNoPayload /\ FlagsAreOfFinished
      /\ walked = Missing /\ outcome = "scanning" /\ next <= Len(files)
      /\ \/ d.state = "broken" /\ Read(files[next])
         \/ d.state = "missing" /\ UNCHANGED seen
      /\ outcome' = "raised"
      /\ UNCHANGED <<world, files, next, found, walked, todo, flags, event, edits>>
    BY DEF ScanInvariant, LoadRaises, BetweenFiles, Scanning
<1>2. files[next] \in Paths /\ d \in Contents
    BY <1>1, FileAtHand
<1> HIDE DEF d
<1>3. ~IsMapping(d)
    BY <1>1, <1>2, DocumentShape DEF IsMapping
<1>4. WalksWhatItRead' /\ EndsAsItStands'
    <2>1. ~HasPayload(walked')
        BY <1>1 DEF HasPayload, Missing
    <2> QED
        BY <1>1, <2>1 DEF WalksWhatItRead, EndsAsItStands
<1>5. CASE UNCHANGED seen
    <2>1. ScanTypeOK'
        BY <1>1, <1>5 DEF ScanTypeOK
    <2> QED
        BY <1>1, <1>4, <1>5, <2>1, UnchangedFinished DEF ScanInvariant
<1>6. CASE Read(files[next])
    <2>1. /\ seen' \in Seq([path : Paths, content : Contents])
          /\ Len(seen') = Len(seen) + 1 /\ DOMAIN seen' = 1..(Len(seen) + 1)
          /\ \A i \in DOMAIN seen : seen'[i] = seen[i]
          /\ seen'[Len(seen')].content = d
          /\ Len(seen) \in Nat /\ DOMAIN seen = 1..Len(seen)
        BY <1>1, <1>2, <1>6, ReadShape, SeenShape DEF d
    <2>2. ScanTypeOK'
        BY <1>1, <2>1 DEF ScanTypeOK
    <2>3. Finished' = Finished
        <3>1. Finished = {i \in DOMAIN seen : IsMapping(seen[i].content)}
            BY <1>1 DEF Finished
        <3>2. Finished' = {i \in DOMAIN seen' : IsMapping(seen'[i].content)}
            BY <1>1 DEF Finished
        <3> QED
            BY <1>3, <2>1, <3>1, <3>2
    <2>4. FinishedHaveNoPayload' /\ FlagsAreOfFinished'
        <3>1. \A i \in Finished : seen'[i] = seen[i]
            BY <2>1 DEF Finished
        <3> QED
            BY <1>1, <2>3, <3>1, SameFinished
    <2> QED
        BY <1>4, <2>2, <2>4 DEF ScanInvariant
<1> QED
    BY <1>1, <1>5, <1>6

LEMMA VisitKeeps == ScanInvariant /\ Visit => ScanInvariant'
<1> SUFFICES ASSUME ScanInvariant, Visit PROVE ScanInvariant'
    OBVIOUS
<1> DEFINE below == Children(walked, Current)
<1>1. /\ ScanTypeOK /\ WalksWhatItRead /\ FinishedHaveNoPayload /\ FlagsAreOfFinished
      /\ outcome = "scanning" /\ todo # {} /\ ~IsRefused(walked, Current)
      /\ todo' = (todo \ {Current}) \cup below
      /\ UNCHANGED <<world, files, next, found, walked, flags, outcome, event, seen, edits>>
    BY DEF ScanInvariant, Visit, Scanning
<1>2. walked \in Contents \cup {Missing} /\ todo \subseteq DOMAIN walked.nodes
    BY <1>1 DEF ScanTypeOK
<1>3. Current \in todo
    <2>1. todo \in SUBSET Nat
        BY <1>2, DocumentShape
    <2> QED
        BY <1>1, <2>1, CurrentIsToDo
<1>4. walked # Missing
    BY <1>2, <1>3 DEF Missing
<1>5. below \subseteq DOMAIN walked.nodes
    BY DEF Children
<1>6. ScanTypeOK'
    BY <1>1, <1>2, <1>5 DEF ScanTypeOK
<1>7. WalksWhatItRead'
    <2>1. PICK visited \in SUBSET DOMAIN walked.nodes : Covered(visited)
        BY <1>1, <1>4 DEF WalksWhatItRead
    <2> DEFINE more == visited \cup {Current}
    <2> HIDE DEF below
    <2>2. more \in SUBSET DOMAIN walked.nodes
        BY <1>2, <1>3
    <2>3. visited \cup todo \subseteq more \cup todo' /\ below \subseteq more \cup todo'
        BY <1>1
    <2>4. ASSUME NEW n \in more
          PROVE  ~IsRefused(walked, n) /\ Children(walked, n) \subseteq more \cup todo'
        <3>1. CASE n = Current
            BY <1>1, <2>3, <3>1 DEF below
        <3>2. CASE n \in visited
            BY <2>1, <2>3, <3>2 DEF Covered
        <3> QED
            BY <3>1, <3>2
    <2>5. 1 \in more \cup todo'
        BY <2>1, <2>3 DEF Covered
    <2>6. \E all \in SUBSET DOMAIN walked'.nodes :
              /\ 1 \in all \cup todo'
              /\ \A n \in all : ~IsRefused(walked', n) /\ Children(walked', n) \subseteq all \cup todo'
        <3>1. walked' = walked
            BY <1>1
        <3> HIDE DEF more
        <3> QED
            BY <2>2, <2>4, <2>5, <3>1
    <2> QED
        BY <1>1, <2>6 DEF WalksWhatItRead, Covered
<1>8. EndsAsItStands'
    BY <1>1 DEF EndsAsItStands
<1> QED
    BY <1>1, <1>6, <1>7, <1>8, UnchangedFinished DEF ScanInvariant

LEMMA VisitRaisesKeeps == ScanInvariant /\ VisitRaises => ScanInvariant'
<1> SUFFICES ASSUME ScanInvariant, VisitRaises PROVE ScanInvariant'
    OBVIOUS
<1>1. /\ ScanTypeOK /\ WalksWhatItRead /\ FinishedHaveNoPayload /\ FlagsAreOfFinished
      /\ outcome = "scanning" /\ todo # {} /\ IsRefused(walked, Current)
      /\ outcome' = "payload"
      /\ UNCHANGED <<world, files, next, found, walked, todo, flags, event, seen, edits>>
    BY DEF ScanInvariant, VisitRaises, Scanning
<1>2. walked \in Contents \cup {Missing} /\ todo \subseteq DOMAIN walked.nodes
    BY <1>1 DEF ScanTypeOK
<1>3. Current \in DOMAIN walked.nodes
    <2>1. todo \in SUBSET Nat
        BY <1>2, DocumentShape
    <2> QED
        BY <1>1, <1>2, <2>1, CurrentIsToDo
<1>4. walked # Missing /\ HasPayload(walked)
    BY <1>1, <1>3 DEF Missing, HasPayload
<1>5. ScanTypeOK'
    BY <1>1 DEF ScanTypeOK
<1>6. WalksWhatItRead'
    BY <1>1 DEF WalksWhatItRead, Covered
<1>7. EndsAsItStands'
    BY <1>1, <1>4 DEF EndsAsItStands
<1> QED
    BY <1>1, <1>5, <1>6, <1>7, UnchangedFinished DEF ScanInvariant

\* A mapping whose walk is over was visited whole, and has no payload.
LEMMA WalkedIsClean ==
    ASSUME ScanInvariant, walked # Missing, todo = {}
    PROVE  ~HasPayload(walked)
<1>1. walked \in Contents \cup {Missing}
    BY DEF ScanInvariant, ScanTypeOK
<1>2. PICK visited \in SUBSET DOMAIN walked.nodes : Covered(visited)
    BY DEF ScanInvariant, WalksWhatItRead
<1>3. /\ 1 \in visited
      /\ \A n \in visited : ~IsRefused(walked, n) /\ Children(walked, n) \subseteq visited
    BY <1>2 DEF Covered
<1>4. DOMAIN walked.nodes \subseteq visited
    BY <1>1, <1>3, ClosedIsAll
<1> QED
    BY <1>3, <1>4 DEF HasPayload

LEMMA EvaluateRaisesKeeps == ScanInvariant /\ EvaluateRaises => ScanInvariant'
<1> SUFFICES ASSUME ScanInvariant, EvaluateRaises PROVE ScanInvariant'
    OBVIOUS
<1>1. /\ ScanTypeOK /\ WalksWhatItRead /\ FinishedHaveNoPayload /\ FlagsAreOfFinished
      /\ walked # Missing /\ todo = {} /\ outcome' = "raised"
      /\ UNCHANGED <<world, files, next, found, walked, todo, flags, event, seen, edits>>
    BY DEF ScanInvariant, EvaluateRaises
<1>2. ScanTypeOK'
    BY <1>1 DEF ScanTypeOK
<1>3. ~HasPayload(walked')
    BY <1>1, WalkedIsClean
<1>4. WalksWhatItRead' /\ EndsAsItStands'
    BY <1>1, <1>3 DEF WalksWhatItRead, Covered, EndsAsItStands
<1> QED
    BY <1>1, <1>2, <1>4, UnchangedFinished DEF ScanInvariant

LEMMA EvaluateKeeps == ScanInvariant /\ Evaluate => ScanInvariant'
<1> SUFFICES ASSUME ScanInvariant, Evaluate PROVE ScanInvariant'
    OBVIOUS
<1>1. /\ ScanTypeOK /\ WalksWhatItRead /\ FinishedHaveNoPayload /\ FlagsAreOfFinished
      /\ outcome = "scanning" /\ walked # Missing /\ todo = {}
      /\ flags' = flags \o FlagsOf(walked) /\ walked' = Missing
      /\ UNCHANGED <<world, files, next, found, todo, outcome, event, seen, edits>>
    BY DEF ScanInvariant, Evaluate, Scanning
<1>2. /\ walked \in Contents \cup {Missing}
      /\ seen # << >> /\ walked = seen[Len(seen)].content /\ IsMapping(walked)
    BY <1>1 DEF ScanTypeOK, WalksWhatItRead
<1>3. Len(seen) \in DOMAIN seen
    <2>1. seen \in Seq([path : Paths, content : Contents])
        BY <1>1 DEF ScanTypeOK
    <2> QED
        BY <1>1, <1>2, <2>1, SeenShape, EmptySeq
<1>4. ~HasPayload(walked)
    BY <1>1, WalkedIsClean
<1>5. Finished' = Finished \cup {Len(seen)}
    BY <1>1, <1>2, <1>3 DEF Finished
<1>6. FinishedHaveNoPayload'
    BY <1>1, <1>2, <1>4, <1>5 DEF FinishedHaveNoPayload
<1>7. /\ flags' \in Seq({"high", "medium"})
      /\ (\E i \in DOMAIN flags' : flags'[i] = "high") <=>
            (\E i \in DOMAIN flags : flags[i] = "high") \/ AliasIn(walked)
      /\ flags' # << >> <=> flags # << >> \/ AliasIn(walked) \/ "split" \in Flat(walked)
    <2> DEFINE g == FlagsOf(walked)
    <2>1. /\ g \in Seq({"high", "medium"})
          /\ (\E i \in DOMAIN g : g[i] = "high") <=> AliasIn(walked)
          /\ g # << >> <=> AliasIn(walked) \/ "split" \in Flat(walked)
        BY <1>2, DocumentShape, FlagsFacts
    <2>2. flags \in Seq({"high", "medium"}) /\ flags' = flags \o g
        BY <1>1 DEF ScanTypeOK
    <2> HIDE DEF g
    <2> QED
        BY <2>1, <2>2, MoreFlags
<1>8. FlagsAreOfFinished'
    <2>1. /\ (\E i \in DOMAIN flags : flags[i] = "high") <=>
                \E i \in Finished : AliasIn(seen[i].content)
          /\ flags # << >> <=>
                \E i \in Finished : AliasIn(seen[i].content) \/ "split" \in Flat(seen[i].content)
        BY <1>1 DEF FlagsAreOfFinished
    <2> QED
        BY <1>1, <1>2, <1>5, <1>7, <2>1 DEF FlagsAreOfFinished
<1>9. ScanTypeOK'
    BY <1>1, <1>7 DEF ScanTypeOK
<1>10. WalksWhatItRead' /\ EndsAsItStands'
    BY <1>1 DEF WalksWhatItRead, EndsAsItStands
<1> QED
    BY <1>6, <1>8, <1>9, <1>10 DEF ScanInvariant

LEMMA RecordKeeps == ScanInvariant /\ Record => ScanInvariant'
<1> SUFFICES ASSUME ScanInvariant, Record PROVE ScanInvariant'
    OBVIOUS
<1>1. /\ ScanTypeOK /\ FinishedHaveNoPayload /\ FlagsAreOfFinished
      /\ walked = Missing /\ outcome' = "recorded"
      /\ event' = [paths |-> SelectSeq(files, IsMetadataPath), status |-> RiskStatus(flags)]
      /\ UNCHANGED <<world, files, next, found, walked, todo, flags, seen, edits>>
    BY DEF ScanInvariant, Record, BetweenFiles
<1>2. event'.status = RiskStatus(flags)
    BY <1>1
<1>3. RiskStatus(flags) \in {"none", "pass", "warn", "high_risk"}
    BY DEF RiskStatus
<1>4. ScanTypeOK'
    BY <1>1, <1>2, <1>3 DEF ScanTypeOK
<1>5. WalksWhatItRead'
    BY <1>1 DEF WalksWhatItRead
<1>6. EndsAsItStands'
    BY <1>1, <1>2 DEF EndsAsItStands, RiskStatus
<1> QED
    BY <1>1, <1>4, <1>5, <1>6, UnchangedFinished DEF ScanInvariant

LEMMA EditKeeps == ScanInvariant /\ Edit => ScanInvariant'
<1> SUFFICES ASSUME ScanInvariant, Edit PROVE ScanInvariant'
    OBVIOUS
<1>1. /\ ScanTypeOK /\ WalksWhatItRead /\ FinishedHaveNoPayload /\ FlagsAreOfFinished
      /\ EndsAsItStands /\ edits < MaxEdits /\ edits' = edits + 1
      /\ UNCHANGED <<files, next, found, walked, todo, flags, outcome, event, seen>>
    BY DEF ScanInvariant, Edit
<1>2. world' \in [Paths -> Contents]
    <2>1. PICK i \in DOMAIN files : \E d \in Edits : world' = [world EXCEPT ![files[i]] = d]
        BY DEF Edit
    <2>2. PICK d \in Edits : world' = [world EXCEPT ![files[i]] = d]
        BY <2>1
    <2> QED
        BY <1>1, <2>2 DEF ScanTypeOK, Contents
<1>3. edits' \in 0..MaxEdits
    BY <1>1, ScanAssumption DEF ScanTypeOK
<1>4. ScanTypeOK'
    BY <1>1, <1>2, <1>3 DEF ScanTypeOK
<1>5. WalksWhatItRead' /\ EndsAsItStands'
    BY <1>1 DEF WalksWhatItRead, Covered, EndsAsItStands
<1> QED
    BY <1>1, <1>4, <1>5, UnchangedFinished DEF ScanInvariant

LEMMA ScanBegins == ScanInit => ScanInvariant
<1> SUFFICES ASSUME ScanInit PROVE ScanInvariant
    OBVIOUS
<1>1. /\ world \in [Paths -> Contents] /\ files \in Seq(Paths) /\ next = 1
      /\ found = FALSE /\ walked = Missing /\ todo = {} /\ flags = << >> /\ outcome = "scanning"
      /\ event = NoEvent /\ seen = << >> /\ edits = 0
    BY ScanAssumption DEF ScanInit
<1>2. next \in 1..(Len(files) + 1) /\ edits \in 0..MaxEdits
    BY <1>1, ScanAssumption, LenProperties
<1>3. found \in BOOLEAN /\ event.status = "none" /\ todo \subseteq DOMAIN walked.nodes
    BY <1>1 DEF NoEvent
<1>4. seen \in Seq([path : Paths, content : Contents]) /\ flags \in Seq({"high", "medium"})
    BY <1>1
<1>5. ScanTypeOK
    BY <1>1, <1>2, <1>3, <1>4 DEF ScanTypeOK
<1>6. Finished = {}
    BY <1>1 DEF Finished
<1>7. DOMAIN flags = {}
    BY <1>1
<1> QED
    BY <1>1, <1>5, <1>6, <1>7
       DEF ScanInvariant, WalksWhatItRead, FinishedHaveNoPayload, FlagsAreOfFinished,
           EndsAsItStands

LEMMA ScanGoesOn == ScanInvariant /\ [ScanNext]_scanVars => ScanInvariant'
<1> SUFFICES ASSUME ScanInvariant, [ScanNext]_scanVars PROVE ScanInvariant'
    OBVIOUS
<1>1. CASE ScanStep
    BY <1>1, FindKeeps, LoadKeeps, SkipKeeps, LoadRaisesKeeps, VisitKeeps,
       VisitRaisesKeeps, EvaluateKeeps, EvaluateRaisesKeeps, RecordKeeps DEF ScanStep
<1>2. CASE Edit
    BY <1>2, EditKeeps
<1>3. CASE UNCHANGED scanVars
    <2>1. UNCHANGED <<world, files, next, found, walked, todo, flags, outcome, event, seen, edits>>
        BY <1>3 DEF scanVars
    <2>2. ScanTypeOK' /\ WalksWhatItRead' /\ EndsAsItStands'
        BY <2>1 DEF ScanInvariant, ScanTypeOK, WalksWhatItRead, Covered, EndsAsItStands, HasPayload
    <2> QED
        BY <2>1, <2>2, UnchangedFinished DEF ScanInvariant
<1> QED
    BY <1>1, <1>2, <1>3 DEF ScanNext

-----------------------------------------------------------------------------
(* Scans: the theorems.                                                    *)

\* The inductive invariant: the walk has left out no node above those still to
\* visit, and the flags are those of the mappings scan is done with.
THEOREM ScanInvariance == ScanSpec => []ScanInvariant
BY ScanBegins, ScanGoesOn, PTL DEF ScanSpec

\* Whatever the documents, at whatever depth a payload is and whoever writes to
\* the files meanwhile, a scan refuses a payload in the first mapping it reads that has
\* one, and for nothing else (NoPayloadValidator._walk, CIScanner.scan).
THEOREM FirstOffenderStops == ScanSpec => []RefusalIsOfTheFirstOffender
<1>1. ScanInvariant => RefusalIsOfTheFirstOffender
    <2> SUFFICES ASSUME ScanInvariant, outcome # "scanning", NEW i \in DOMAIN seen,
                        IsMapping(seen[i].content)
                 PROVE  HasPayload(seen[i].content) <=> outcome = "payload" /\ i = Len(seen)
        BY DEF RefusalIsOfTheFirstOffender
    <2>1. CASE outcome = "payload"
        <3>1. walked # Missing /\ HasPayload(walked) /\ walked = seen[Len(seen)].content
            BY <2>1 DEF ScanInvariant, EndsAsItStands, WalksWhatItRead
        <3>2. i # Len(seen) => i \in Finished
            BY DEF Finished
        <3> QED
            BY <2>1, <3>1, <3>2 DEF ScanInvariant, FinishedHaveNoPayload
    <2>2. CASE outcome = "recorded"
        <3>1. i \in Finished
            BY <2>2 DEF ScanInvariant, EndsAsItStands, Finished
        <3> QED
            BY <2>2, <3>1 DEF ScanInvariant, FinishedHaveNoPayload
    <2>3. CASE outcome = "raised"
        <3>1. ~HasPayload(walked)
            BY <2>3 DEF ScanInvariant, EndsAsItStands
        <3>2. walked # Missing => walked = seen[Len(seen)].content
            BY DEF ScanInvariant, WalksWhatItRead
        <3>3. i \in Finished \/ (walked # Missing /\ i = Len(seen))
            BY DEF Finished
        <3> QED
            BY <2>3, <3>1, <3>2, <3>3 DEF ScanInvariant, FinishedHaveNoPayload
    <2> QED
        BY <2>1, <2>2, <2>3 DEF ScanInvariant, ScanTypeOK
<1> QED
    BY <1>1, ScanInvariance, PTL

\* However many files there are and in whatever order, the status of the event is
\* that of the worst mapping (CIScanner._metadata_risk_summary).
THEOREM StatusIsTheWorst == ScanSpec => []StatusIsOfTheWorstFile
<1>1. ScanInvariant => StatusIsOfTheWorstFile
    <2> SUFFICES ASSUME ScanInvariant, outcome = "recorded" PROVE StatusIsOfTheWorstFile
        BY DEF StatusIsOfTheWorstFile
    <2> DEFINE mappings == {d \in {seen[i].content : i \in DOMAIN seen} : IsMapping(d)}
    <2>1. walked = Missing /\ event.status = RiskStatus(flags)
        BY DEF ScanInvariant, EndsAsItStands
    <2>2. Finished = {i \in DOMAIN seen : IsMapping(seen[i].content)}
        BY <2>1 DEF Finished
    <2>3. /\ (\E i \in DOMAIN flags : flags[i] = "high") <=> \E d \in mappings : AliasIn(d)
          /\ flags # << >> <=> \E d \in mappings : AliasIn(d) \/ "split" \in Flat(d)
        BY <2>2 DEF ScanInvariant, FlagsAreOfFinished
    <2> HIDE DEF mappings
    <2>4. event.status = IF \E d \in mappings : AliasIn(d) THEN "high_risk"
                         ELSE IF \E d \in mappings : "split" \in Flat(d) THEN "warn"
                         ELSE "pass"
        BY <2>1, <2>3 DEF RiskStatus
    <2> QED
        BY <2>4 DEF StatusIsOfTheWorstFile, mappings
<1> QED
    BY <1>1, ScanInvariance, PTL

\* A scan that records its event read no payload.
THEOREM NothingRecordedOnAPayload == ScanSpec => []RecordedScanReadNoPayload
<1>1. RefusalIsOfTheFirstOffender => RecordedScanReadNoPayload
    BY DEF RefusalIsOfTheFirstOffender, RecordedScanReadNoPayload
<1> QED
    BY <1>1, FirstOffenderStops, PTL

-----------------------------------------------------------------------------
(* The scores and the gate of a run.                                       *)

\* The counters of a run are natural numbers.
THEOREM CountsTyped == GateSpec => []GateTypeOK
<1>1. GateInit => GateTypeOK
    <2>1. NoCounts \in [CountNames -> Nat]
        BY DEF NoCounts
    <2>2. FALSE \in BOOLEAN /\ 0 \in Nat
        OBVIOUS
    <2> QED
        BY <2>1, <2>2 DEF GateInit, GateTypeOK
<1>2. GateTypeOK /\ [GateNext]_gateVars => GateTypeOK'
    <2> SUFFICES ASSUME GateTypeOK, [GateNext]_gateVars PROVE GateTypeOK'
        OBVIOUS
    <2>1. ASSUME NEW alert \in Alerts, CountAlert(alert) PROVE GateTypeOK'
        BY <2>1 DEF GateTypeOK, CountAlert
    <2>2. ASSUME NEW valid \in BOOLEAN, RecordPassport(valid) PROVE GateTypeOK'
        BY <2>2 DEF GateTypeOK, RecordPassport
    <2> QED
        BY <2>1, <2>2 DEF GateNext, GateTypeOK, gateVars
<1> QED
    BY <1>1, <1>2, PTL DEF GateSpec

\* The value of each counter.
LEMMA EachCount ==
    ASSUME GateTypeOK
    PROVE  /\ counts.critical \in Nat /\ counts.warn \in Nat /\ counts.review \in Nat
           /\ counts.quarantine \in Nat /\ counts.benchmark \in Nat
           /\ counts.lineage \in Nat /\ counts.provenance \in Nat
BY DEF GateTypeOK, CountNames

\* The scores of score_events that decide the gate, over any counters n: 80
\* separates no alert from one, with the passport's bonus and without it.
LEMMA Thresholds ==
    ASSUME NEW n, n.critical \in Nat, n.review \in Nat, n.quarantine \in Nat,
           n.benchmark \in Nat, n.lineage \in Nat, n.provenance \in Nat,
           NEW valid \in BOOLEAN
    PROVE  /\ n.quarantine = 0 => (BenchmarkContamination(n) >= 80 <=> n.benchmark > 0)
           /\ LineageLoop(n) >= 80 <=> n.lineage > 0
           /\ n.critical = 0 /\ n.review = 0 =>
                 (ComplianceReadiness(n, valid) < 80 <=> n.provenance > 0)
<1>1. n.quarantine = 0 => (BenchmarkContamination(n) >= 80 <=> n.benchmark > 0)
    BY DEF BenchmarkContamination, AtMost
<1>2. LineageLoop(n) >= 80 <=> n.lineage > 0
    BY DEF LineageLoop, AtMost
<1>3. n.critical = 0 /\ n.review = 0 =>
          (ComplianceReadiness(n, valid) < 80 <=> n.provenance > 0)
    BY DEF ComplianceReadiness, ProvenanceCompleteness, AtMost, AtLeast
<1> QED
    BY <1>1, <1>2, <1>3

\* However many alerts a run has, its gate is the one of the worst of them: the
\* weights and thresholds of score_events leave no combination in between.
THEOREM GateFollowsWorstAlert == GateSpec => []GateIsWorstAlert
<1>1. GateTypeOK => GateIsWorstAlert
    <2> SUFFICES ASSUME GateTypeOK PROVE GateIsWorstAlert
        OBVIOUS
    <2> DEFINE n == counts
               Blocking == n.critical > 0 \/ n.quarantine > 0 \/ n.benchmark > 0
                              \/ n.lineage > 0
               Warning == n.warn > 0 \/ n.review > 0 \/ n.provenance > 0
    <2>1. /\ n.critical \in Nat /\ n.warn \in Nat /\ n.review \in Nat
          /\ n.quarantine \in Nat /\ n.benchmark \in Nat
          /\ n.lineage \in Nat /\ n.provenance \in Nat
          /\ certified \in BOOLEAN
        BY EachCount DEF GateTypeOK
    <2>2. /\ (\E c \in {"critical", "quarantine", "benchmark", "lineage"} : n[c] > 0)
                <=> Blocking
          /\ (\E c \in {"warn", "review", "provenance"} : n[c] > 0) <=> Warning
        OBVIOUS
    <2>3. RiskGate(n, certified) = IF Blocking THEN "BLOCK"
                                   ELSE IF Warning THEN "ADMIT_WITH_WARNINGS"
                                   ELSE "ADMIT"
        <3>1. /\ n.quarantine = 0 =>
                    (BenchmarkContamination(n) >= 80 <=> n.benchmark > 0)
              /\ LineageLoop(n) >= 80 <=> n.lineage > 0
              /\ n.critical = 0 /\ n.review = 0 =>
                    (ComplianceReadiness(n, certified) < 80 <=> n.provenance > 0)
            BY <2>1, Thresholds
        <3>2. /\ n.critical > 0 \/ n.critical = 0
              /\ n.quarantine > 0 \/ n.quarantine = 0
              /\ n.review > 0 \/ n.review = 0
            BY <2>1
        <3>3. /\ ~(n.critical > 0 /\ n.critical = 0)
              /\ ~(n.quarantine > 0 /\ n.quarantine = 0)
            BY <2>1
        <3> HIDE DEF n
        <3> QED
            BY <3>1, <3>2, <3>3 DEF RiskGate
    <2> QED
        BY <2>2, <2>3 DEF GateIsWorstAlert
<1> QED
    BY <1>1, CountsTyped, PTL

\* The clamps of score_events.
LEMMA Clamps ==
    /\ \A x \in Nat : AtMost(100, x) \in 0..100
    /\ \A x \in Nat : AtLeast(0, 100 - x) \in 0..100
    /\ \A x \in Int : AtLeast(0, AtMost(100, x)) \in 0..100
<1>1. \A x \in Nat : AtMost(100, x) \in 0..100
    BY DEF AtMost
<1>2. \A x \in Nat : AtLeast(0, 100 - x) \in 0..100
    BY DEF AtLeast
<1>3. \A x \in Int : AtLeast(0, AtMost(100, x)) \in 0..100
    BY DEF AtLeast, AtMost
<1> QED
    BY <1>1, <1>2, <1>3

\* However many alerts a run has, no score leaves 0..100.
THEOREM ScoresStayPercentages == GateSpec => []ScoresArePercentages
<1>1. GateTypeOK => ScoresArePercentages
    <2> SUFFICES ASSUME GateTypeOK PROVE ScoresArePercentages
        OBVIOUS
    <2>1. /\ counts.critical \in Nat /\ counts.warn \in Nat /\ counts.review \in Nat
          /\ counts.quarantine \in Nat /\ counts.benchmark \in Nat
          /\ counts.lineage \in Nat /\ counts.provenance \in Nat
          /\ certified \in BOOLEAN
        BY EachCount DEF GateTypeOK
    <2>2. TrainingDataRisk(counts) \in 0..100
        <3>1. counts.critical * 45 + counts.warn * 20 + counts.quarantine * 15
                + counts.review * 10 \in Nat
            BY <2>1
        <3> QED
            BY <3>1, Clamps DEF TrainingDataRisk
    <2>3. BenchmarkContamination(counts) \in 0..100
        <3>1. counts.benchmark * 85 + counts.quarantine * 10 \in Nat
            BY <2>1
        <3> QED
            BY <3>1, Clamps DEF BenchmarkContamination
    <2>4. LineageLoop(counts) \in 0..100
        <3>1. counts.lineage * 90 \in Nat
            BY <2>1
        <3> QED
            BY <3>1, Clamps DEF LineageLoop
    <2>5. ProvenanceCompleteness(counts) \in 0..100
        <3>1. /\ counts.provenance * 40 + counts.review * 15 \in Nat
              /\ 100 - counts.provenance * 40 - counts.review * 15
                    = 100 - (counts.provenance * 40 + counts.review * 15)
            BY <2>1
        <3>2. AtLeast(0, 100 - (counts.provenance * 40 + counts.review * 15)) \in 0..100
            BY <3>1, Clamps
        <3> QED
            BY <3>1, <3>2 DEF ProvenanceCompleteness
    <2>6. ComplianceReadiness(counts, certified) \in 0..100
        <3>1. ProvenanceCompleteness(counts) - counts.critical * 25
                + (IF certified THEN 10 ELSE 0) \in Int
            BY <2>1, <2>5
        <3> QED
            BY <3>1, Clamps DEF ComplianceReadiness
    <2> QED
        BY <2>2, <2>3, <2>4, <2>5, <2>6 DEF ScoresArePercentages
<1> QED
    BY <1>1, CountsTyped, PTL

\* Every score is monotone in every counter.
LEMMA ScoresAreMonotone ==
    ASSUME NEW n, NEW m, NEW valid \in BOOLEAN,
           n.critical \in Nat, n.warn \in Nat, n.review \in Nat, n.quarantine \in Nat,
           n.benchmark \in Nat, n.lineage \in Nat, n.provenance \in Nat,
           m.critical \in Nat, m.warn \in Nat, m.review \in Nat, m.quarantine \in Nat,
           m.benchmark \in Nat, m.lineage \in Nat, m.provenance \in Nat,
           n.critical <= m.critical, n.warn <= m.warn, n.review <= m.review,
           n.quarantine <= m.quarantine, n.benchmark <= m.benchmark,
           n.lineage <= m.lineage, n.provenance <= m.provenance
    PROVE  /\ TrainingDataRisk(n) <= TrainingDataRisk(m)
           /\ BenchmarkContamination(n) <= BenchmarkContamination(m)
           /\ LineageLoop(n) <= LineageLoop(m)
           /\ ProvenanceCompleteness(n) >= ProvenanceCompleteness(m)
           /\ ComplianceReadiness(n, valid) >= ComplianceReadiness(m, valid)
           /\ Severity(RiskGate(n, valid)) <= Severity(RiskGate(m, valid))
<1>1. TrainingDataRisk(n) <= TrainingDataRisk(m)
    BY DEF TrainingDataRisk, AtMost
<1>2. BenchmarkContamination(n) <= BenchmarkContamination(m)
    BY DEF BenchmarkContamination, AtMost
<1>3. LineageLoop(n) <= LineageLoop(m)
    BY DEF LineageLoop, AtMost
<1>4. /\ ProvenanceCompleteness(n) \in Int /\ ProvenanceCompleteness(m) \in Int
      /\ ProvenanceCompleteness(n) >= ProvenanceCompleteness(m)
    BY DEF ProvenanceCompleteness, AtLeast
<1>5. ComplianceReadiness(n, valid) >= ComplianceReadiness(m, valid)
    BY <1>4 DEF ComplianceReadiness, AtMost, AtLeast
<1>6. Severity(RiskGate(n, valid)) <= Severity(RiskGate(m, valid))
    <2> DEFINE Blocks(c) == \/ c.critical > 0 \/ c.quarantine > 0
                            \/ BenchmarkContamination(c) >= 80 \/ LineageLoop(c) >= 80
               Warns(c) == c.warn > 0 \/ c.review > 0 \/ ComplianceReadiness(c, valid) < 80
    <2>1. \A c \in {n, m} : RiskGate(c, valid) =
              IF Blocks(c) THEN "BLOCK" ELSE IF Warns(c) THEN "ADMIT_WITH_WARNINGS" ELSE "ADMIT"
        BY DEF RiskGate
    <2>2. BenchmarkContamination(n) \in Int /\ BenchmarkContamination(m) \in Int
        BY DEF BenchmarkContamination, AtMost
    <2>3. LineageLoop(n) \in Int /\ LineageLoop(m) \in Int
        BY DEF LineageLoop, AtMost
    <2>4. ComplianceReadiness(n, valid) \in Int /\ ComplianceReadiness(m, valid) \in Int
        BY <1>4 DEF ComplianceReadiness, AtMost, AtLeast
    <2>5. Blocks(n) => Blocks(m)
        BY <1>2, <1>3, <2>2, <2>3
    <2>6. Warns(n) => Warns(m)
        BY <1>5, <2>4
    <2> HIDE DEF Blocks, Warns
    <2>7. /\ Severity("ADMIT") = 0 /\ Severity("ADMIT_WITH_WARNINGS") = 1
          /\ Severity("BLOCK") = 2
        BY DEF Severity
    <2> QED
        BY <2>1, <2>5, <2>6, <2>7
<1> QED
    BY <1>1, <1>2, <1>3, <1>4, <1>5, <1>6

\* An alert moves no counter down.
LEMMA CountsGrow ==
    ASSUME GateTypeOK, NEW alert, CountAlert(alert)
    PROVE  \A c \in CountNames : counts[c] \in Nat /\ counts'[c] \in Nat
                                  /\ counts[c] <= counts'[c]
BY DEF GateTypeOK, CountAlert

\* An alert never improves a score nor relaxes the gate, however many there are
\* already.
THEOREM AlertsOnlyHurt == GateSpec => AlertsNeverHelp
<1> DEFINE A == certified' = certified =>
          /\ TrainingDataRisk(counts) <= TrainingDataRisk(counts')
          /\ BenchmarkContamination(counts) <= BenchmarkContamination(counts')
          /\ LineageLoop(counts) <= LineageLoop(counts')
          /\ ProvenanceCompleteness(counts) >= ProvenanceCompleteness(counts')
          /\ ComplianceReadiness(counts, certified)
                >= ComplianceReadiness(counts', certified)
          /\ Severity(RiskGate(counts, certified))
                <= Severity(RiskGate(counts', certified))
<1>1. GateTypeOK /\ [GateNext]_gateVars => [A]_gateVars
    <2> SUFFICES ASSUME GateTypeOK, GateNext, certified' = certified PROVE A
        BY DEF A
    <2>1. \A c \in CountNames : counts[c] \in Nat /\ counts'[c] \in Nat
                                 /\ counts[c] <= counts'[c]
        <3>1. ASSUME NEW alert \in Alerts, CountAlert(alert) PROVE <2>1
            BY <3>1, CountsGrow
        <3>2. ASSUME NEW valid \in BOOLEAN, RecordPassport(valid) PROVE <2>1
            BY <3>2 DEF RecordPassport, GateTypeOK
        <3> QED
            BY <3>1, <3>2 DEF GateNext
    <2>2. certified \in BOOLEAN
        BY DEF GateTypeOK
    <2>3. /\ counts.critical \in Nat /\ counts.warn \in Nat /\ counts.review \in Nat
          /\ counts.quarantine \in Nat /\ counts.benchmark \in Nat
          /\ counts.lineage \in Nat /\ counts.provenance \in Nat
        BY <2>1 DEF CountNames
    <2>4. /\ counts'.critical \in Nat /\ counts'.warn \in Nat /\ counts'.review \in Nat
          /\ counts'.quarantine \in Nat /\ counts'.benchmark \in Nat
          /\ counts'.lineage \in Nat /\ counts'.provenance \in Nat
        BY <2>1 DEF CountNames
    <2>5. /\ counts.critical <= counts'.critical /\ counts.warn <= counts'.warn
          /\ counts.review <= counts'.review
          /\ counts.quarantine <= counts'.quarantine
          /\ counts.benchmark <= counts'.benchmark
          /\ counts.lineage <= counts'.lineage
          /\ counts.provenance <= counts'.provenance
        BY <2>1 DEF CountNames
    <2> QED
        BY <2>2, <2>3, <2>4, <2>5, ScoresAreMonotone
<1> QED
    BY <1>1, CountsTyped, PTL DEF GateSpec, AlertsNeverHelp

-----------------------------------------------------------------------------
(* Series of packs.                                                        *)

\* The evidence of a pack is evidence, and a change of one piece of it too.
LEMMA VariedEvidence ==
    ASSUME NEW e \in Evidence, NEW f \in Vary(e)
    PROVE  f \in Evidence
<1>1. /\ e.payload \in {"passed", "failed", "unknown"} /\ e.chain_valid \in BOOLEAN
      /\ e.gate \in {"ADMIT", "ADMIT_WITH_WARNINGS", "BLOCK", "UNKNOWN"}
      /\ e.passport \in {"present_valid", "present_invalid", "missing"}
      /\ e.lifecycle \in {"CURRENT", "STALE", "MUTED", "UNKNOWN"}
      /\ e.supply \in {"generated", "missing"}
      /\ e.gaps \in SUBSET Gaps /\ e.files \in SUBSET EvidenceFiles
    BY DEF Evidence
<1>2. ASSUME NEW x \in {"passed", "failed", "unknown"}, f = [e EXCEPT !.payload = x]
      PROVE  f \in Evidence
    BY <1>2 DEF Evidence
<1>3. ASSUME NEW x \in BOOLEAN, f = [e EXCEPT !.chain_valid = x]
      PROVE  f \in Evidence
    BY <1>3 DEF Evidence
<1>4. ASSUME NEW x \in {"ADMIT", "ADMIT_WITH_WARNINGS", "BLOCK", "UNKNOWN"},
             f = [e EXCEPT !.gate = x]
      PROVE  f \in Evidence
    BY <1>4 DEF Evidence
<1>5. ASSUME NEW x \in {"present_valid", "present_invalid", "missing"},
             f = [e EXCEPT !.passport = x]
      PROVE  f \in Evidence
    BY <1>5 DEF Evidence
<1>6. ASSUME NEW x \in {"CURRENT", "STALE", "MUTED", "UNKNOWN"},
             f = [e EXCEPT !.lifecycle = x]
      PROVE  f \in Evidence
    BY <1>6 DEF Evidence
<1>7. ASSUME NEW x \in {"generated", "missing"}, f = [e EXCEPT !.supply = x]
      PROVE  f \in Evidence
    BY <1>7 DEF Evidence
<1>8. ASSUME NEW x \in SUBSET SomeGaps, f = [e EXCEPT !.gaps = x]
      PROVE  f \in Evidence
    <2>1. x \in SUBSET Gaps
        BY DriftAssumption
    <2> QED
        BY <1>8, <2>1 DEF Evidence
<1>9. ASSUME NEW x \in SUBSET SomeFiles, f = [e EXCEPT !.files = (@ \ SomeFiles) \cup x]
      PROVE  f \in Evidence
    <2>1. (e.files \ SomeFiles) \cup x \in SUBSET EvidenceFiles
        BY <1>1, DriftAssumption
    <2> QED
        BY <1>9, <2>1 DEF Evidence
<1> QED
    BY <1>2, <1>3, <1>4, <1>5, <1>6, <1>7, <1>8, <1>9 DEF Vary

\* The packs of the series.
DriftTypeOK == first \in Evidence /\ current \in Evidence /\ regressed \in BOOLEAN

\* The first pack of a series and every later one is scored on evidence.
THEOREM PacksTyped == DriftSpec => []DriftTypeOK
<1>1. DriftInit => DriftTypeOK
    <2>1. CleanEvidence \in Evidence
        BY DEF CleanEvidence, Evidence
    <2> QED
        BY <2>1, VariedEvidence DEF DriftInit, DriftTypeOK
<1>2. DriftTypeOK /\ [DriftNext]_driftVars => DriftTypeOK'
    <2> SUFFICES ASSUME DriftTypeOK, [DriftNext]_driftVars PROVE DriftTypeOK'
        OBVIOUS
    <2>1. CASE UNCHANGED driftVars
        BY <2>1 DEF DriftTypeOK, driftVars
    <2>2. ASSUME NEW e \in Vary(current), Build(e) PROVE DriftTypeOK'
        <3>1. current' \in Evidence /\ first' \in Evidence
            BY <2>2, VariedEvidence DEF Build, DriftTypeOK
        <3>2. regressed' \in BOOLEAN
            BY <2>2 DEF Build
        <3> QED
            BY <3>1, <3>2 DEF DriftTypeOK
    <2> QED
        BY <2>1, <2>2 DEF DriftNext
<1> QED
    BY <1>1, <1>2, PTL DEF DriftSpec

-----------------------------------------------------------------------------
(* Packs: the scores and the ranks are numbers.                            *)

\* What the gaps deduct: at least 5 with a gap, at least 15 with one in the
\* provenance, and more with another beside it.
LEMMA GapsDeduct ==
    ASSUME NEW gaps \in SUBSET Gaps
    PROVE  /\ GapDeductions(gaps) \in Nat
           /\ gaps # {} => GapDeductions(gaps) >= 5
           /\ "TRAINING_DATA_PROVENANCE_GAP" \in gaps => GapDeductions(gaps) >= 15
           /\ "TRAINING_DATA_PROVENANCE_GAP" \in gaps =>
                 \/ gaps = {"TRAINING_DATA_PROVENANCE_GAP"}
                 \/ GapDeductions(gaps) >= 20
<1>1. GapDeductions(gaps) \in Nat
    BY DEF GapDeductions, Deduct
<1>2. ASSUME NEW g \in gaps PROVE GapDeductions(gaps) >= 5
    <2>1. \/ "TRAINING_DATA_PROVENANCE_GAP" \in gaps \/ "EVAL_METADATA_GAP" \in gaps
          \/ "EVAL_RESULTS_TAG_WITHOUT_MODEL_INDEX" \in gaps
          \/ "LICENSE_FILE_NOT_LISTED" \in gaps \/ "LANGUAGE_METADATA_GAP" \in gaps
          \/ "PIPELINE_TAG_MISSING" \in gaps
        BY <1>2 DEF Gaps
    <2> QED
        BY <2>1 DEF GapDeductions, Deduct
<1>3. "TRAINING_DATA_PROVENANCE_GAP" \in gaps => GapDeductions(gaps) >= 15
    BY DEF GapDeductions, Deduct
<1>4. ASSUME "TRAINING_DATA_PROVENANCE_GAP" \in gaps,
             gaps # {"TRAINING_DATA_PROVENANCE_GAP"}
      PROVE  GapDeductions(gaps) >= 20
    <2>1. PICK g \in gaps : g # "TRAINING_DATA_PROVENANCE_GAP"
        BY <1>4
    <2>2. \/ "EVAL_METADATA_GAP" \in gaps
          \/ "EVAL_RESULTS_TAG_WITHOUT_MODEL_INDEX" \in gaps
          \/ "LICENSE_FILE_NOT_LISTED" \in gaps \/ "LANGUAGE_METADATA_GAP" \in gaps
          \/ "PIPELINE_TAG_MISSING" \in gaps
        BY <2>1 DEF Gaps
    <2> QED
        BY <1>4, <2>2 DEF GapDeductions, Deduct
<1>5. gaps # {} => GapDeductions(gaps) >= 5
    BY <1>2
<1> QED
    BY <1>1, <1>3, <1>4, <1>5

\* What the rest deducts, and the score that is left.
LEMMA Deducted ==
    ASSUME NEW e \in Evidence
    PROVE  /\ Deductions(e) \in Nat
           /\ Deductions(e) >= GapDeductions(e.gaps)
           /\ e.gate = "BLOCK" => Deductions(e) >= 40
           /\ e.passport # "present_valid" => Deductions(e) >= 20
           /\ e.lifecycle = "STALE" => Deductions(e) >= 10 + GapDeductions(e.gaps)
           /\ e.supply # "generated" => Deductions(e) >= 10 + GapDeductions(e.gaps)
           /\ e.gate = "ADMIT_WITH_WARNINGS" =>
                 /\ Deductions(e) >= 15 + GapDeductions(e.gaps)
                 /\ e.lifecycle = "STALE" => Deductions(e) >= 25
                 /\ e.supply # "generated" => Deductions(e) >= 25
           /\ Score(e) \in 0..100
           /\ e.payload # "failed" /\ e.chain_valid /\ Score(e) > 0
                 => Score(e) = 100 - Deductions(e)
<1>1. GapDeductions(e.gaps) \in Nat
    BY GapsDeduct DEF Evidence
<1> DEFINE gap == GapDeductions(e.gaps)
<1> HIDE DEF gap
<1>2. gap \in Nat
    BY <1>1 DEF gap
<1>3. Deductions(e) = Deduct(e.gate = "BLOCK", 40)
          + Deduct(e.gate = "ADMIT_WITH_WARNINGS", 15)
          + Deduct(e.passport # "present_valid", 20)
          + Deduct(e.lifecycle = "STALE", 10)
          + Deduct(e.supply # "generated", 10) + gap
    BY DEF Deductions, gap
<1>4. /\ Deductions(e) \in Nat
      /\ Deductions(e) >= gap
      /\ e.gate = "BLOCK" => Deductions(e) >= 40
      /\ e.passport # "present_valid" => Deductions(e) >= 20
      /\ e.lifecycle = "STALE" => Deductions(e) >= 10 + gap
      /\ e.supply # "generated" => Deductions(e) >= 10 + gap
      /\ e.gate = "ADMIT_WITH_WARNINGS" =>
            /\ Deductions(e) >= 15 + gap
            /\ e.lifecycle = "STALE" => Deductions(e) >= 25
            /\ e.supply # "generated" => Deductions(e) >= 25
    BY <1>2, <1>3 DEF Deduct
<1>5. /\ Score(e) \in 0..100
      /\ e.payload # "failed" /\ e.chain_valid /\ Score(e) > 0
            => Score(e) = 100 - Deductions(e)
    BY <1>4 DEF Score
<1> QED
    BY <1>4, <1>5 DEF gap

\* The ranks compare compares.
LEMMA Ranks ==
    ASSUME NEW e \in Evidence
    PROVE  /\ StatusRank(Status(e)) \in Nat
           /\ GateRank(e.gate) \in Nat
           /\ LifecycleRank(e.lifecycle) \in Nat
<1>1. Status(e) \in {"block", "pass", "watch", "review_recommended"}
    BY DEF Status
<1>2. StatusRank(Status(e)) \in Nat
    BY <1>1 DEF StatusRank
<1>3. GateRank(e.gate) \in Nat
    BY DEF GateRank, Evidence
<1>4. LifecycleRank(e.lifecycle) \in Nat
    BY DEF LifecycleRank, Evidence
<1> QED
    BY <1>2, <1>3, <1>4

-----------------------------------------------------------------------------
(* Packs: the theorems.                                                    *)

\* Not to regress is transitive: each comparison of compare is an order.
LEMMA NoRegressionComposes ==
    ASSUME NEW d \in Evidence, NEW e \in Evidence, NEW f \in Evidence,
           ~Regressed(d, e), ~Regressed(e, f)
    PROVE  ~Regressed(d, f)
<1>1. \A p \in {d, e, f} : /\ StatusRank(Status(p)) \in Nat
                           /\ GateRank(p.gate) \in Nat
                           /\ LifecycleRank(p.lifecycle) \in Nat
                           /\ Score(p) \in 0..100
    BY Ranks, Deducted
<1>2. d.files \subseteq f.files /\ f.gaps \subseteq d.gaps
    BY DEF Regressed
<1>3. ~(Score(f) < Score(d)) /\ ~(GateRank(f.gate) < GateRank(d.gate))
    BY <1>1 DEF Regressed
<1>4. /\ ~(LifecycleRank(f.lifecycle) < LifecycleRank(d.lifecycle))
      /\ ~(StatusRank(Status(f)) < StatusRank(Status(d)))
    BY <1>1 DEF Regressed
<1> QED
    BY <1>2, <1>3, <1>4 DEF Regressed

\* A pack has not regressed from itself.
LEMMA NoRegressionFromItself ==
    ASSUME NEW e \in Evidence
    PROVE  ~Regressed(e, e)
BY Ranks, Deducted DEF Regressed

\* The inductive strengthening: while no build has reported a regression, the
\* current pack has not regressed from the first.
NothingHidden == ~regressed => ~Regressed(first, current)

\* However long the series and however small its steps, the drift snapshots
\* (MLOpsGovernancePackBuilder.compare) report a decline over the whole of it.
THEOREM DeclineIsReported == DriftSpec => []NoSilentRegression
<1>1. DriftTypeOK /\ DriftInit => NothingHidden
    <2> SUFFICES ASSUME DriftTypeOK, DriftInit PROVE NothingHidden
        OBVIOUS
    <2>1. current = first /\ first \in Evidence
        BY DEF DriftTypeOK, DriftInit
    <2> QED
        BY <2>1, NoRegressionFromItself DEF NothingHidden
<1>2. DriftTypeOK /\ NothingHidden /\ DriftTypeOK' /\ [DriftNext]_driftVars => NothingHidden'
    <2> SUFFICES ASSUME DriftTypeOK, NothingHidden, DriftTypeOK', [DriftNext]_driftVars PROVE NothingHidden'
        OBVIOUS
    <2>1. CASE UNCHANGED driftVars
        BY <2>1 DEF NothingHidden, driftVars, Regressed
    <2>2. ASSUME NEW e \in Vary(current), Build(e) PROVE NothingHidden'
        <3> SUFFICES ASSUME ~regressed' PROVE ~Regressed(first', current')
            BY DEF NothingHidden
        <3>1. ~regressed /\ ~(Trend(current, e) = "regressed")
            BY <2>2 DEF Build
        <3>2. ~Regressed(first, current) /\ ~Regressed(current, e)
            BY <3>1 DEF Trend, NothingHidden
        <3>3. first' = first /\ current' = e
            BY <2>2 DEF Build
        <3>4. first \in Evidence /\ current \in Evidence /\ e \in Evidence
            BY <3>3 DEF DriftTypeOK
        <3>5. ~Regressed(first, e)
            BY <3>2, <3>4, NoRegressionComposes
        <3> QED
            BY <3>3, <3>5
    <2> QED
        BY <2>1, <2>2 DEF DriftNext
<1>3. NothingHidden => NoSilentRegression
    BY DEF NothingHidden, NoSilentRegression, Trend
<1> QED
    BY <1>1, <1>2, <1>3, PacksTyped, PTL DEF DriftSpec

\* compare never calls both directions between two packs an improvement.
THEOREM ImprovementsAreDirected == DriftSpec => []ImprovementHasADirection
<1>1. DriftTypeOK => ImprovementHasADirection
    <2> SUFFICES ASSUME DriftTypeOK, Trend(first, current) = "improved"
                 PROVE  Trend(current, first) = "regressed"
        BY DEF ImprovementHasADirection
    <2>1. Improved(first, current)
        BY DEF Trend
    <2>2. /\ Score(first) \in 0..100 /\ Score(current) \in 0..100
          /\ StatusRank(Status(first)) \in Nat /\ StatusRank(Status(current)) \in Nat
        BY Ranks, Deducted DEF DriftTypeOK
    <2>3. Regressed(current, first)
        BY <2>1, <2>2 DEF Improved, Regressed
    <2> QED
        BY <2>3 DEF Trend
<1> QED
    BY <1>1, PacksTyped, PTL

\* For every combination of evidence, a pack that passes has a valid chain and
\* passport, no reported payload and no gate that blocks, and nothing else deducted
\* beside a warning or a provenance gap.  What deducts nothing it does not vouch for.
THEOREM PassIsEarned == DriftSpec => []PassVouchesForEvidence
<1>1. DriftTypeOK => PassVouchesForEvidence
    <2> SUFFICES ASSUME DriftTypeOK, Status(current) = "pass" PROVE PassVouchesForEvidence
        BY DEF PassVouchesForEvidence
    <2> DEFINE e == current
    <2>1. e \in Evidence
        BY DEF DriftTypeOK
    <2>2. ~HardBlock(e) /\ Score(e) >= 85
        BY DEF Status
    <2>3. e.payload # "failed" /\ e.chain_valid
        BY <2>2 DEF HardBlock
    <2>4. Score(e) \in 0..100 /\ Deductions(e) \in Nat /\ Score(e) > 0
        BY <2>1, <2>2, Deducted
    <2>5. Score(e) = 100 - Deductions(e)
        BY <2>1, <2>3, <2>4, Deducted
    <2>6. Deductions(e) <= 15
        BY <2>2, <2>4, <2>5
    <2>7. e.gate # "BLOCK" /\ e.passport = "present_valid"
        BY <2>1, <2>4, <2>6, Deducted
    <2>8. ASSUME e.gate = "ADMIT_WITH_WARNINGS"
          PROVE  e.gaps = {} /\ e.lifecycle # "STALE" /\ e.supply = "generated"
        <3>1. GapDeductions(e.gaps) \in Nat /\ (e.gaps # {} => GapDeductions(e.gaps) >= 5)
            BY <2>1, GapsDeduct DEF Evidence
        <3>2. /\ Deductions(e) >= 15 + GapDeductions(e.gaps)
              /\ e.lifecycle = "STALE" => Deductions(e) >= 25
              /\ e.supply # "generated" => Deductions(e) >= 25
            BY <2>1, <2>8, Deducted
        <3> QED
            BY <2>4, <2>6, <3>1, <3>2
    <2>9. ASSUME "TRAINING_DATA_PROVENANCE_GAP" \in e.gaps
          PROVE  /\ e.gaps = {"TRAINING_DATA_PROVENANCE_GAP"}
                 /\ e.lifecycle # "STALE" /\ e.supply = "generated"
        <3>1. /\ GapDeductions(e.gaps) \in Nat /\ GapDeductions(e.gaps) >= 15
              /\ e.gaps # {"TRAINING_DATA_PROVENANCE_GAP"} => GapDeductions(e.gaps) >= 20
            BY <2>1, <2>9, GapsDeduct DEF Evidence
        <3>2. /\ Deductions(e) >= GapDeductions(e.gaps)
              /\ e.lifecycle = "STALE" => Deductions(e) >= 10 + GapDeductions(e.gaps)
              /\ e.supply # "generated" => Deductions(e) >= 10 + GapDeductions(e.gaps)
            BY <2>1, Deducted
        <3> QED
            BY <2>4, <2>6, <3>1, <3>2
    <2> QED
        BY <2>3, <2>7, <2>8, <2>9 DEF PassVouchesForEvidence
<1> QED
    BY <1>1, PacksTyped, PTL
=============================================================================
