---------------------------- MODULE LedgerProofs ----------------------------
(* Proofs of the safety properties of Ledger. *)
EXTENDS Ledger, SequenceTheorems, WellFoundedInduction, TLAPS

-----------------------------------------------------------------------------
(* Files as sequences.                                                     *)

IsFile(f) == f \in Seq({f[i] : i \in DOMAIN f})

\* A file is a function on 1..Len, and a sequence over any set is a file.
LEMMA FileShape ==
    ASSUME NEW f, IsFile(f)
    PROVE  Len(f) \in Nat /\ DOMAIN f = 1..Len(f)
BY LenProperties DEF IsFile

\* Any sequence is a file.
LEMMA SeqIsFile ==
    ASSUME NEW S, NEW f \in Seq(S)
    PROVE  IsFile(f)
<1>1. Len(f) \in Nat /\ DOMAIN f = 1..Len(f) /\ f \in [1..Len(f) -> S]
    BY LenProperties
<1>2. f \in [1..Len(f) -> {f[i] : i \in DOMAIN f}]
    BY <1>1
<1> QED
    BY <1>1, <1>2, SeqDef DEF IsFile

\* Adding a line at the end leaves the others where they are.
LEMMA AppendShape ==
    ASSUME NEW f, IsFile(f), NEW e
    PROVE  /\ IsFile(Append(f, e))
           /\ Len(Append(f, e)) = Len(f) + 1
           /\ DOMAIN Append(f, e) = 1..(Len(f) + 1)
           /\ \A i \in 1..Len(f) : Append(f, e)[i] = f[i]
           /\ Append(f, e)[Len(f) + 1] = e
<1> DEFINE S == {f[i] : i \in DOMAIN f} \cup {e}
<1>1. f \in Seq(S) /\ e \in S
    BY SeqMonotonic DEF IsFile
<1> HIDE DEF S
<1>2. /\ Append(f, e) \in Seq(S)
      /\ Len(Append(f, e)) = Len(f) + 1
      /\ \A i \in 1..Len(f) : Append(f, e)[i] = f[i]
      /\ Append(f, e)[Len(f) + 1] = e
    BY <1>1, AppendProperties
<1> QED
    BY <1>2, SeqIsFile, LenProperties

\* Rewriting one line leaves the others as they are.
LEMMA ExceptShape ==
    ASSUME NEW f, IsFile(f), NEW k \in DOMAIN f, NEW e
    PROVE  /\ IsFile([f EXCEPT ![k] = e])
           /\ Len([f EXCEPT ![k] = e]) = Len(f)
           /\ DOMAIN [f EXCEPT ![k] = e] = DOMAIN f
           /\ \A i \in DOMAIN f : [f EXCEPT ![k] = e][i] = IF i = k THEN e ELSE f[i]
<1> DEFINE S == {f[i] : i \in DOMAIN f} \cup {e}
<1>1. f \in Seq(S) /\ e \in S /\ k \in 1..Len(f)
    BY SeqMonotonic, FileShape DEF IsFile
<1> HIDE DEF S
<1>2. [f EXCEPT ![k] = e] \in Seq(S) /\ Len([f EXCEPT ![k] = e]) = Len(f)
    BY <1>1, ExceptSeq
<1> QED
    BY <1>2, SeqIsFile, FileShape

\* A prefix of a file is a file.
LEMMA PrefixShape ==
    ASSUME NEW f, IsFile(f), NEW n \in 0..Len(f)
    PROVE  /\ IsFile(SubSeq(f, 1, n))
           /\ Len(SubSeq(f, 1, n)) = n
           /\ DOMAIN SubSeq(f, 1, n) = 1..n
           /\ \A i \in 1..n : SubSeq(f, 1, n)[i] = f[i]
<1> DEFINE S == {f[i] : i \in DOMAIN f}
<1>1. Len(f) \in Nat /\ DOMAIN f = 1..Len(f)
    BY FileShape
<1>2. \A i \in 1..n : f[i] \in S
    BY <1>1
<1> HIDE DEF S
<1>3. /\ SubSeq(f, 1, n) \in Seq(S)
      /\ Len(SubSeq(f, 1, n)) = (IF 1 <= n THEN n - 1 + 1 ELSE 0)
      /\ \A i \in 1..(n - 1 + 1) : SubSeq(f, 1, n)[i] = f[1 + i - 1]
    BY <1>1, <1>2, SubSeqProperties
<1>4. n - 1 + 1 = n /\ (IF 1 <= n THEN n - 1 + 1 ELSE 0) = n
    BY <1>1
<1>5. \A i \in 1..n : 1 + i - 1 = i
    BY <1>1
<1> QED
    BY <1>3, <1>4, <1>5, SeqIsFile, LenProperties

\* The line before a line, in a file at least as long.
LEMMA LineBefore ==
    ASSUME NEW n \in Nat, NEW m \in Nat, n <= m, NEW i \in 1..n, i # 1
    PROVE  i - 1 \in 1..n /\ i - 1 # m
OBVIOUS

\* The last line, and the lines before the last.
LEMMA LastLine ==
    ASSUME NEW n \in Nat, NEW i \in 1..n, ~(i < n)
    PROVE  i = n /\ n > 0
OBVIOUS

\* An index that is not before the last one is the last one.
LEMMA NotBeforeLast ==
    ASSUME NEW n \in Nat, NEW i \in 0..n, ~(i < n)
    PROVE  i = n
OBVIOUS

\* A line of the file without its last line is an earlier line of the file.
LEMMA FrontLine ==
    ASSUME NEW n \in Nat, NEW i \in 1..(n - 1)
    PROVE  i \in 1..n /\ i # n
OBVIOUS

\* What the two ways of writing a line, and losing the end of a file, do.
Grown(f, g, e) ==
    /\ IsFile(g)
    /\ \/ /\ Len(g) = Len(f) + 1
          /\ \A i \in 1..Len(f) : g[i] = f[i]
          /\ g[Len(f) + 1] = e
       \/ /\ Len(g) = Len(f) /\ Len(f) > 0
          /\ \A i \in 1..Len(f) : i # Len(f) => g[i] = f[i]
          /\ g[Len(f)] = Malformed

Cut(f, g) ==
    /\ IsFile(g)
    /\ Len(g) <= Len(f)
    /\ \A i \in 1..Len(g) : g[i] = f[i] \/ (i = Len(g) /\ g[i] = Malformed)

\* AppendLine grows the file, or merges the line into a tail with no newline.
LEMMA AppendLineShape ==
    ASSUME NEW f, IsFile(f), NEW t \in BOOLEAN, NEW e
    PROVE  Grown(f, AppendLine(f, t, e), e)
<1>1. CASE t \/ f = << >>
    BY <1>1, AppendShape DEF AppendLine, Grown
<1>2. CASE ~(t \/ f = << >>)
    <2>1. Len(f) \in Nat /\ DOMAIN f = 1..Len(f) /\ Len(f) > 0
        BY <1>2, FileShape, EmptySeq DEF IsFile
    <2>2. Len(f) \in DOMAIN f
        BY <2>1
    <2> QED
        BY <1>2, <2>1, <2>2, ExceptShape DEF AppendLine, Grown
<1> QED
    BY <1>1, <1>2

\* An event's content and hash, read off its line.
LEMMA LineFacts ==
    ASSUME NEW line, IsLine(line)
    PROVE  /\ line = Malformed \/ line.ok
           /\ line.ok => /\ line.body \in used
                        /\ line.hash = <<line.prev, line.body>>
                        /\ line = SealEvent(line.prev, line.body)
                        /\ Intact(line)
BY DEF IsLine, Malformed, SealEvent, EventHash, Intact

\* The fields of the event prepare returns.
LEMMA SealFacts ==
    ASSUME NEW prev, NEW body
    PROVE  /\ SealEvent(prev, body).ok
           /\ SealEvent(prev, body).prev = prev
           /\ SealEvent(prev, body).body = body
           /\ SealEvent(prev, body).hash = <<prev, body>>
           /\ ~Malformed.ok
BY DEF SealEvent, EventHash, Malformed

\* Every step is one of the actions, and changes the file in one of three ways.
LEMMA WriteShape ==
    ASSUME TypeOK, NEW w \in Writer, Write(w)
    PROVE  Grown(file, file', PreparedEvent(w))
BY AppendLineShape DEF TypeOK, Write, IsFile

\* A write cut short grows the file by the event or by a line that does not parse.
LEMMA TornWriteShape ==
    ASSUME TypeOK, NEW w \in Writer, TornWrite(w)
    PROVE  \E e \in {Malformed, PreparedEvent(w)} : Grown(file, file', e)
BY AppendLineShape DEF TypeOK, TornWrite, IsFile

\* A power loss cuts the file, perhaps inside a line.
LEMMA PowerLossShape ==
    ASSUME TypeOK, PowerLoss
    PROVE  Cut(file, file')
<1>1. IsFile(file) /\ Len(file) \in Nat
    BY FileShape DEF TypeOK, IsFile
<1>2. PICK n \in 0..Len(file) :
          \/ file' = SubSeq(file, 1, n)
          \/ n < Len(file) /\ file' = Append(SubSeq(file, 1, n), Malformed)
    BY DEF PowerLoss
<1>3. CASE file' = SubSeq(file, 1, n)
    <2>1. /\ IsFile(SubSeq(file, 1, n)) /\ Len(SubSeq(file, 1, n)) = n
          /\ \A i \in 1..n : SubSeq(file, 1, n)[i] = file[i]
        BY <1>1, PrefixShape
    <2> QED
        BY <1>1, <1>3, <2>1 DEF Cut
<1>4. CASE n < Len(file) /\ file' = Append(SubSeq(file, 1, n), Malformed)
    <2>1. /\ IsFile(SubSeq(file, 1, n)) /\ Len(SubSeq(file, 1, n)) = n
          /\ \A i \in 1..n : SubSeq(file, 1, n)[i] = file[i]
        BY <1>1, PrefixShape
    <2>2. /\ IsFile(file') /\ Len(file') = n + 1
          /\ \A i \in 1..n : file'[i] = SubSeq(file, 1, n)[i]
          /\ file'[n + 1] = Malformed
        BY <1>4, <2>1, AppendShape
    <2> QED
        BY <1>1, <1>4, <2>1, <2>2 DEF Cut
<1> QED
    BY <1>2, <1>3, <1>4

-----------------------------------------------------------------------------
(* Type correctness.                                                       *)

\* The empty ledger is well typed.
LEMMA InitTypeOK == Init => TypeOK
<1> SUFFICES ASSUME Init PROVE TypeOK
    OBVIOUS
<1>1. file = << >> /\ DOMAIN file = {} /\ IsFile(file)
    BY EmptySeq, LenProperties DEF Init, IsFile
<1> QED
    BY <1>1 DEF Init, TypeOK, IsFile

\* A grown or cut file still holds lines only.
LEMMA GrownLines ==
    ASSUME TypeOK, used \subseteq used',
           NEW e, (e = Malformed) \/ (\E b \in used : e = SealEvent(e.prev, b)),
           Grown(file, file', e)
    PROVE  IsFile(file') /\ \A i \in DOMAIN file' : IsLine(file[i])'
<1>1. /\ IsFile(file) /\ IsFile(file')
      /\ Len(file) \in Nat /\ DOMAIN file = 1..Len(file)
      /\ Len(file') \in Nat /\ DOMAIN file' = 1..Len(file')
    BY FileShape DEF TypeOK, IsFile, Grown
<1>2. \A i \in DOMAIN file' : file'[i] = Malformed \/ file'[i] = e
                               \/ (i \in DOMAIN file /\ file'[i] = file[i])
    <2>1. CASE Len(file') = Len(file) + 1 /\ file'[Len(file) + 1] = e
                 /\ \A i \in 1..Len(file) : file'[i] = file[i]
        <3>1. \A i \in 1..(Len(file) + 1) : i \in 1..Len(file) \/ i = Len(file) + 1
            BY <1>1
        <3> QED
            BY <1>1, <2>1, <3>1
    <2>2. CASE Len(file') = Len(file) /\ file'[Len(file)] = Malformed
                 /\ \A i \in 1..Len(file) : i # Len(file) => file'[i] = file[i]
        BY <1>1, <2>2
    <2> QED
        BY <2>1, <2>2 DEF Grown
<1> QED
    BY <1>1, <1>2 DEF TypeOK, IsLine

\* A cut file still holds lines only.
LEMMA CutLines ==
    ASSUME TypeOK, used' = used, Cut(file, file')
    PROVE  IsFile(file') /\ \A i \in DOMAIN file' : IsLine(file[i])'
<1>1. /\ IsFile(file) /\ IsFile(file')
      /\ Len(file) \in Nat /\ DOMAIN file = 1..Len(file)
      /\ Len(file') \in Nat /\ DOMAIN file' = 1..Len(file')
    BY FileShape DEF TypeOK, IsFile, Cut
<1>2. \A i \in DOMAIN file' :
          (file'[i] = Malformed) \/ (i \in DOMAIN file /\ file'[i] = file[i])
    <2>1. \A i \in 1..Len(file') :
              file'[i] = file[i] \/ (i = Len(file') /\ file'[i] = Malformed)
        BY DEF Cut
    <2>a. Len(file') <= Len(file)
        BY DEF Cut
    <2>2. 1..Len(file') \subseteq 1..Len(file)
        BY <1>1, <2>a
    <2> QED
        BY <1>1, <2>1, <2>2
<1> QED
    BY <1>1, <1>2 DEF TypeOK, IsLine

\* The event a writer is about to write is a line of the file.
LEMMA PreparedIsLine ==
    ASSUME TypeOK, ContentsAreFresh, NEW w \in Writer, phase[w] = "linked"
    PROVE  /\ PreparedEvent(w) = SealEvent(PreparedEvent(w).prev, pending[w])
           /\ pending[w] \in used
           /\ IsLine(PreparedEvent(w)) /\ PreparedEvent(w).ok
BY DEF ContentsAreFresh, Linking, PreparedEvent, SealEvent, IsLine

\* Every step of Next keeps the types.
LEMMA TypeStep == IInv /\ [Next]_vars => TypeOK'
<1> SUFFICES ASSUME IInv, [Next]_vars PROVE TypeOK'
    OBVIOUS
<1>0. TypeOK /\ ContentsAreFresh
    BY DEF IInv
<1> USE DEF TypeOK
<1>1. ASSUME NEW w \in Writer, NEW b \in Body, Prepare(w, b) PROVE TypeOK'
    BY <1>0, <1>1 DEF Prepare, IsLine
<1>2. ASSUME NEW w \in Writer, Write(w) PROVE TypeOK'
    <2>1. IsFile(file') /\ \A i \in DOMAIN file' : IsLine(file[i])'
        BY <1>0, <1>2, WriteShape, PreparedIsLine, GrownLines DEF Write
    <2>2. \A e \in acked' : IsLine(e)' /\ e.ok
        BY <1>0, <1>2, PreparedIsLine DEF Write, IsLine
    <2> QED
        BY <1>0, <1>2, <2>1, <2>2 DEF Write, Idle, IsFile
<1>3. ASSUME NEW w \in Writer, TornWrite(w) PROVE TypeOK'
    <2>1. IsFile(file') /\ \A i \in DOMAIN file' : IsLine(file[i])'
        BY <1>0, <1>3, TornWriteShape, PreparedIsLine, GrownLines DEF TornWrite
    <2> QED
        BY <1>0, <1>3, <2>1 DEF TornWrite, Idle, IsFile, IsLine
<1>4. ASSUME NEW w \in Writer, Kill(w) PROVE TypeOK'
    BY <1>0, <1>4 DEF Kill, Idle, IsLine
<1>5. ASSUME PowerLoss PROVE TypeOK'
    <2>1. IsFile(file') /\ \A i \in DOMAIN file' : IsLine(file[i])'
        BY <1>0, <1>5, PowerLossShape, CutLines DEF PowerLoss
    <2>2. terminated' \in BOOLEAN
        BY <1>0, <1>5 DEF PowerLoss
    <2> QED
        BY <1>0, <1>5, <2>1, <2>2 DEF PowerLoss, IsFile, IsLine
<1>6. ASSUME UNCHANGED vars PROVE TypeOK'
    BY <1>0, <1>6 DEF vars, IsLine
<1> QED
    BY <1>1, <1>2, <1>3, <1>4, <1>5, <1>6 DEF Next

-----------------------------------------------------------------------------
(* What a step does to the events of the file.                             *)

\* Growing keeps every event where it is, or merges the last line away; an
\* event that is new is the one written, one past a file that is kept whole.
LEMMA GrownEvents ==
    ASSUME IsFile(file), NEW e, Grown(file, file', e)
    PROVE  /\ Len(file) \in Nat /\ DOMAIN file = 1..Len(file)
           /\ Len(file') \in Nat /\ DOMAIN file' = 1..Len(file')
           /\ Len(file) <= Len(file')
           /\ \A i \in 1..Len(file) :
                 (file'[i] = file[i]) \/ (i = Len(file') /\ file'[i] = Malformed)
           /\ \A i \in Events' :
                 \/ i \in Events /\ file'[i] = file[i]
                 \/ /\ i = Len(file) + 1 /\ i = Len(file') /\ file'[i] = e
                    /\ \A j \in 1..Len(file) : file'[j] = file[j]
<1>1. /\ Len(file) \in Nat /\ DOMAIN file = 1..Len(file)
      /\ Len(file') \in Nat /\ DOMAIN file' = 1..Len(file')
    BY FileShape DEF Grown
<1>2. CASE /\ Len(file') = Len(file) + 1 /\ file'[Len(file) + 1] = e
           /\ \A i \in 1..Len(file) : file'[i] = file[i]
    <2>1. \A i \in 1..(Len(file) + 1) : i \in 1..Len(file) \/ i = Len(file) + 1
        BY <1>1
    <2>2. ASSUME NEW i \in Events'
          PROVE  \/ i \in Events /\ file'[i] = file[i]
                 \/ i = Len(file) + 1 /\ i = Len(file') /\ file'[i] = e
        BY <1>1, <1>2, <2>1, <2>2 DEF Events
    <2>3. Len(file) <= Len(file')
        BY <1>1, <1>2
    <2>4. \A i \in 1..Len(file) :
              (file'[i] = file[i]) \/ (i = Len(file') /\ file'[i] = Malformed)
        BY <1>2
    <2>5. \A i \in Events' :
              \/ i \in Events /\ file'[i] = file[i]
              \/ /\ i = Len(file) + 1 /\ i = Len(file') /\ file'[i] = e
                 /\ \A j \in 1..Len(file) : file'[j] = file[j]
        BY ONLY <1>2, <2>2
    <2> QED
        BY ONLY <1>1, <2>3, <2>4, <2>5
<1>3. CASE /\ Len(file') = Len(file) /\ file'[Len(file)] = Malformed
           /\ \A i \in 1..Len(file) : i # Len(file) => file'[i] = file[i]
    <2>1. \A i \in 1..Len(file) :
              (file'[i] = file[i]) \/ (i = Len(file') /\ file'[i] = Malformed)
        BY <1>1, <1>3
    <2>2. ASSUME NEW i \in Events'
          PROVE  i \in Events /\ file'[i] = file[i]
        <3>1. i \in 1..Len(file) /\ file'[i].ok
            BY <1>1, <1>3, <2>2 DEF Events
        <3>2. file'[i] = file[i]
            BY <2>1, <3>1, SealFacts
        <3> QED
            BY <1>1, <3>1, <3>2 DEF Events
    <2>a. Len(file') = Len(file)
        BY <1>3
    <2>3. Len(file) <= Len(file')
        BY ONLY <1>1, <2>a
    <2> QED
        BY ONLY <1>1, <2>1, <2>2, <2>3
<1> QED
    BY <1>2, <1>3 DEF Grown

\* Every event of a cut file was in the file, at the same place.
LEMMA CutEvents ==
    ASSUME IsFile(file), Cut(file, file')
    PROVE  /\ Len(file) \in Nat /\ DOMAIN file = 1..Len(file)
           /\ Len(file') \in Nat /\ DOMAIN file' = 1..Len(file')
           /\ Len(file') <= Len(file)
           /\ \A i \in Events' : i \in Events /\ file'[i] = file[i]
<1>1. /\ Len(file) \in Nat /\ DOMAIN file = 1..Len(file)
      /\ Len(file') \in Nat /\ DOMAIN file' = 1..Len(file')
    BY FileShape DEF Cut
<1>2. \A i \in 1..Len(file') :
          file'[i] = file[i] \/ (i = Len(file') /\ file'[i] = Malformed)
    BY DEF Cut
<1>a. Len(file') <= Len(file)
    BY DEF Cut
<1>3. 1..Len(file') \subseteq 1..Len(file)
    BY <1>1, <1>a
<1>4. ASSUME NEW i \in Events' PROVE i \in Events /\ file'[i] = file[i]
    <2>1. i \in 1..Len(file') /\ file'[i].ok
        BY <1>1, <1>4 DEF Events
    <2>2. file'[i] = file[i]
        BY <1>2, <2>1, SealFacts
    <2> QED
        BY <1>1, <1>3, <2>1, <2>2 DEF Events
<1> QED
    BY <1>1, <1>a, <1>4

\* All that the invariants need to know of a step that changes the file.
LEMMA FileSteps ==
    ASSUME TypeOK, [Next]_vars
    PROVE  \/ \E w \in Writer, b \in Body : Prepare(w, b)
           \/ \E w \in Writer : /\ phase[w] = "linked" /\ Idle(w) /\ used' = used
                               /\ \E e \in {Malformed, PreparedEvent(w)} :
                                     Grown(file, file', e)
           \/ \E w \in Writer : phase[w] = "linked" /\ Idle(w) /\ UNCHANGED <<file, used>>
           \/ PowerLoss /\ Cut(file, file')
           \/ UNCHANGED vars
BY WriteShape, TornWriteShape, PowerLossShape DEF Next, Write, TornWrite, Kill

-----------------------------------------------------------------------------
(* The parts of the invariant, one after the other.                        *)

\* Every step keeps the contents of events and pending appends distinct.
LEMMA ContentsStep == IInv /\ [Next]_vars => ContentsAreFresh'
<1> SUFFICES ASSUME IInv, [Next]_vars PROVE ContentsAreFresh'
    OBVIOUS
<1>0. TypeOK /\ ContentsAreFresh /\ IsFile(file)
    BY DEF IInv, TypeOK, IsFile
<1>f. \A i \in Events : file[i].body \in used
    BY <1>0, LineFacts DEF TypeOK, Events
<1>1. ASSUME NEW w \in Writer, NEW b \in Body, Prepare(w, b) PROVE ContentsAreFresh'
    <2>1. file' = file /\ Events' = Events
        BY <1>1 DEF Prepare, Events
    <2>2. \A v \in Writer : Linking(v)' =>
              (v = w /\ pending'[v] = b) \/ (v # w /\ Linking(v) /\ pending'[v] = pending[v])
        BY <1>0, <1>1 DEF Prepare, Linking, TypeOK
    <2>3. b \in used' /\ used \subseteq used' /\ b[1] = w /\ b \notin used
        BY <1>1 DEF Prepare
    <2> QED
        BY <1>0, <1>f, <2>1, <2>2, <2>3 DEF ContentsAreFresh
<1>2. ASSUME NEW w \in Writer, phase[w] = "linked", Idle(w), used' = used,
             NEW e \in {Malformed, PreparedEvent(w)}, Grown(file, file', e)
      PROVE  ContentsAreFresh'
    <2>1. \A i \in Events' : file'[i].body = pending[w] \/ (i \in Events /\ file'[i] = file[i])
        BY <1>0, <1>2, GrownEvents, SealFacts DEF PreparedEvent, Events
    <2>2. ASSUME NEW i \in Events', NEW j \in Events', file'[i].body = file'[j].body
          PROVE  i = j
        <3>1. \A k \in Events : file[k].body # pending[w]
            BY <1>0, <1>2 DEF ContentsAreFresh, Linking
        <3>2. \A k \in Events' : \/ k \in Events /\ file'[k] = file[k]
                                 \/ k = Len(file) + 1 /\ file'[k].body = pending[w]
            BY <1>0, <1>2, GrownEvents, SealFacts DEF PreparedEvent, Events
        <3> QED
            BY <1>0, <2>2, <3>1, <3>2 DEF ContentsAreFresh
    <2>3. \A v \in Writer : Linking(v)' => v # w /\ Linking(v) /\ pending'[v] = pending[v]
        BY <1>0, <1>2 DEF Idle, Linking, TypeOK
    <2>4. \A v \in Writer : Linking(v)' => pending[v] # pending[w]
        BY <1>0, <1>2, <2>3 DEF ContentsAreFresh, Linking
    <2> QED
        BY <1>0, <1>2, <2>1, <2>2, <2>3, <2>4 DEF ContentsAreFresh
<1>3. ASSUME NEW w \in Writer, phase[w] = "linked", Idle(w), UNCHANGED <<file, used>>
      PROVE  ContentsAreFresh'
    <2>1. \A v \in Writer : Linking(v)' => v # w /\ Linking(v) /\ pending'[v] = pending[v]
        BY <1>0, <1>3 DEF Idle, Linking, TypeOK
    <2> QED
        BY <1>0, <1>3, <2>1 DEF ContentsAreFresh, Events
<1>4. ASSUME PowerLoss, Cut(file, file') PROVE ContentsAreFresh'
    <2>1. \A v \in Writer : ~Linking(v)'
        BY <1>4 DEF PowerLoss, Linking
    <2> QED
        BY <1>0, <1>4, <2>1, CutEvents DEF ContentsAreFresh
<1>5. ASSUME UNCHANGED vars PROVE ContentsAreFresh'
    BY <1>0, <1>5 DEF vars, ContentsAreFresh, Events, Linking
<1> QED
    BY <1>0, <1>1, <1>2, <1>3, <1>4, <1>5, FileSteps

\* The hash on the last line of a readable file is an event's, never NoHash.
LEMMA TailFacts ==
    ASSUME TypeOK, Readable(file), file # << >>
    PROVE  /\ Len(file) \in Events
           /\ PreviousHash(file) = file[Len(file)].hash
           /\ PreviousHash(file) # NoHash
<1>1. /\ Len(file) \in Nat /\ DOMAIN file = 1..Len(file) /\ Len(file) > 0
    BY FileShape, EmptySeq DEF TypeOK, IsFile
<1>2. Len(file) \in DOMAIN file
    BY <1>1
<1>3. Len(file) \in Events
    BY <1>2 DEF Readable, Events
<1>4. file[Len(file)].hash = <<file[Len(file)].prev, file[Len(file)].body>>
    BY <1>2, <1>3, LineFacts DEF TypeOK, Events
<1> QED
    BY <1>3, <1>4 DEF PreviousHash, NoHash

\* Every step keeps each parent before its children, and what a linking writer
\* saw in the file.
LEMMA ParentsStep == IInv /\ [Next]_vars => ParentsPrecede' /\ SeenIsPresent'
<1> SUFFICES ASSUME IInv, [Next]_vars PROVE ParentsPrecede' /\ SeenIsPresent'
    OBVIOUS
<1>0. TypeOK /\ ParentsPrecede /\ SeenIsPresent /\ IsFile(file)
    BY DEF IInv, TypeOK, IsFile
<1>d. Len(file) \in Nat /\ DOMAIN file = 1..Len(file)
    BY <1>0, FileShape
<1>1. ASSUME NEW w \in Writer, NEW b \in Body, Prepare(w, b)
      PROVE  ParentsPrecede' /\ SeenIsPresent'
    <2>1. file' = file /\ Readable(file)
        BY <1>1 DEF Prepare
    <2>2. \A v \in Writer : Linking(v)' =>
              (v = w /\ seen'[v] = PreviousHash(file)) \/ (Linking(v) /\ seen'[v] = seen[v])
        BY <1>0, <1>1 DEF Prepare, Linking, TypeOK
    <2>3. PreviousHash(file) # NoHash
              => \E j \in DOMAIN file : file[j].hash = PreviousHash(file)
        BY <1>0, <2>1, TailFacts DEF PreviousHash, Events
    <2>4. SeenIsPresent'
        BY <1>0, <2>1, <2>2, <2>3 DEF SeenIsPresent
    <2> QED
        BY <1>0, <2>1, <2>4 DEF ParentsPrecede
<1>2. ASSUME NEW w \in Writer, phase[w] = "linked", Idle(w), used' = used,
             NEW e \in {Malformed, PreparedEvent(w)}, Grown(file, file', e)
      PROVE  ParentsPrecede' /\ SeenIsPresent'
    <2>1. /\ Len(file') \in Nat /\ DOMAIN file' = 1..Len(file')
          /\ Len(file) <= Len(file')
        BY <1>0, <1>2, GrownEvents
    <2>2. \A i \in Events' :
              \/ i \in Events /\ file'[i] = file[i]
              \/ /\ i = Len(file) + 1 /\ file'[i] = e
                 /\ \A j \in 1..Len(file) : file'[j] = file[j]
        BY <1>0, <1>2, GrownEvents
    <2>3. \A i \in Events' : i \in 1..Len(file) => i \in Events /\ file'[i] = file[i]
        BY <1>d, <2>2
    <2>4. ASSUME NEW i \in DOMAIN file', \A k \in 1..i : file'[k].ok,
                 file'[i].prev # NoHash
          PROVE  \E j \in 1..(i - 1) : file'[j].hash = file'[i].prev
        <3>1. i \in 1..Len(file') /\ \A k \in 1..i : k \in Events'
            BY <2>1, <2>4 DEF Events
        <3>2. CASE i \in 1..Len(file)
            <4>1. \A k \in 1..i : k \in 1..Len(file)
                BY <1>d, <3>2
            <4>2. \A k \in 1..i : k \in Events /\ file'[k] = file[k]
                BY <2>3, <3>1, <4>1
            <4>3. i \in 1..i
                BY <3>1
            <4>4. PICK j \in 1..(i - 1) : file[j].hash = file[i].prev
                BY <1>0, <1>d, <2>4, <3>2, <4>2, <4>3 DEF ParentsPrecede, Events
            <4>5. j \in 1..i
                BY <3>1
            <4> QED
                BY <4>2, <4>3, <4>4, <4>5
        <3>3. CASE i \notin 1..Len(file)
            <4>a. i \in Events'
                BY <3>1
            <4>1. /\ i = Len(file) + 1 /\ file'[i] = e
                  /\ \A j \in 1..Len(file) : file'[j] = file[j]
                BY <1>d, <2>2, <3>3, <4>a DEF Events
            <4>2. \A j \in 1..Len(file) : j \in 1..i
                BY <1>d, <4>1
            <4>3. Readable(file)
                BY <1>d, <2>4, <4>1, <4>2 DEF Readable
            <4>4. e = PreparedEvent(w) /\ e.prev = seen[w]
                BY <1>2, <4>1, <4>a, SealFacts DEF PreparedEvent, Events
            <4>5. PICK j \in DOMAIN file : file[j].hash = seen[w]
                BY <1>0, <1>2, <2>4, <4>1, <4>3, <4>4 DEF SeenIsPresent, Linking
            <4>6. j \in 1..(i - 1)
                BY <1>d, <4>1
            <4> QED
                BY <1>d, <4>1, <4>4, <4>5, <4>6
        <3> QED
            BY <3>2, <3>3
    <2>5. ASSUME NEW v \in Writer, Linking(v)', Readable(file'), seen'[v] # NoHash
          PROVE  \E j \in DOMAIN file' : file'[j].hash = seen'[v]
        <3>1. Linking(v) /\ seen'[v] = seen[v]
            BY <1>0, <1>2, <2>5 DEF Idle, Linking, TypeOK
        <3>2. 1..Len(file) \subseteq 1..Len(file')
            BY <1>d, <2>1
        <3>3. \A j \in 1..Len(file) : j \in Events /\ file'[j] = file[j]
            BY <2>1, <2>3, <2>5, <3>2 DEF Readable, Events
        <3>4. PICK j \in DOMAIN file : file[j].hash = seen[v]
            BY <1>0, <1>d, <2>5, <3>1, <3>3 DEF SeenIsPresent, Readable, Events
        <3> QED
            BY <1>d, <2>1, <3>1, <3>2, <3>3, <3>4
    <2> QED
        BY <2>4, <2>5 DEF ParentsPrecede, SeenIsPresent, Readable
<1>3. ASSUME NEW w \in Writer, phase[w] = "linked", Idle(w), UNCHANGED <<file, used>>
      PROVE  ParentsPrecede' /\ SeenIsPresent'
    <2>1. \A v \in Writer : Linking(v)' => Linking(v) /\ seen'[v] = seen[v]
        BY <1>0, <1>3 DEF Idle, Linking, TypeOK
    <2> QED
        BY <1>0, <1>3, <2>1 DEF ParentsPrecede, SeenIsPresent, Readable
<1>4. ASSUME PowerLoss, Cut(file, file') PROVE ParentsPrecede' /\ SeenIsPresent'
    <2>1. SeenIsPresent'
        BY <1>4 DEF PowerLoss, Linking, SeenIsPresent
    <2>2. /\ Len(file') \in Nat /\ DOMAIN file' = 1..Len(file') /\ Len(file') <= Len(file)
          /\ \A i \in Events' : i \in Events /\ file'[i] = file[i]
        BY <1>0, <1>4, CutEvents
    <2>3. ASSUME NEW i \in DOMAIN file', \A k \in 1..i : file'[k].ok,
                 file'[i].prev # NoHash
          PROVE  \E j \in 1..(i - 1) : file'[j].hash = file'[i].prev
        <3>1. i \in Nat /\ i \in 1..i /\ \A k \in 1..i : k \in 1..Len(file')
            BY <2>2
        <3>2. \A k \in 1..i : k \in Events /\ file'[k] = file[k]
            BY <2>2, <2>3, <3>1 DEF Events
        <3>3. PICK j \in 1..(i - 1) : file[j].hash = file[i].prev
            BY <1>0, <2>3, <3>1, <3>2 DEF ParentsPrecede, Events
        <3>4. j \in 1..i
            BY <3>1
        <3> QED
            BY <3>1, <3>2, <3>3, <3>4
    <2> QED
        BY <2>1, <2>3 DEF ParentsPrecede
<1>5. ASSUME UNCHANGED vars PROVE ParentsPrecede' /\ SeenIsPresent'
    BY <1>0, <1>5 DEF vars, ParentsPrecede, SeenIsPresent, Linking, Readable
<1> QED
    BY <1>0, <1>1, <1>2, <1>3, <1>4, <1>5, FileSteps

\* Every step keeps siblings by distinct writers, and a linking writer from having
\* used what it saw.
LEMMA SiblingsStep ==
    IInv /\ [Next]_vars => SiblingsHaveDistinctWriters' /\ SeenIsUnusedByWriter'
<1> SUFFICES ASSUME IInv, [Next]_vars
             PROVE  SiblingsHaveDistinctWriters' /\ SeenIsUnusedByWriter'
    OBVIOUS
<1>0. /\ TypeOK /\ ContentsAreFresh /\ ParentsPrecede /\ IsFile(file)
      /\ SiblingsHaveDistinctWriters /\ SeenIsUnusedByWriter
    BY DEF IInv, TypeOK, IsFile
<1>d. Len(file) \in Nat /\ DOMAIN file = 1..Len(file)
    BY <1>0, FileShape
<1>1. ASSUME NEW w \in Writer, NEW b \in Body, Prepare(w, b)
      PROVE  SiblingsHaveDistinctWriters' /\ SeenIsUnusedByWriter'
    <2>1. file' = file /\ Events' = Events /\ Readable(file)
        BY <1>1 DEF Prepare, Events
    <2>2. \A v \in Writer : Linking(v)' =>
              (v = w /\ seen'[v] = PreviousHash(file)) \/ (Linking(v) /\ seen'[v] = seen[v])
        BY <1>0, <1>1 DEF Prepare, Linking, TypeOK
    <2>3. ASSUME NEW i \in Events, file[i].prev = PreviousHash(file) PROVE FALSE
        <3>1. i \in 1..Len(file) /\ file # << >>
            BY <1>d, EmptySeq DEF Events
        <3>2. /\ Len(file) \in Events /\ PreviousHash(file) = file[Len(file)].hash
              /\ PreviousHash(file) # NoHash
            BY <1>0, <2>1, <3>1, TailFacts
        <3>3. \A k \in 1..i : k \in Events
            BY <1>d, <2>1, <3>1 DEF Readable, Events
        <3>4. PICK j \in 1..(i - 1) : file[j].hash = file[i].prev
            BY <1>0, <1>d, <2>3, <3>1, <3>2, <3>3 DEF ParentsPrecede, Events
        <3>a. i \in Nat /\ i <= Len(file)
            BY <1>d, <3>1
        <3>b. j \in 1..i /\ j < i
            BY <3>a
        <3>5. j \in 1..i /\ j # Len(file)
            BY <3>a, <3>b
        <3>6. file[j].hash = <<file[j].prev, file[j].body>>
            BY <1>0, <3>3, <3>5, LineFacts DEF TypeOK, Events
        <3>7. file[Len(file)].hash = <<file[Len(file)].prev, file[Len(file)].body>>
            BY <1>0, <3>2, LineFacts DEF TypeOK, Events
        <3>8. file[j].body = file[Len(file)].body
            BY <2>3, <3>2, <3>4, <3>6, <3>7
        <3> QED
            BY <1>0, <3>2, <3>3, <3>5, <3>8 DEF ContentsAreFresh
    <2>4. SeenIsUnusedByWriter'
        BY <1>0, <2>1, <2>2, <2>3 DEF SeenIsUnusedByWriter
    <2> QED
        BY <1>0, <2>1, <2>4 DEF SiblingsHaveDistinctWriters
<1>2. ASSUME NEW w \in Writer, phase[w] = "linked", Idle(w), used' = used,
             NEW e \in {Malformed, PreparedEvent(w)}, Grown(file, file', e)
      PROVE  SiblingsHaveDistinctWriters' /\ SeenIsUnusedByWriter'
    <2>1. \A i \in Events' :
              \/ i \in Events /\ file'[i] = file[i]
              \/ i = Len(file) + 1 /\ file'[i] = PreparedEvent(w)
        BY <1>0, <1>2, GrownEvents, SealFacts DEF Events
    <2>2. /\ PreparedEvent(w).prev = seen[w] /\ PreparedEvent(w).body = pending[w]
          /\ pending[w][1] = w
        BY <1>0, <1>2, SealFacts DEF PreparedEvent, ContentsAreFresh, Linking
    <2>3. \A v \in Writer : Linking(v)' => v # w /\ Linking(v) /\ seen'[v] = seen[v]
        BY <1>0, <1>2 DEF Idle, Linking, TypeOK
    <2>4. \A i \in Events : file[i].body[1] = w => file[i].prev # seen[w]
        BY <1>0, <1>2 DEF SeenIsUnusedByWriter, Linking
    <2>5. SiblingsHaveDistinctWriters'
        BY <1>0, <2>1, <2>2, <2>4 DEF SiblingsHaveDistinctWriters
    <2>6. SeenIsUnusedByWriter'
        BY <1>0, <2>1, <2>2, <2>3 DEF SeenIsUnusedByWriter
    <2> QED
        BY <2>5, <2>6
<1>3. ASSUME NEW w \in Writer, phase[w] = "linked", Idle(w), UNCHANGED <<file, used>>
      PROVE  SiblingsHaveDistinctWriters' /\ SeenIsUnusedByWriter'
    <2>1. \A v \in Writer : Linking(v)' => Linking(v) /\ seen'[v] = seen[v]
        BY <1>0, <1>3 DEF Idle, Linking, TypeOK
    <2> QED
        BY <1>0, <1>3, <2>1 DEF SiblingsHaveDistinctWriters, SeenIsUnusedByWriter, Events
<1>4. ASSUME PowerLoss, Cut(file, file')
      PROVE  SiblingsHaveDistinctWriters' /\ SeenIsUnusedByWriter'
    <2>1. \A v \in Writer : ~Linking(v)'
        BY <1>4 DEF PowerLoss, Linking
    <2>2. \A i \in Events' : i \in Events /\ file'[i] = file[i]
        BY <1>0, <1>4, CutEvents
    <2> QED
        BY <1>0, <2>1, <2>2 DEF SiblingsHaveDistinctWriters, SeenIsUnusedByWriter
<1>5. ASSUME UNCHANGED vars
      PROVE  SiblingsHaveDistinctWriters' /\ SeenIsUnusedByWriter'
    BY <1>0, <1>5 DEF vars, SiblingsHaveDistinctWriters, SeenIsUnusedByWriter,
                      Events, Linking
<1> QED
    BY <1>0, <1>1, <1>2, <1>3, <1>4, <1>5, FileSteps

\* A failure that has happened has happened.
LEMMA FailuresStay == [Next]_vars => failures \subseteq failures'
BY DEF Next, Prepare, Write, TornWrite, Kill, PowerLoss, vars

\* Every step keeps the acknowledged events, until storage fails.
LEMMA AckedStep == IInv /\ [Next]_vars => AckedEventsStay' /\ NoTornTail'
<1> SUFFICES ASSUME IInv, [Next]_vars, failures' \subseteq {"kill"}
             PROVE  terminated' /\ \A e \in acked' : \E i \in DOMAIN file' : file'[i] = e
    BY DEF AckedEventsStay, NoTornTail
<1>a. failures \subseteq failures'
    BY FailuresStay
<1>0. /\ IsFile(file) /\ terminated
      /\ \A e \in acked : \E i \in DOMAIN file : file[i] = e
    BY <1>a DEF IInv, TypeOK, IsFile, AckedEventsStay, NoTornTail
<1> DEFINE Goal == terminated' /\ \A e \in acked' : \E i \in DOMAIN file' : file'[i] = e
<1>1. ASSUME NEW w \in Writer, NEW b \in Body, Prepare(w, b) PROVE Goal
    BY <1>0, <1>1 DEF Prepare
<1>2. ASSUME NEW w \in Writer, Write(w) PROVE Goal
    <2>1. /\ file' = Append(file, PreparedEvent(w)) /\ terminated'
          /\ acked' = acked \cup {PreparedEvent(w)}
        BY <1>0, <1>2 DEF Write, AppendLine
    <2>2. /\ Len(file) \in Nat /\ DOMAIN file = 1..Len(file)
          /\ DOMAIN file' = 1..(Len(file) + 1)
          /\ \A i \in 1..Len(file) : file'[i] = file[i]
          /\ file'[Len(file) + 1] = PreparedEvent(w)
        BY <1>0, <2>1, AppendShape, FileShape
    <2>3. Len(file) + 1 \in DOMAIN file' /\ DOMAIN file \subseteq DOMAIN file'
        BY <2>2
    <2>4. ASSUME NEW e \in acked' PROVE \E i \in DOMAIN file' : file'[i] = e
        BY <1>0, <2>1, <2>2, <2>3
    <2> QED
        BY <2>1, <2>4
<1>3. ASSUME NEW w \in Writer, TornWrite(w) PROVE Goal
    BY <1>3 DEF TornWrite
<1>4. ASSUME NEW w \in Writer, Kill(w) PROVE Goal
    BY <1>0, <1>4 DEF Kill
<1>5. ASSUME PowerLoss PROVE Goal
    BY <1>5 DEF PowerLoss
<1>6. ASSUME UNCHANGED vars PROVE Goal
    BY <1>0, <1>6 DEF vars
<1> QED
    BY <1>1, <1>2, <1>3, <1>4, <1>5, <1>6 DEF Next

\* Every step keeps the chain whole where callers take turns.
LEMMA TurnsStep == IInv /\ [Next]_vars => TurnsKeepTheChain'
<1> DEFINE Turns == \A w \in Writer : Linking(w) =>
                        /\ \A v \in Writer : Linking(v) => v = w
                        /\ Readable(file) /\ seen[w] = PreviousHash(file)
           AllSound == /\ \A i \in Events : Sound(file, i)
                       /\ \A i \in DOMAIN file : i < Len(file) => i \in Events
<1> SUFFICES ASSUME IInv, [Next]_vars, Exclusive PROVE Turns' /\ AllSound'
    BY DEF TurnsKeepTheChain
<1>0. TypeOK /\ IsFile(file) /\ Turns /\ AllSound
    BY DEF IInv, TypeOK, IsFile, TurnsKeepTheChain
<1>d. Len(file) \in Nat /\ DOMAIN file = 1..Len(file)
    BY <1>0, FileShape
<1>s. ASSUME file' = file PROVE AllSound'
    BY <1>0, <1>s DEF Events
<1>1. ASSUME NEW w \in Writer, NEW b \in Body, Prepare(w, b) PROVE Turns' /\ AllSound'
    <2>1. file' = file /\ Readable(file) /\ \A v \in Writer : ~Linking(v)
        BY <1>0, <1>1 DEF Prepare, Linking, TypeOK
    <2>2. \A v \in Writer : Linking(v)' => v = w /\ seen'[v] = PreviousHash(file)
        BY <1>0, <1>1, <2>1 DEF Prepare, Linking, TypeOK
    <2> QED
        BY <1>s, <2>1, <2>2
<1>2. ASSUME NEW w \in Writer, phase[w] = "linked", Idle(w), used' = used,
             NEW e \in {Malformed, PreparedEvent(w)}, Grown(file, file', e)
      PROVE  Turns' /\ AllSound'
    <2>1. /\ Readable(file) /\ seen[w] = PreviousHash(file)
          /\ \A v \in Writer : Linking(v) => v = w
        BY <1>0, <1>2 DEF Linking
    <2>2. \A v \in Writer : ~Linking(v)'
        BY <1>0, <1>2, <2>1 DEF Idle, Linking, TypeOK
    <2>3. /\ Len(file') \in Nat /\ DOMAIN file' = 1..Len(file')
          /\ Len(file) <= Len(file')
          /\ \A i \in 1..Len(file) :
                (file'[i] = file[i]) \/ (i = Len(file') /\ file'[i] = Malformed)
        BY <1>0, <1>2, GrownEvents
    <2>a. Len(file') = Len(file) + 1 \/ Len(file') = Len(file)
        BY <1>2 DEF Grown
    <2>4. ASSUME NEW i \in DOMAIN file', i < Len(file')
          PROVE  i \in Events' /\ i \in 1..Len(file) /\ file'[i] = file[i]
        <3>a. i \in 1..Len(file') /\ Len(file') \in Nat /\ i < Len(file')
            BY ONLY <2>3, <2>4
        <3>1. i \in 1..Len(file) /\ i # Len(file')
            BY ONLY <1>d, <2>a, <3>a
        <3>2. file'[i] = file[i] /\ file[i].ok
            BY <1>d, <2>1, <2>3, <3>1 DEF Readable
        <3> QED
            BY <3>1, <3>2 DEF Events
    <2>5. ASSUME NEW i \in Events' PROVE Sound(file', i)
        <3>1. \/ i \in Events /\ file'[i] = file[i]
              \/ /\ i = Len(file) + 1 /\ file'[i] = PreparedEvent(w)
                 /\ \A j \in 1..Len(file) : file'[j] = file[j]
            BY <1>0, <1>2, <2>5, GrownEvents, SealFacts DEF Events
        <3>2. i \in 1..Len(file')
            BY <2>3 DEF Events
        <3>3. CASE i \in Events /\ file'[i] = file[i]
            <4>1. Sound(file, i)
                BY <1>0, <3>3
            <4>a. Len(file') \in Nat
                BY <2>3
            <4>b. i # 1 => i - 1 \in 1..Len(file') /\ i - 1 < Len(file')
                BY ONLY <3>2, <4>a
            <4>2. i # 1 => i - 1 \in DOMAIN file' /\ i - 1 < Len(file')
                BY <2>3, <4>b
            <4>3. i # 1 => file'[i - 1] = file[i - 1]
                BY <2>4, <4>2
            <4> QED
                BY <3>3, <4>1, <4>3 DEF Sound, Linked
        <3>4. CASE /\ i = Len(file) + 1 /\ file'[i] = PreparedEvent(w)
                   /\ \A j \in 1..Len(file) : file'[j] = file[j]
            <4>1. file'[i].ok /\ Intact(file'[i]) /\ file'[i].prev = PreviousHash(file)
                BY <2>1, <3>4, SealFacts DEF PreparedEvent, SealEvent, Intact
            <4>2. CASE file = << >>
                <5>1. i = 1
                    BY <3>4, <4>2, EmptySeq
                <5> QED
                    BY <4>1, <4>2, <5>1 DEF Sound, Linked, PreviousHash
            <4>3. CASE file # << >>
                <5>1. Len(file) \in Events /\ PreviousHash(file) = file[Len(file)].hash
                    BY <1>0, <2>1, <4>3, TailFacts
                <5>2. i # 1 /\ i - 1 = Len(file) /\ Len(file) \in 1..Len(file)
                    BY <1>d, <3>4, <5>1 DEF Events
                <5>3. file'[i - 1] = file[Len(file)] /\ file[Len(file)].ok
                    BY <3>4, <5>1, <5>2 DEF Events
                <5> QED
                    BY <4>1, <5>1, <5>2, <5>3 DEF Sound, Linked
            <4> QED
                BY <4>2, <4>3
        <3> QED
            BY <3>1, <3>3, <3>4
    <2> QED
        BY <2>2, <2>4, <2>5
<1>3. ASSUME NEW w \in Writer, phase[w] = "linked", Idle(w), UNCHANGED <<file, used>>
      PROVE  Turns' /\ AllSound'
    <2>1. \A v \in Writer : ~Linking(v)'
        BY <1>0, <1>3 DEF Idle, Linking, TypeOK
    <2> QED
        BY <1>s, <1>3, <2>1
<1>4. ASSUME PowerLoss, Cut(file, file') PROVE Turns' /\ AllSound'
    <2>1. \A v \in Writer : ~Linking(v)'
        BY <1>4 DEF PowerLoss, Linking
    <2>2. /\ Len(file') \in Nat /\ DOMAIN file' = 1..Len(file') /\ Len(file') <= Len(file)
          /\ \A i \in Events' : i \in Events /\ file'[i] = file[i]
        BY <1>0, <1>4, CutEvents
    <2>3. \A i \in 1..Len(file') :
              file'[i] = file[i] \/ (i = Len(file') /\ file'[i] = Malformed)
        BY <1>4 DEF Cut
    <2>4. ASSUME NEW i \in DOMAIN file', i < Len(file')
          PROVE  i \in Events' /\ file'[i] = file[i]
        <3>1. i \in DOMAIN file /\ i < Len(file) /\ i # Len(file') /\ i \in 1..Len(file')
            BY <1>d, <2>2, <2>4
        <3> QED
            BY <1>0, <2>3, <3>1 DEF Events
    <2>5. ASSUME NEW i \in Events' PROVE Sound(file', i)
        <3>1. i \in 1..Len(file') /\ Sound(file, i) /\ file'[i] = file[i]
            BY <1>0, <2>2 DEF Events
        <3>2. i # 1 => i - 1 \in DOMAIN file' /\ i - 1 < Len(file')
            BY <2>2, <3>1
        <3>3. i # 1 => file'[i - 1] = file[i - 1]
            BY <2>4, <3>2
        <3> QED
            BY <3>1, <3>3 DEF Sound, Linked
    <2> QED
        BY <2>1, <2>4, <2>5
<1>5. ASSUME UNCHANGED vars PROVE Turns' /\ AllSound'
    BY <1>0, <1>5, <1>s DEF vars, Linking
<1> QED
    BY <1>0, <1>1, <1>2, <1>3, <1>4, <1>5, FileSteps

-----------------------------------------------------------------------------
(* The theorems.                                                           *)

\* The inductive invariant holds at first.
LEMMA InitIInv == Init => IInv
<1> SUFFICES ASSUME Init PROVE IInv
    OBVIOUS
<1>1. file = << >> /\ DOMAIN file = {} /\ Events = {}
    BY EmptySeq, LenProperties DEF Init, Events
<1>2. \A w \in Writer : ~Linking(w)
    BY DEF Init, Linking
<1>3. acked = {} /\ terminated
    BY DEF Init
<1> QED
    BY <1>1, <1>2, <1>3, InitTypeOK
    DEF IInv, ContentsAreFresh, ParentsPrecede, SeenIsPresent,
        SiblingsHaveDistinctWriters, SeenIsUnusedByWriter, AckedEventsStay,
        NoTornTail, TurnsKeepTheChain

\* The inductive invariant is inductive.
LEMMA StepIInv == IInv /\ [Next]_vars => IInv'
BY TypeStep, ContentsStep, ParentsStep, SiblingsStep, AckedStep, TurnsStep DEF IInv

\* The strengthening holds of every reachable state of the append protocol,
\* whatever the writers, the faults and the scheduling.
THEOREM Invariance == Spec => []IInv
BY InitIInv, StepIInv, PTL DEF Spec

\* The state of the file and of the writers keeps its type.
THEOREM TypeCorrect == Spec => []TypeOK
<1>1. IInv => TypeOK
    BY DEF IInv
<1> QED
    BY <1>1, Invariance, PTL

\* No event of a readable prefix links to an event that is missing from it
\* (HashChainWriter.prepare and write, two steps with nothing held between).
THEOREM ParentsAlwaysPrecede == Spec => []ParentsPrecede
<1>1. IInv => ParentsPrecede
    BY DEF IInv
<1> QED
    BY <1>1, Invariance, PTL

\* Racing appends fork the chain, but each writer is on its own branch.
THEOREM ForksAreBounded == Spec => []SiblingsHaveDistinctWriters
<1>1. IInv => SiblingsHaveDistinctWriters
    BY DEF IInv
<1> QED
    BY <1>1, Invariance, PTL

\* Until storage fails, an event append has returned is never lost.
THEOREM AcksAreKept == Spec => []AckedEventsStay
<1>1. IInv => AckedEventsStay
    BY DEF IInv
<1> QED
    BY <1>1, Invariance, PTL

\* The first defect the verifier stops at is a defect.
LEMMA FirstDefectExists ==
    ASSUME IsFile(file), Defects(file) # {}
    PROVE  FirstDefect(file) \in Defects(file)
<1>1. Defects(file) \subseteq Nat
    BY FileShape DEF Defects
<1>2. \E i \in Defects(file) : \A j \in Defects(file) : ~(<<j, i>> \in OpToRel(<, Nat))
    BY <1>1, NatLessThanWellFounded, WFMin
<1>3. ASSUME NEW i \in Nat, NEW j \in Nat, j < i PROVE <<j, i>> \in OpToRel(<, Nat)
    BY <1>3 DEF OpToRel
<1>4. PICK i \in Defects(file) : \A j \in Defects(file) : ~(j < i)
    BY <1>1, <1>2, <1>3
<1>5. \A j \in Defects(file) : i <= j
    BY <1>1, <1>4
<1> QED
    BY <1>5 DEF FirstDefect

\* Callers that take turns never produce a broken chain, whatever fails: the
\* verifier says valid or raises on a line that does not parse.
THEOREM TurnsNeverBreak == Spec => []ExclusiveNeverBroken
<1>1. IInv => ExclusiveNeverBroken
    <2> SUFFICES ASSUME IInv, Exclusive PROVE Verify(file).outcome # "broken"
        BY DEF ExclusiveNeverBroken
    <2>1. IsFile(file) /\ \A i \in Events : Sound(file, i)
        BY DEF IInv, TypeOK, IsFile, TurnsKeepTheChain
    <2>2. CASE Defects(file) = {}
        BY <2>2 DEF Verify
    <2>3. CASE Defects(file) # {}
        <3>1. FirstDefect(file) \in Defects(file)
            BY <2>1, <2>3, FirstDefectExists
        <3>2. ~file[FirstDefect(file)].ok
            BY <2>1, <3>1 DEF Defects, Events
        <3> QED
            BY <2>3, <3>2 DEF Verify
    <2> QED
        BY <2>2, <2>3
<1> QED
    BY <1>1, Invariance, PTL

\* An append never repairs a line the verifier stops at.
THEOREM DefectsAreForever == Spec => DefectsStay
<1>1. ASSUME IInv, [Next]_vars
      PROVE  [Defects(file) \subseteq Defects(file)' \/ PowerLoss]_vars
    <2>0. TypeOK /\ IsFile(file)
        BY <1>1 DEF IInv, TypeOK, IsFile
    <2>1. ASSUME NEW w \in Writer, NEW e \in {Malformed, PreparedEvent(w)},
                 Grown(file, file', e)
          PROVE  Defects(file) \subseteq Defects(file)'
        <3>1. /\ Len(file) \in Nat /\ DOMAIN file = 1..Len(file)
              /\ Len(file') \in Nat /\ DOMAIN file' = 1..Len(file')
              /\ Len(file) <= Len(file')
              /\ \A i \in 1..Len(file) :
                    (file'[i] = file[i]) \/ (i = Len(file') /\ file'[i] = Malformed)
            BY <2>0, <2>1, GrownEvents
        <3>2. ASSUME NEW i \in 1..Len(file), Sound(file', i) PROVE Sound(file, i)
            <4>1. file'[i] = file[i]
                BY <3>1, <3>2, SealFacts DEF Sound
            <4>3. i # 1 => i - 1 \in 1..Len(file) /\ i - 1 # Len(file')
                BY <3>1, LineBefore
            <4>4. i # 1 => file'[i - 1] = file[i - 1]
                BY <3>1, <4>3
            <4> QED
                BY <3>2, <4>1, <4>4 DEF Sound, Linked
        <3>3. 1..Len(file) \subseteq 1..Len(file')
            BY <3>1
        <3> QED
            BY <3>1, <3>2, <3>3 DEF Defects
    <2>2. ASSUME file' = file PROVE Defects(file) \subseteq Defects(file)'
        BY <2>2 DEF Defects
    <2> QED
        BY <1>1, <2>0, <2>1, <2>2, FileSteps DEF Prepare, vars
<1> QED
    BY <1>1, Invariance, PTL DEF Spec, DefectsStay

-----------------------------------------------------------------------------
(* The file implements the chain of HashChain when callers take turns.     *)

\* Where nothing fails either, a step appends one linked event or stutters.
THEOREM TurnsImplementChain ==
    ASSUME Exclusive, Faults = {}
    PROVE  Spec => ImplementsChain
<1>1. Init => Chain!Init
    BY DEF Init, Chain!Init
<1>2. ASSUME IInv, [Next]_vars
      PROVE  [\E b \in Body : Chain!Extend(b)]_file
    <2>0. TypeOK /\ ContentsAreFresh /\ terminated
          /\ \A w \in Writer : Linking(w) => seen[w] = PreviousHash(file)
        BY <1>2 DEF IInv, NoTornTail, TurnsKeepTheChain, TypeOK
    <2>1. ASSUME NEW w \in Writer, Write(w) PROVE \E b \in Body : Chain!Extend(b)
        <3>1. file' = Append(file, SealEvent(PreviousHash(file), pending[w]))
            BY <2>0, <2>1 DEF Write, Linking, AppendLine, PreparedEvent
        <3>2. pending[w] \in Body
            BY <2>0, <2>1 DEF Write, Linking, ContentsAreFresh, TypeOK
        <3> QED
            BY <3>1, <3>2 DEF Chain!Extend, Chain!SealEvent, Chain!PreviousHash,
                              SealEvent, PreviousHash, Chain!NoHash, NoHash,
                              Chain!NoSignature, NoSignature,
                              Chain!EventHash, EventHash
    <2>2. ASSUME NEW w \in Writer, TornWrite(w) PROVE FALSE
        BY <2>2 DEF TornWrite
    <2>3. ASSUME PowerLoss PROVE FALSE
        BY <2>3 DEF PowerLoss
    <2> QED
        BY <1>2, <2>1, <2>2, <2>3 DEF Next, Prepare, Kill, vars
<1> QED
    BY <1>1, <1>2, Invariance, PTL DEF Spec, ImplementsChain, Chain!Spec

\* Every prefix of a file whose lines but the last parse is the readable part
\* of it or a prefix of that.
LEMMA ReadableShape ==
    ASSUME IsFile(file), \A i \in DOMAIN file : i < Len(file) => file[i].ok
    PROVE  /\ Readable(file) => ReadablePart = file
           /\ ~Readable(file) => /\ Len(file) > 0 /\ ~file[Len(file)].ok
                                /\ ReadablePart = SubSeq(file, 1, Len(file) - 1)
<1>1. Len(file) \in Nat /\ DOMAIN file = 1..Len(file)
    BY FileShape
<1>2. file # << >> => Len(file) \in DOMAIN file
    BY <1>1, EmptySeq DEF IsFile
<1>3. CASE Readable(file)
    BY <1>2, <1>3 DEF Readable, ReadablePart
<1>4. CASE ~Readable(file)
    <2>1. PICK i \in 1..Len(file) : ~file[i].ok
        BY <1>1, <1>4 DEF Readable
    <2>a. ~(i < Len(file))
        BY <1>1, <2>1
    <2>2. i = Len(file) /\ Len(file) > 0
        BY <1>1, <2>a, LastLine
    <2>3. file # << >>
        BY <2>2, EmptySeq
    <2> QED
        BY <1>4, <2>1, <2>2, <2>3 DEF ReadablePart
<1> QED
    BY <1>3, <1>4

\* Files are equal when their lines are.
LEMMA FileEqual ==
    ASSUME NEW f, IsFile(f), NEW g, IsFile(g), Len(f) = Len(g),
           \A i \in 1..Len(f) : f[i] = g[i]
    PROVE  f = g
<1>1. /\ Len(f) \in Nat /\ f \in [1..Len(f) -> {f[i] : i \in DOMAIN f}]
      /\ Len(g) \in Nat /\ g \in [1..Len(g) -> {g[i] : i \in DOMAIN g}]
    BY LenProperties DEF IsFile
<1> QED
    BY <1>1

\* What is left of the readable part when the file keeps its first n lines,
\* all of which parse, and perhaps one more that does not.
LEMMA CutReadable ==
    ASSUME IsFile(file), IsFile(file'), NEW n \in 0..Len(file),
           \A i \in 1..n : file'[i] = file[i] /\ file[i].ok,
           Len(file') = n \/ (Len(file') = n + 1 /\ ~file'[n + 1].ok)
    PROVE  ReadablePart' = SubSeq(file, 1, n)
<1>1. /\ Len(file) \in Nat /\ n \in Nat
      /\ IsFile(SubSeq(file, 1, n)) /\ Len(SubSeq(file, 1, n)) = n
      /\ \A i \in 1..n : SubSeq(file, 1, n)[i] = file[i]
    BY FileShape, PrefixShape
<1>2. CASE Len(file') = n
    <2>1. file' = SubSeq(file, 1, n)
        BY <1>1, <1>2, FileEqual
    <2>2. file' # << >> => n \in 1..n
        BY <1>1, <1>2, EmptySeq DEF IsFile
    <2> QED
        BY <1>2, <2>1, <2>2 DEF ReadablePart
<1>3. CASE Len(file') = n + 1 /\ ~file'[n + 1].ok
    <2>0. n \in 0..Len(file') /\ n + 1 - 1 = n
        BY <1>1, <1>3
    <2>1. /\ IsFile(SubSeq(file', 1, n)) /\ Len(SubSeq(file', 1, n)) = n
          /\ \A i \in 1..n : SubSeq(file', 1, n)[i] = file'[i]
        BY <2>0, PrefixShape
    <2>2. SubSeq(file', 1, n) = SubSeq(file, 1, n)
        BY <1>1, <2>1, FileEqual
    <2>3. file' # << >>
        BY <1>1, <1>3, EmptySeq
    <2> QED
        BY <1>3, <2>0, <2>2, <2>3 DEF ReadablePart
<1> QED
    BY <1>2, <1>3

\* Such a file has lost a suffix of its readable part.
LEMMA CutLoses ==
    ASSUME IsFile(file), \A i \in DOMAIN file : i < Len(file) => file[i].ok,
           NEW n \in 0..Len(file), n < Len(file) \/ Readable(file),
           ReadablePart' = SubSeq(file, 1, n)
    PROVE  LossyChain!Lose
<1>1. Len(file) \in Nat
    BY FileShape
<1>2. CASE Readable(file)
    BY <1>2, ReadableShape DEF LossyChain!Lose
<1>3. CASE ~Readable(file)
    <2>1. Len(file) > 0 /\ ReadablePart = SubSeq(file, 1, Len(file) - 1) /\ n < Len(file)
        BY <1>3, ReadableShape
    <2>2. Len(file) - 1 \in 0..Len(file) /\ n \in 0..(Len(file) - 1)
        BY <1>1, <2>1
    <2>3. /\ IsFile(ReadablePart) /\ Len(ReadablePart) = Len(file) - 1
          /\ \A i \in 1..(Len(file) - 1) : ReadablePart[i] = file[i]
        BY <2>1, <2>2, PrefixShape
    <2>4. /\ IsFile(SubSeq(ReadablePart, 1, n)) /\ Len(SubSeq(ReadablePart, 1, n)) = n
          /\ \A i \in 1..n : SubSeq(ReadablePart, 1, n)[i] = ReadablePart[i]
        BY <2>2, <2>3, PrefixShape
    <2>5. /\ IsFile(SubSeq(file, 1, n)) /\ Len(SubSeq(file, 1, n)) = n
          /\ \A i \in 1..n : SubSeq(file, 1, n)[i] = file[i]
        BY PrefixShape
    <2>6. \A i \in 1..n : i \in 1..(Len(file) - 1)
        BY <1>1, <2>2
    <2>7. SubSeq(ReadablePart, 1, n) = SubSeq(file, 1, n)
        BY <2>3, <2>4, <2>5, <2>6, FileEqual
    <2> QED
        BY <2>2, <2>3, <2>7 DEF LossyChain!Lose
<1> QED
    BY <1>2, <1>3

\* A line written after a readable file extends it, tears it or cuts it.
LEMMA GrownRefines ==
    ASSUME IsFile(file), Readable(file), NEW t \in BOOLEAN, NEW b \in Body,
           NEW e \in {Malformed, SealEvent(PreviousHash(file), b)},
           file' = AppendLine(file, t, e)
    PROVE  [LossyChain!Lose \/ \E c \in Body : LossyChain!Extend(c)]_ReadablePart
<1>1. /\ Len(file) \in Nat /\ DOMAIN file = 1..Len(file) /\ ReadablePart = file
      /\ \A i \in 1..Len(file) : file[i].ok
      /\ \A i \in DOMAIN file : i < Len(file) => file[i].ok
    BY FileShape, ReadableShape DEF Readable
<1>2. CASE file' = Append(file, e)
    <2>1. /\ IsFile(file') /\ Len(file') = Len(file) + 1 /\ file'[Len(file) + 1] = e
          /\ \A i \in 1..Len(file) : file'[i] = file[i]
        BY <1>2, AppendShape
    <2>2. CASE e = Malformed
        <3>1. Len(file) \in 0..Len(file)
            BY <1>1
        <3>2. ReadablePart' = SubSeq(file, 1, Len(file))
            BY <1>1, <2>1, <2>2, <3>1, CutReadable, SealFacts
        <3> QED
            BY <1>1, <3>1, <3>2, CutLoses
    <2>3. CASE e = SealEvent(PreviousHash(file), b)
        <3>1. ReadablePart' = file'
            BY <2>1, <2>3, SealFacts DEF ReadablePart
        <3> QED
            BY <1>1, <1>2, <2>3, <3>1
            DEF LossyChain!Extend, LossyChain!SealEvent, LossyChain!PreviousHash,
                SealEvent, PreviousHash, LossyChain!NoHash, NoHash,
                LossyChain!NoSignature, NoSignature,
                LossyChain!EventHash, EventHash
    <2> QED
        BY <2>2, <2>3
<1>3. CASE file # << >> /\ file' = [file EXCEPT ![Len(file)] = Malformed]
    <2>1. Len(file) > 0 /\ Len(file) \in DOMAIN file /\ Len(file) - 1 \in 0..Len(file)
          /\ Len(file) - 1 < Len(file) /\ Len(file) - 1 + 1 = Len(file)
        BY <1>1, <1>3, EmptySeq DEF IsFile
    <2>a. /\ IsFile(file') /\ Len(file') = Len(file)
          /\ \A i \in DOMAIN file :
                file'[i] = IF i = Len(file) THEN Malformed ELSE file[i]
        <3> DEFINE g == [file EXCEPT ![Len(file)] = Malformed]
        <3>1. /\ IsFile(g) /\ Len(g) = Len(file)
              /\ \A i \in DOMAIN file : g[i] = IF i = Len(file) THEN Malformed ELSE file[i]
            BY <2>1, ExceptShape
        <3>2. file' = g
            BY <1>3
        <3> HIDE DEF g
        <3> QED
            BY <3>1, <3>2
    <2>2. /\ IsFile(file') /\ Len(file') = Len(file)
          /\ file'[Len(file)] = Malformed
          /\ \A i \in DOMAIN file : i # Len(file) => file'[i] = file[i]
        BY <2>1, <2>a
    <2>3. \A i \in 1..(Len(file) - 1) : i \in DOMAIN file /\ i # Len(file)
        BY <1>1, FrontLine
    <2>4. ReadablePart' = SubSeq(file, 1, Len(file) - 1)
        BY <1>1, <2>1, <2>2, <2>3, CutReadable, SealFacts
    <2> QED
        BY <1>1, <2>1, <2>4, CutLoses
<1> QED
    BY <1>2, <1>3 DEF AppendLine

\* Whatever fails, a step of callers that take turns extends the readable part
\* by one linked event, loses a suffix of it, or leaves it.
THEOREM TurnsImplementLossyChain ==
    ASSUME Exclusive
    PROVE  Spec => ImplementsLossyChain
<1>1. Init => LossyChain!Init
    BY DEF Init, LossyChain!Init, ReadablePart
<1>2. ASSUME IInv, [Next]_vars
      PROVE  [LossyChain!Lose \/ \E b \in Body : LossyChain!Extend(b)]_ReadablePart
    <2>0. /\ TypeOK /\ ContentsAreFresh /\ IsFile(file)
          /\ \A w \in Writer : Linking(w) => Readable(file) /\ seen[w] = PreviousHash(file)
          /\ \A i \in DOMAIN file : i < Len(file) => file[i].ok
        BY <1>2 DEF IInv, TurnsKeepTheChain, TypeOK, IsFile, Events
    <2>1. ASSUME NEW w \in Writer, phase[w] = "linked",
                 NEW e \in {Malformed, PreparedEvent(w)},
                 file' = AppendLine(file, terminated, e)
          PROVE  [LossyChain!Lose \/ \E b \in Body : LossyChain!Extend(b)]_ReadablePart
        <3>1. /\ Readable(file) /\ terminated \in BOOLEAN /\ pending[w] \in Body
              /\ PreparedEvent(w) = SealEvent(PreviousHash(file), pending[w])
            BY <2>0, <2>1 DEF Linking, ContentsAreFresh, TypeOK, PreparedEvent
        <3> QED
            BY <2>0, <2>1, <3>1, GrownRefines
    <2>2. ASSUME PowerLoss
          PROVE  [LossyChain!Lose \/ \E b \in Body : LossyChain!Extend(b)]_ReadablePart
        <3>d. Len(file) \in Nat /\ DOMAIN file = 1..Len(file)
            BY <2>0, FileShape
        <3>1. PICK n \in 0..Len(file) :
                  \/ file' = SubSeq(file, 1, n)
                  \/ n < Len(file) /\ file' = Append(SubSeq(file, 1, n), Malformed)
            BY <2>2 DEF PowerLoss
        <3>2. /\ IsFile(SubSeq(file, 1, n)) /\ Len(SubSeq(file, 1, n)) = n
              /\ \A i \in 1..n : SubSeq(file, 1, n)[i] = file[i]
            BY <2>0, PrefixShape
        <3>3. IsFile(file') /\ (\A i \in 1..n : file'[i] = file[i])
              /\ (Len(file') = n \/ (Len(file') = n + 1 /\ ~file'[n + 1].ok))
            <4>1. CASE file' = SubSeq(file, 1, n)
                BY <3>2, <4>1
            <4>2. CASE file' = Append(SubSeq(file, 1, n), Malformed)
                <5>1. /\ IsFile(file') /\ Len(file') = n + 1 /\ file'[n + 1] = Malformed
                      /\ \A i \in 1..n : file'[i] = SubSeq(file, 1, n)[i]
                    BY <3>2, <4>2, AppendShape
                <5> QED
                    BY <3>2, <5>1, SealFacts
            <4> QED
                BY <3>1, <4>1, <4>2
        <3>4. CASE n < Len(file) \/ Readable(file)
            <4>1. \A i \in 1..n : i \in DOMAIN file /\ (n < Len(file) => i < Len(file))
                BY <3>d
            <4>2. \A i \in 1..n : file[i].ok
                BY <2>0, <3>4, <4>1 DEF Readable
            <4>3. ReadablePart' = SubSeq(file, 1, n)
                BY <2>0, <3>3, <4>2, CutReadable
            <4> QED
                BY <2>0, <3>4, <4>3, CutLoses
        <3>5. CASE ~(n < Len(file) \/ Readable(file))
            <4>a. ~(n < Len(file)) /\ file' = SubSeq(file, 1, n)
                BY <3>1, <3>5
            <4>1. n = Len(file)
                BY <3>d, <4>a, NotBeforeLast
            <4>2. file' = file
                BY <2>0, <3>2, <4>1, <4>a, FileEqual
            <4> QED
                BY <4>2 DEF ReadablePart
        <3> QED
            BY <3>4, <3>5
    <2>3. ASSUME file' = file PROVE ReadablePart' = ReadablePart
        BY <2>3 DEF ReadablePart
    <2> QED
        BY <1>2, <2>1, <2>2, <2>3 DEF Next, Write, TornWrite, Prepare, Kill, vars
<1> QED
    BY <1>1, <1>2, Invariance, PTL DEF Spec, ImplementsLossyChain, LossyChain!LossySpec
=============================================================================
