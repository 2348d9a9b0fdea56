---------------------------- MODULE VerifyProofs ----------------------------
(* Proofs of the properties of LedgerVerify, for ledgers of any length and   *)
(* any amount of damage.                                                     *)
EXTENDS LedgerVerify, FiniteSetTheorems, SequenceTheorems, TLAPS

-----------------------------------------------------------------------------
(* Damage keeps a file made of known lines.                                *)

\* Losing a line.
LEMMA DeleteShape ==
    ASSUME NEW S, NEW f \in Seq(S), NEW i \in DOMAIN f
    PROVE  Delete(f, i) \in Seq(S)
<1>1. Len(f) \in Nat /\ DOMAIN f = 1..Len(f) /\ \A k \in 1..Len(f) : f[k] \in S
    BY LenProperties
<1>2. i \in Int /\ i - 1 \in Int /\ i + 1 \in Int
    BY <1>1
<1>3. \A k \in 1..(i - 1) : f[k] \in S
    BY <1>1
<1>4. \A k \in (i + 1)..Len(f) : f[k] \in S
    BY <1>1
<1>5. SubSeq(f, 1, i - 1) \in Seq(S)
    BY <1>2, <1>3, SubSeqProperties
<1>6. SubSeq(f, i + 1, Len(f)) \in Seq(S)
    BY <1>1, <1>2, <1>4, SubSeqProperties
<1> QED
    BY <1>5, <1>6, ConcatProperties DEF Delete

\* Adding a line anywhere.
LEMMA InsertShape ==
    ASSUME NEW S, NEW f \in Seq(S), NEW i \in 0..Len(f), NEW line \in S
    PROVE  Insert(f, i, line) \in Seq(S)
<1>1. Len(f) \in Nat /\ DOMAIN f = 1..Len(f) /\ \A k \in 1..Len(f) : f[k] \in S
    BY LenProperties
<1>2. i \in Int /\ i + 1 \in Int
    BY <1>1
<1>3. \A k \in 1..i : f[k] \in S
    BY <1>1
<1>4. \A k \in (i + 1)..Len(f) : f[k] \in S
    BY <1>1
<1>5. SubSeq(f, 1, i) \in Seq(S)
    BY <1>2, <1>3, SubSeqProperties
<1>6. SubSeq(f, i + 1, Len(f)) \in Seq(S)
    BY <1>1, <1>2, <1>4, SubSeqProperties
<1>7. <<line>> \in Seq(S)
    OBVIOUS
<1>8. SubSeq(f, 1, i) \o <<line>> \in Seq(S)
    BY <1>5, <1>7, ConcatProperties
<1> QED
    BY <1>6, <1>8, ConcatProperties DEF Insert

\* Exchanging two lines.
LEMMA SwapShape ==
    ASSUME NEW S, NEW f \in Seq(S), NEW i \in DOMAIN f, NEW j \in DOMAIN f
    PROVE  Swap(f, i, j) \in Seq(S)
<1>1. Len(f) \in Nat /\ DOMAIN f = 1..Len(f) /\ f[i] \in S /\ f[j] \in S
    BY LenProperties
<1> DEFINE g == [f EXCEPT ![i] = f[j]]
<1>2. g \in Seq(S) /\ Len(g) = Len(f)
    BY <1>1, ExceptSeq
<1>3. [g EXCEPT ![j] = f[i]] \in Seq(S)
    BY <1>1, <1>2, ExceptSeq
<1> QED
    BY <1>3 DEF Swap

\* Changing a line without recomputing a hash.
LEMMA ChangeShape ==
    ASSUME NEW f \in Seq(Lines), NEW i \in DOMAIN f, NEW g \in Change(f, i)
    PROVE  g \in Seq(Lines)
<1>1. Len(f) \in Nat /\ i \in 1..Len(f) /\ f[i] \in Lines
    BY LenProperties
<1>2. ASSUME NEW line \in Lines PROVE [f EXCEPT ![i] = line] \in Seq(Lines)
    BY <1>1, ExceptSeq
<1>3. CASE g = [f EXCEPT ![i] = Malformed] \/ g = [f EXCEPT ![i] = Blank]
    BY <1>2, <1>3 DEF Lines
<1>4. ASSUME f[i].ok, NEW h \in KnownHashes, g = [f EXCEPT ![i].prev = h]
      PROVE  g \in Seq(Lines)
    <2>1. [f[i] EXCEPT !.prev = h] \in Lines
        BY <1>1, <1>4 DEF Lines, Malformed, Blank
    <2> QED
        BY <1>2, <1>4, <2>1
<1>5. ASSUME f[i].ok, NEW h \in KnownHashes, g = [f EXCEPT ![i].hash = h]
      PROVE  g \in Seq(Lines)
    <2>1. [f[i] EXCEPT !.hash = h] \in Lines
        BY <1>1, <1>5 DEF Lines, Malformed, Blank
    <2> QED
        BY <1>2, <1>5, <2>1
<1>6. ASSUME f[i].ok, NEW b \in Body, g = [f EXCEPT ![i].body = b]
      PROVE  g \in Seq(Lines)
    <2>1. [f[i] EXCEPT !.body = b] \in Lines
        BY <1>1, <1>6 DEF Lines, Malformed, Blank
    <2> QED
        BY <1>2, <1>6, <2>1
<1>7. ASSUME f[i].ok, NEW s \in Signature, g = [f EXCEPT ![i].signature = s]
      PROVE  g \in Seq(Lines)
    <2>1. [f[i] EXCEPT !.signature = s] \in Lines
        BY <1>1, <1>7 DEF Lines, Malformed, Blank
    <2> QED
        BY <1>2, <1>7, <2>1
<1> QED
    BY <1>3, <1>4, <1>5, <1>6, <1>7 DEF Change

-----------------------------------------------------------------------------
(* The original.                                                           *)

\* The lines of the original, and of a file.
LEMMA Shapes ==
    ASSUME TypeOK
    PROVE  /\ Len(original) \in Nat /\ DOMAIN original = 1..Len(original)
           /\ Len(file) \in Nat /\ DOMAIN file = 1..Len(file)
           /\ \A i \in 1..Len(file) : file[i] \in Lines
           /\ \A i \in 1..Len(original) : original[i] \in Lines
BY LenProperties DEF TypeOK

\* A line that parses is an event, made of what was there.
LEMMA EventShape ==
    ASSUME NEW line \in Lines, line.ok
    PROVE  line \in [ok : {TRUE}, prev : KnownHashes, body : Body,
                     signature : Signature, hash : KnownHashes]
<1>1. ~Malformed.ok /\ ~Blank.ok
    BY DEF Malformed, Blank
<1> QED
    BY <1>1 DEF Lines

\* The hashes of a chain of different events are pairs, and different.
LEMMA HashesDiffer ==
    ASSUME OriginalIsChain, NEW i \in DOMAIN original, NEW j \in DOMAIN original
    PROVE  /\ original[i].hash = <<original[i].prev, original[i].body>>
           /\ original[i].prev = IF i = 1 THEN NoHash ELSE original[i - 1].hash
           /\ original[i].hash # NoHash
           /\ original[i].hash = original[j].hash => i = j
<1>1. ASSUME NEW k \in DOMAIN original
      PROVE  original[k].hash = <<original[k].prev, original[k].body>>
    BY DEF OriginalIsChain, Intact, EventHash
<1>2. original[i].hash # NoHash
    BY <1>1 DEF NoHash
<1>3. original[i].hash = original[j].hash => original[i].body = original[j].body
    BY <1>1
<1> QED
    BY <1>1, <1>2, <1>3 DEF OriginalIsChain

\* A line that is linked to the original's event before it, whose hash is its
\* own and is one that was written, is the original's next event but for its
\* signature.
LEMMA SoundLineIsOriginal ==
    ASSUME TypeOK, OriginalIsChain, NEW k \in Nat \ {0}, NEW line \in Lines,
           line.ok, Intact(line), k - 1 <= Len(original),
           line.prev = IF k = 1 THEN NoHash ELSE original[k - 1].hash
    PROVE  /\ k <= Len(original)
           /\ line.prev = original[k].prev
           /\ line.body = original[k].body
           /\ line.hash = original[k].hash
<1>1. /\ Len(original) \in Nat /\ DOMAIN original = 1..Len(original)
    BY Shapes
<1>2. /\ line.hash \in KnownHashes
      /\ line.hash = <<line.prev, line.body>>
    BY EventShape DEF Intact, EventHash
<1>3. line.hash # NoHash
    BY <1>2 DEF NoHash
<1>4. PICK m \in DOMAIN original : original[m].hash = line.hash
    BY <1>2, <1>3 DEF KnownHashes
<1>5. /\ original[m].prev = line.prev /\ original[m].body = line.body
      /\ original[m].prev = IF m = 1 THEN NoHash ELSE original[m - 1].hash
    BY <1>2, <1>4, HashesDiffer
<1>6. m = k
    <2>1. CASE k = 1
        <3>1. m # 1 => m - 1 \in DOMAIN original
            BY <1>1
        <3> QED
            BY <1>5, <2>1, <3>1, HashesDiffer
    <2>2. CASE k # 1
        <3>1. k - 1 \in DOMAIN original
            BY <1>1, <2>2
        <3>2. line.prev = original[k - 1].hash /\ original[k - 1].hash # NoHash
            BY <2>2, <3>1, HashesDiffer
        <3>3. m # 1
            BY <1>5, <3>2
        <3>4. m - 1 \in DOMAIN original
            BY <1>1, <3>3
        <3>5. original[m - 1].hash = original[k - 1].hash
            BY <1>5, <3>2, <3>3
        <3>6. m - 1 = k - 1
            BY <3>1, <3>4, <3>5, HashesDiffer
        <3> QED
            BY <1>1, <3>6
    <2> QED
        BY <2>1, <2>2
<1> QED
    BY <1>1, <1>4, <1>5, <1>6

-----------------------------------------------------------------------------
(* Counting the lines that are not blank.                                  *)

\* No line, no rank.
LEMMA RankZero == \A f : Rank(f, 0) = 0
<1> TAKE f
<1>1. {j \in 1..0 : f[j] # Blank} = {}
    OBVIOUS
<1> QED
    BY <1>1, FS_EmptySet DEF Rank

\* The lines counted are finitely many.
LEMMA RankFinite ==
    ASSUME NEW f, NEW i \in Nat
    PROVE  /\ IsFiniteSet({j \in 1..i : f[j] # Blank})
           /\ Rank(f, i) \in Nat
<1>1. IsFiniteSet(1..i) /\ {j \in 1..i : f[j] # Blank} \in SUBSET (1..i)
    BY FS_Interval
<1>2. IsFiniteSet({j \in 1..i : f[j] # Blank})
    BY <1>1, FS_Subset
<1> QED
    BY <1>2, FS_CardinalityType DEF Rank

\* One more line counts unless it is blank.
LEMMA RankNext ==
    ASSUME NEW f, NEW i \in Nat
    PROVE  Rank(f, i + 1) = IF f[i + 1] = Blank THEN Rank(f, i) ELSE Rank(f, i) + 1
<1> DEFINE S == {j \in 1..i : f[j] # Blank}
           T == {j \in 1..(i + 1) : f[j] # Blank}
<1>1. \A j \in 1..(i + 1) : j \in 1..i \/ j = i + 1
    OBVIOUS
<1>2. \A j \in 1..i : j \in 1..(i + 1) /\ j # i + 1
    OBVIOUS
<1>3. i + 1 \in 1..(i + 1) /\ i + 1 \notin 1..i
    OBVIOUS
<1>4. IsFiniteSet(S)
    BY RankFinite
<1>5. CASE f[i + 1] = Blank
    <2>1. T = S
        BY <1>1, <1>2, <1>5
    <2> QED
        BY <1>5, <2>1 DEF Rank
<1>6. CASE f[i + 1] # Blank
    <2>1. T = S \cup {i + 1} /\ i + 1 \notin S
        BY <1>1, <1>2, <1>3, <1>6
    <2>2. Cardinality(T) = Cardinality(S) + 1
        BY <1>4, <2>1, FS_AddElement
    <2> QED
        BY <1>6, <2>2 DEF Rank
<1> QED
    BY <1>5, <1>6

\* Later lines have no smaller rank.
LEMMA RankGrows ==
    ASSUME NEW f, NEW i \in Nat, NEW j \in Nat, i <= j
    PROVE  Rank(f, i) <= Rank(f, j)
<1> DEFINE S == {k \in 1..i : f[k] # Blank}
           T == {k \in 1..j : f[k] # Blank}
<1>1. \A k \in 1..i : k \in 1..j
    OBVIOUS
<1>2. S \in SUBSET T
    BY <1>1
<1>3. IsFiniteSet(T)
    BY RankFinite
<1>4. Cardinality(S) <= Cardinality(T)
    BY <1>2, <1>3, FS_Subset
<1> QED
    BY <1>4 DEF Rank

\* Lines that are not blank have ranks of their own.
LEMMA RanksDiffer ==
    ASSUME NEW f, NEW i \in Nat \ {0}, NEW j \in Nat \ {0},
           f[i] # Blank, f[j] # Blank, Rank(f, i) = Rank(f, j)
    PROVE  i = j
<1>1. ASSUME NEW a \in Nat \ {0}, NEW b \in Nat \ {0}, a < b, f[b] # Blank
      PROVE  Rank(f, a) # Rank(f, b)
    <2>1. b - 1 \in Nat /\ a <= b - 1 /\ (b - 1) + 1 = b
        BY <1>1
    <2>2. Rank(f, a) <= Rank(f, b - 1) /\ Rank(f, b) = Rank(f, b - 1) + 1
        BY <1>1, <2>1, RankGrows, RankNext
    <2>3. Rank(f, a) \in Nat /\ Rank(f, b - 1) \in Nat
        BY <2>1, RankFinite
    <2> QED
        BY <2>2, <2>3
<1> QED
    BY <1>1

\* The non-blank line of a rank.
LEMMA WrittenAt ==
    ASSUME NEW f, Len(f) \in Nat, DOMAIN f = 1..Len(f), NEW i \in DOMAIN f, f[i] # Blank
    PROVE  Rank(f, i) \in 1..Rank(f, Len(f)) /\ Written(f)[Rank(f, i)] = f[i]
<1>1. Rank(f, i) \in 1..Rank(f, Len(f))
    <2>1. i - 1 \in Nat /\ (i - 1) + 1 = i /\ i \in Nat /\ i <= Len(f)
        OBVIOUS
    <2>2. Rank(f, i) = Rank(f, i - 1) + 1 /\ Rank(f, i) <= Rank(f, Len(f))
        BY <2>1, RankNext, RankGrows
    <2>3. Rank(f, i - 1) \in Nat /\ Rank(f, Len(f)) \in Nat
        BY <2>1, RankFinite
    <2> QED
        BY <2>2, <2>3
<1> DEFINE m == CHOOSE m \in DOMAIN f : f[m] # Blank /\ Rank(f, m) = Rank(f, i)
<1>2. m \in DOMAIN f /\ f[m] # Blank /\ Rank(f, m) = Rank(f, i)
    OBVIOUS
<1>3. m = i
    BY <1>2, RanksDiffer
<1> QED
    BY <1>1, <1>3 DEF Written

\* The non-blank lines are a sequence.
LEMMA WrittenLength ==
    ASSUME NEW f, Len(f) \in Nat
    PROVE  /\ Len(Written(f)) = Rank(f, Len(f))
           /\ DOMAIN Written(f) = 1..Rank(f, Len(f))
<1> DEFINE w == Written(f)
           n == Rank(f, Len(f))
<1>1. n \in Nat
    BY RankFinite
<1>2. DOMAIN w = 1..n /\ w = [k \in 1..n |-> w[k]]
    BY DEF Written
<1> HIDE DEF w, n
<1>3. w \in [1..n -> {w[k] : k \in 1..n}]
    BY <1>2
<1>4. w \in Seq({w[k] : k \in 1..n})
    BY <1>1, <1>3, SeqDef
<1>5. Len(w) = n
    BY <1>1, <1>2, <1>4, LenProperties
<1> QED
    BY <1>2, <1>5 DEF w, n

-----------------------------------------------------------------------------
(* The inductive invariant.                                                *)

\* It holds of the empty ledger.
LEMMA InitIInv == Init => IInv
<1> SUFFICES ASSUME Init PROVE IInv
    OBVIOUS
<1>1. original = << >> /\ file = << >> /\ index = 0 /\ count = 0 /\ stage = "write"
      /\ previous = NoHash /\ result = NoResult
    BY DEF Init
<1>2. original \in Seq(Lines) /\ file \in Seq(Lines) /\ Len(file) = 0
      /\ Len(original) = 0 /\ DOMAIN original = {}
    BY <1>1, EmptySeq, LenProperties
<1>3. TypeOK
    BY <1>1, <1>2 DEF TypeOK
<1>4. OriginalIsChain
    BY <1>2 DEF OriginalIsChain
<1>5. ScannedIsOriginal
    BY <1>1, <1>2, RankZero DEF ScannedIsOriginal
<1>6. ReturnedWhereItStopped
    BY <1>1 DEF ReturnedWhereItStopped
<1> QED
    BY <1>3, <1>4, <1>5, <1>6 DEF IInv

\* Before the verification nothing is scanned.
LEMMA NothingScanned ==
    ASSUME IInv, stage = "write"
    PROVE  index = 0 /\ count = 0 /\ previous = NoHash /\ result = NoResult
BY RankZero DEF IInv, ScannedIsOriginal, ReturnedWhereItStopped

\* An append keeps it.
LEMMA AppendStep ==
    ASSUME IInv, NEW b \in Body, NEW s \in Signature, Append1(b, s)
    PROVE  IInv'
<1>1. /\ Len(original) \in Nat /\ DOMAIN original = 1..Len(original)
      /\ \A i \in 1..Len(original) : original[i] \in Lines
      /\ original \in Seq(Lines)
    BY Shapes DEF IInv, TypeOK
<1> DEFINE n == Len(original)
           line == [SealEvent(PreviousHash(original), b) EXCEPT !.signature = s]
<1>2. /\ stage = "write" /\ index' = 0 /\ count' = 0 /\ stage' = "write"
      /\ previous' = NoHash /\ result' = NoResult
      /\ file' = original' /\ original' = Append(original, line)
      /\ \A i \in DOMAIN original : original[i].body # b
    BY NothingScanned DEF Append1
<1> HIDE DEF line
<1>3. original \in Seq(Lines \cup {line})
    BY <1>1, SeqMonotonic
<1>4. /\ Len(original') = n + 1 /\ DOMAIN original' = 1..(n + 1)
      /\ original'[n + 1] = line
      /\ \A i \in 1..n : original'[i] = original[i]
    BY <1>2, <1>3, AppendProperties, LenProperties
<1>5. /\ line.ok = TRUE /\ line.body = b /\ line.prev = PreviousHash(original)
      /\ Intact(line)
      /\ line \in [ok : {TRUE}, prev : {PreviousHash(original)}, body : {b},
                   signature : {s}, hash : {line.hash}]
    BY DEF line, SealEvent, Intact
<1>6. KnownHashes \subseteq KnownHashes' /\ line.hash \in KnownHashes'
    <2>1. 1..n \subseteq 1..(n + 1) /\ n + 1 \in 1..(n + 1)
        BY <1>1
    <2>2. ASSUME NEW i \in 1..n PROVE original[i].hash \in KnownHashes'
        BY <1>4, <2>1 DEF KnownHashes
    <2> QED
        BY <1>1, <1>4, <2>1, <2>2 DEF KnownHashes
<1>7. PreviousHash(original) \in KnownHashes'
    <2>1. CASE original = << >>
        BY <2>1 DEF PreviousHash, KnownHashes
    <2>2. CASE original # << >>
        <3>1. n \in DOMAIN original
            BY <1>1, <2>2, EmptySeq
        <3> QED
            BY <1>6, <2>2, <3>1 DEF PreviousHash, KnownHashes
    <2> QED
        BY <2>1, <2>2
<1>8. Lines \subseteq Lines' /\ line \in Lines'
    BY <1>5, <1>6, <1>7 DEF Lines
<1>9. original' \in Seq(Lines')
    <2>1. original \in Seq(Lines')
        BY <1>1, <1>8, SeqMonotonic
    <2> QED
        BY <1>2, <1>8, <2>1, AppendProperties
<1>10. TypeOK'
    BY <1>1, <1>2, <1>4, <1>9 DEF TypeOK
<1>11. OriginalIsChain'
    <2>1. ASSUME NEW i \in 1..n
          PROVE  /\ original'[i].ok /\ Intact(original'[i])
                 /\ original'[i].prev = IF i = 1 THEN NoHash ELSE original'[i - 1].hash
        <3>1. i # 1 => i - 1 \in 1..n
            BY <1>1
        <3> QED
            BY <1>1, <1>4, <3>1 DEF IInv, OriginalIsChain
    <2>2. original'[n + 1].prev = IF n + 1 = 1 THEN NoHash ELSE original'[n + 1 - 1].hash
        <3>1. PreviousHash(original) = IF n + 1 = 1 THEN NoHash ELSE original[n].hash
            <4>1. CASE n = 0
                BY <1>1, <4>1, EmptySeq DEF PreviousHash
            <4>2. CASE n # 0
                BY <1>1, <4>2, EmptySeq DEF PreviousHash
            <4> QED
                BY <4>1, <4>2
        <3>2. n + 1 - 1 = n /\ (n + 1 # 1 => n \in 1..n)
            BY <1>1
        <3> QED
            BY <1>4, <1>5, <3>1, <3>2
    <2>3. \A i \in 1..(n + 1) : i \in 1..n \/ i = n + 1
        BY <1>1
    <2>4. \A i, j \in 1..(n + 1) : original'[i].body = original'[j].body => i = j
        BY <1>1, <1>2, <1>4, <1>5, <2>3 DEF IInv, OriginalIsChain
    <2>5. \A i \in 1..(n + 1) : Intact(original'[i]) /\ original'[i].ok
        BY <1>4, <1>5, <2>1, <2>3
    <2> QED
        BY <1>4, <2>1, <2>2, <2>3, <2>4, <2>5 DEF OriginalIsChain
<1>12. ScannedIsOriginal'
    BY <1>1, <1>2, <1>4, RankZero DEF ScannedIsOriginal
<1>13. ReturnedWhereItStopped'
    BY <1>2 DEF ReturnedWhereItStopped
<1> QED
    BY <1>10, <1>11, <1>12, <1>13 DEF IInv

\* Damage keeps it: the original is what it was.
LEMMA DamageStep ==
    ASSUME IInv, Damage
    PROVE  IInv'
<1>1. /\ stage = "write" /\ stage' = "write" /\ index' = 0 /\ count' = 0
      /\ original' = original /\ previous' = NoHash /\ result' = NoResult
    BY NothingScanned DEF Damage
<1>2. Lines' = Lines
    BY <1>1 DEF Lines, KnownHashes
<1>3. /\ file \in Seq(Lines) /\ Len(original) \in Nat
      /\ \A k \in DOMAIN original : original[k] \in Lines
    BY Shapes DEF IInv, TypeOK
<1>4. file' \in Seq(Lines)
    <2>1. ASSUME NEW i \in DOMAIN file, file' \in Change(file, i)
          PROVE  file' \in Seq(Lines)
        BY <1>3, <2>1, ChangeShape
    <2>2. ASSUME NEW i \in DOMAIN file, file' = Delete(file, i)
          PROVE  file' \in Seq(Lines)
        BY <1>3, <2>2, DeleteShape
    <2>3. ASSUME NEW i \in 0..Len(file), NEW k \in DOMAIN original,
                 file' = Insert(file, i, original[k])
          PROVE  file' \in Seq(Lines)
        BY <1>3, <2>3, InsertShape
    <2>4. ASSUME NEW i \in 0..Len(file), file' = Insert(file, i, Blank)
          PROVE  file' \in Seq(Lines)
        <3>1. Blank \in Lines
            BY DEF Lines
        <3> QED
            BY <1>3, <2>4, <3>1, InsertShape
    <2>5. ASSUME NEW i \in DOMAIN file, NEW j \in DOMAIN file, file' = Swap(file, i, j)
          PROVE  file' \in Seq(Lines)
        BY <1>3, <2>5, SwapShape
    <2> QED
        BY <2>1, <2>2, <2>3, <2>4, <2>5 DEF Damage
<1>5. Len(file') \in Nat
    BY <1>4, LenProperties
<1>6. TypeOK'
    BY <1>1, <1>2, <1>4, <1>5 DEF IInv, TypeOK
<1>7. OriginalIsChain'
    BY <1>1 DEF IInv, OriginalIsChain
<1>8. ScannedIsOriginal'
    BY <1>1, <1>3, RankZero DEF ScannedIsOriginal
<1>9. ReturnedWhereItStopped'
    BY <1>1 DEF ReturnedWhereItStopped
<1> QED
    BY <1>6, <1>7, <1>8, <1>9 DEF IInv

\* A blank line is passed over.
LEMMA SkipBlankStep ==
    ASSUME IInv, SkipBlank
    PROVE  IInv'
<1>1. /\ stage = "verify" /\ stage' = "verify" /\ index < Len(file) /\ Line = Blank
      /\ index' = index + 1 /\ count' = count /\ previous' = previous
      /\ original' = original /\ file' = file /\ result' = result
    BY DEF SkipBlank, Reading
<1>2. Len(file) \in Nat /\ index \in Nat
    BY Shapes DEF IInv, TypeOK
<1>3. \A i \in 1..(index + 1) : i \in 1..index \/ i = index + 1
    BY <1>2
<1>4. Rank(file, index + 1) = Rank(file, index) /\ 1..index \subseteq 1..(index + 1)
    BY <1>1, <1>2, RankNext DEF Line
<1>5. ScannedIsOriginal'
    BY <1>1, <1>3, <1>4 DEF IInv, ScannedIsOriginal, Preserved, Line
<1>6. TypeOK'
    <2>1. Lines' = Lines
        BY <1>1 DEF Lines, KnownHashes
    <2>2. index + 1 \in 0..Len(file)
        BY <1>1, <1>2
    <2> QED
        BY <1>1, <2>1, <2>2 DEF IInv, TypeOK
<1>7. OriginalIsChain'
    BY <1>1 DEF IInv, OriginalIsChain
<1>8. ReturnedWhereItStopped'
    BY <1>1 DEF IInv, ReturnedWhereItStopped
<1> QED
    BY <1>5, <1>6, <1>7, <1>8 DEF IInv

\* The event that passes the tests of the loop is the original's next one.
LEMMA PassedIsOriginal ==
    ASSUME IInv, index < Len(file), Line.ok, Line.prev = previous, Intact(Line)
    PROVE  /\ Line # Blank /\ Rank(file, index + 1) = count + 1
           /\ count + 1 <= Len(original)
           /\ Preserved(file, index + 1)
           /\ Line.hash = original[count + 1].hash
<1>1. /\ TypeOK /\ OriginalIsChain
      /\ Len(original) \in Nat /\ Len(file) \in Nat /\ index \in Nat
      /\ \A i \in 1..Len(file) : file[i] \in Lines
      /\ count = Rank(file, index) /\ count <= Len(original)
      /\ previous = IF count = 0 THEN NoHash ELSE original[count].hash
    BY Shapes DEF IInv, TypeOK, ScannedIsOriginal
<1>2. count \in Nat
    BY <1>1, RankFinite
<1>3. Line # Blank
    BY DEF Blank
<1>4. Rank(file, index + 1) = count + 1
    BY <1>1, <1>3, RankNext DEF Line
<1>5. index + 1 \in 1..Len(file) /\ Line \in Lines
    BY <1>1 DEF Line
<1>6. PICK k \in Nat \ {0} : k = count + 1
    BY <1>2
<1>7. k - 1 = count /\ (k = 1 <=> count = 0)
    BY <1>2, <1>6
<1>8. /\ k <= Len(original)
      /\ Line.prev = original[k].prev
      /\ Line.body = original[k].body
      /\ Line.hash = original[k].hash
    BY <1>1, <1>5, <1>7, SoundLineIsOriginal
<1> QED
    BY <1>3, <1>4, <1>6, <1>8 DEF Preserved, Line

\* Finding one more event sound keeps it.
LEMMA VerifyLineStep ==
    ASSUME IInv, VerifyLine
    PROVE  IInv'
<1>1. /\ stage = "verify" /\ stage' = "verify" /\ index < Len(file)
      /\ Line.ok /\ Line.prev = previous /\ Intact(Line)
      /\ previous' = Line.hash /\ index' = index + 1 /\ count' = count + 1
      /\ original' = original /\ file' = file /\ result' = result
    BY DEF VerifyLine, Reading, GoOn
<1>2. Len(file) \in Nat /\ index \in Nat /\ count = Rank(file, index) /\ count \in Nat
    <2>1. Len(file) \in Nat /\ index \in Nat /\ count = Rank(file, index)
        BY Shapes DEF IInv, TypeOK, ScannedIsOriginal
    <2> QED
        BY <2>1, RankFinite
<1>3. /\ Line # Blank /\ Rank(file, index + 1) = count + 1
      /\ count + 1 <= Len(original)
      /\ Preserved(file, index + 1)
      /\ Line.hash = original[count + 1].hash
    BY <1>1, PassedIsOriginal
<1>4. /\ \A i \in 1..(index + 1) : i \in 1..index \/ i = index + 1
      /\ \A k \in 1..(count + 1) : k \in 1..count \/ k = count + 1
      /\ 1..index \subseteq 1..(index + 1) /\ index + 1 \in 1..(index + 1)
      /\ count + 1 # 0
    BY <1>2
<1>5. ScannedIsOriginal'
    <2>1. \A i \in 1..(index + 1) : file[i] # Blank => Preserved(file, i)
        BY <1>3, <1>4 DEF IInv, ScannedIsOriginal
    <2>2. \A k \in 1..(count + 1) :
              \E i \in 1..(index + 1) : file[i] # Blank /\ Rank(file, i) = k
        BY <1>3, <1>4 DEF IInv, ScannedIsOriginal, Line
    <2>3. \A i \in 1..(index + 1) : Preserved(file, i)' <=> Preserved(file, i)
        BY <1>1 DEF Preserved
    <2> QED
        BY <1>1, <1>3, <1>4, <2>1, <2>2, <2>3 DEF ScannedIsOriginal
<1>6. TypeOK'
    <2>1. Lines' = Lines
        BY <1>1 DEF Lines, KnownHashes
    <2>2. index + 1 \in 0..Len(file)
        BY <1>1, <1>2
    <2> QED
        BY <1>1, <2>1, <2>2 DEF IInv, TypeOK
<1>7. OriginalIsChain'
    BY <1>1 DEF IInv, OriginalIsChain
<1>8. ReturnedWhereItStopped'
    BY <1>1 DEF IInv, ReturnedWhereItStopped
<1> QED
    BY <1>5, <1>6, <1>7, <1>8 DEF IInv

\* Starting and returning keep it.
LEMMA ReturnStep ==
    ASSUME IInv, StartVerify \/ LineRaises \/ LineBroken \/ EndOfFile \/ UNCHANGED vars
    PROVE  IInv'
<1>1. /\ original' = original /\ file' = file /\ index' = index /\ count' = count
      /\ previous' = previous /\ (stage' = stage \/ stage' \in {"verify", "done"})
    BY DEF StartVerify, LineRaises, LineBroken, EndOfFile, Return, vars
<1>2. Lines' = Lines
    BY <1>1 DEF Lines, KnownHashes
<1>3. TypeOK'
    BY <1>1, <1>2 DEF IInv, TypeOK
<1>4. OriginalIsChain'
    BY <1>1 DEF IInv, OriginalIsChain
<1>5. ScannedIsOriginal'
    BY <1>1 DEF IInv, ScannedIsOriginal, Preserved
<1>6. ReturnedWhereItStopped'
    <2>1. CASE StartVerify
        BY <2>1 DEF StartVerify, IInv, ReturnedWhereItStopped
    <2>2. CASE LineRaises
        BY <2>2 DEF LineRaises, Reading, Return, Line, ReturnedWhereItStopped
    <2>3. CASE LineBroken
        BY <2>3 DEF LineBroken, Reading, Return, Line, ReturnedWhereItStopped
    <2>4. CASE EndOfFile
        BY <2>4 DEF EndOfFile, Return, ReturnedWhereItStopped
    <2>5. CASE UNCHANGED vars
        BY <2>5 DEF vars, IInv, ReturnedWhereItStopped, Line
    <2> QED
        BY <2>1, <2>2, <2>3, <2>4, <2>5
<1> QED
    BY <1>3, <1>4, <1>5, <1>6 DEF IInv

\* The strengthening holds of every ledger, damage and verification.
THEOREM Invariance == Spec => []IInv
<1>1. IInv /\ [Next]_vars => IInv'
    BY AppendStep, DamageStep, SkipBlankStep, VerifyLineStep, ReturnStep DEF Next
<1> QED
    BY <1>1, InitIInv, PTL DEF Spec

-----------------------------------------------------------------------------
(* The properties.                                                         *)

\* However long the ledger and however much it was damaged, what verifies as
\* valid holds the first events of the original, blank lines and signatures
\* aside.
THEOREM OnlyTruncationEscapes == Spec => []UndetectedOnlyTruncation
<1>1. IInv => UndetectedOnlyTruncation
    <2> SUFFICES ASSUME IInv, result.outcome = "valid"
                 PROVE  /\ Rank(file, Len(file)) <= Len(original)
                        /\ \A i \in DOMAIN file : file[i] # Blank => Preserved(file, i)
        BY DEF UndetectedOnlyTruncation
    <2>1. index = Len(file)
        BY DEF IInv, ReturnedWhereItStopped, NoResult, Broken
    <2>2. DOMAIN file = 1..Len(file)
        BY Shapes DEF IInv
    <2> QED
        BY <2>1, <2>2 DEF IInv, ScannedIsOriginal
<1> QED
    BY <1>1, Invariance, PTL

\* The fields of a report.
LEMMA BrokenFields ==
    ASSUME NEW i, NEW n
    PROVE  Broken(i, n).first_broken_link = i /\ Broken(i, n).event_count = n
BY DEF Broken

\* The line verify reports is the first that is not the original's event.
THEOREM ReportsLocate == Spec => []ReportLocatesDamage
<1>1. IInv => ReportLocatesDamage
    <2> SUFFICES ASSUME IInv, result.outcome = "broken" PROVE ReportLocatesDamage
        BY DEF ReportLocatesDamage
    <2>1. /\ index < Len(file) /\ Line.ok /\ ~(Line.prev = previous /\ Intact(Line))
          /\ result = Broken(index + 1, count)
        BY DEF IInv, ReturnedWhereItStopped, NoResult
    <2>2. /\ OriginalIsChain /\ index \in Nat /\ Len(original) \in Nat
          /\ DOMAIN original = 1..Len(original)
          /\ Len(file) \in Nat /\ DOMAIN file = 1..Len(file)
          /\ count = Rank(file, index)
          /\ previous = IF count = 0 THEN NoHash ELSE original[count].hash
        BY Shapes DEF IInv, TypeOK, ScannedIsOriginal
    <2>3. count \in Nat
        BY <2>2, RankFinite
    <2>4. PICK k : k = index + 1
        OBVIOUS
    <2>5. result.first_broken_link = k /\ result.event_count = count
        BY <2>1, <2>4, BrokenFields
    <2>6. k \in DOMAIN file /\ k - 1 = index /\ file[k] = Line
        BY <2>1, <2>2, <2>4 DEF Line
    <2>7. file[k] # Blank
        BY <2>1, <2>6 DEF Blank
    <2>8. Rank(file, k) = count + 1
        BY <2>2, <2>4, <2>7, RankNext
    <2>9. result.event_count = Rank(file, k) - 1
        BY <2>3, <2>5, <2>8
    <2>10. ~Preserved(file, k)
        <3> SUFFICES ASSUME Preserved(file, k) PROVE Line.prev = previous /\ Intact(Line)
            BY <2>1
        <3>1. /\ count + 1 <= Len(original)
              /\ Line.prev = original[count + 1].prev
              /\ Line.body = original[count + 1].body
              /\ Line.hash = original[count + 1].hash
            BY <2>6, <2>8 DEF Preserved
        <3>2. count + 1 \in DOMAIN original /\ count + 1 - 1 = count
              /\ (count + 1 = 1 <=> count = 0)
            BY <2>2, <2>3, <3>1
        <3>3. /\ original[count + 1].hash = <<original[count + 1].prev,
                                              original[count + 1].body>>
              /\ original[count + 1].prev =
                    IF count = 0 THEN NoHash ELSE original[count].hash
            <4>1. PICK j \in DOMAIN original : j = count + 1
                BY <3>2
            <4>2. /\ original[j].hash = <<original[j].prev, original[j].body>>
                  /\ original[j].prev = IF j = 1 THEN NoHash ELSE original[j - 1].hash
                BY <2>2, HashesDiffer
            <4>3. j - 1 = count /\ (j = 1 <=> count = 0)
                BY <2>3, <4>1
            <4>4. original[j].prev = IF count = 0 THEN NoHash ELSE original[count].hash
                BY <4>2, <4>3
            <4> QED
                BY <4>1, <4>2, <4>4
        <3> QED
            BY <2>2, <3>1, <3>3 DEF Intact, EventHash
    <2>11. \A i \in 1..(k - 1) : file[i] # Blank => Preserved(file, i)
        BY <2>6 DEF IInv, ScannedIsOriginal
    <2> QED
        BY <2>5, <2>6, <2>7, <2>9, <2>10, <2>11 DEF ReportLocatesDamage
<1> QED
    BY <1>1, Invariance, PTL

\* The events the loop has found sound are, and the next one is what it tests.
LEMMA ScannedIsSound ==
    ASSUME IInv, NEW w, w = Written(file)
    PROVE  /\ \A k \in 1..count : Sound(w, k)
           /\ index < Len(file) /\ Line # Blank =>
                 /\ count + 1 \in DOMAIN w /\ w[count + 1] = Line
                 /\ Sound(w, count + 1) <=>
                       Line.ok /\ Line.prev = previous /\ Intact(Line)
<1>1. /\ index \in Nat /\ index <= Len(file) /\ Len(file) \in Nat
      /\ DOMAIN file = 1..Len(file) /\ DOMAIN original = 1..Len(original)
      /\ Len(original) \in Nat /\ OriginalIsChain
      /\ count = Rank(file, index) /\ count <= Len(original)
      /\ previous = IF count = 0 THEN NoHash ELSE original[count].hash
    BY Shapes DEF IInv, TypeOK, ScannedIsOriginal
<1>2. count \in Nat
    BY <1>1, RankFinite
<1>3. ASSUME NEW k \in 1..count
      PROVE  /\ w[k].ok /\ k \in DOMAIN original
             /\ w[k].prev = original[k].prev /\ w[k].body = original[k].body
             /\ w[k].hash = original[k].hash
    <2>1. PICK i \in 1..index : file[i] # Blank /\ Rank(file, i) = k
        BY DEF IInv, ScannedIsOriginal
    <2>2. Preserved(file, i)
        BY <2>1 DEF IInv, ScannedIsOriginal
    <2>3. i \in DOMAIN file /\ k \in DOMAIN original
        BY <1>1, <1>2
    <2>4. w[k] = file[i]
        BY <1>1, <2>1, <2>3, WrittenAt
    <2> QED
        BY <2>1, <2>2, <2>3, <2>4 DEF Preserved
<1>4. \A k \in 1..count : k # 1 => k - 1 \in 1..count
    BY <1>2
<1>5. ASSUME NEW k \in 1..count
      PROVE  Sound(w, k)
    <2>1. Intact(w[k])
        BY <1>1, <1>3 DEF OriginalIsChain, Intact
    <2>2. Linked(w, k)
        <3>1. original[k].prev = IF k = 1 THEN NoHash ELSE original[k - 1].hash
            BY <1>1, <1>3 DEF OriginalIsChain
        <3>2. CASE k = 1
            BY <1>3, <3>1, <3>2 DEF Linked
        <3>3. CASE k # 1
            <4>1. k - 1 \in 1..count
                BY <1>4, <3>3
            <4>2. w[k - 1].ok /\ w[k - 1].hash = original[k - 1].hash
                BY <1>3, <4>1
            <4> QED
                BY <1>3, <3>1, <3>3, <4>2 DEF Linked
        <3> QED
            BY <3>2, <3>3
    <2> QED
        BY <1>3, <2>1, <2>2 DEF Sound
<1>6. ASSUME index < Len(file), Line # Blank
      PROVE  /\ count + 1 \in DOMAIN w /\ w[count + 1] = Line
             /\ Sound(w, count + 1) <=>
                   Line.ok /\ Line.prev = previous /\ Intact(Line)
    <2>1. index + 1 \in DOMAIN file /\ file[index + 1] # Blank
        BY <1>1, <1>6 DEF Line
    <2>2. Rank(file, index + 1) = count + 1
        BY <1>1, <2>1, RankNext
    <2>3. count + 1 \in DOMAIN w /\ w[count + 1] = Line
        BY <1>1, <2>1, <2>2, WrittenAt, WrittenLength DEF Line
    <2>4. CASE count = 0
        BY <1>1, <2>3, <2>4 DEF Sound, Linked
    <2>5. CASE count # 0
        <3>1. count \in 1..count /\ count + 1 - 1 = count /\ count + 1 # 1
            BY <1>2, <2>5
        <3>2. w[count].ok /\ previous = w[count].hash
            BY <1>1, <1>3, <2>5, <3>1
        <3> QED
            BY <2>3, <3>1, <3>2 DEF Sound, Linked
    <2> QED
        BY <2>3, <2>4, <2>5
<1> QED
    BY <1>5, <1>6

\* A line that is not sound after lines that are is the first defect.
LEMMA FirstDefectIs ==
    ASSUME NEW w, NEW n \in Nat, NEW m \in Nat, DOMAIN w = 1..m, n + 1 \in 1..m,
           \A i \in 1..n : Sound(w, i), ~Sound(w, n + 1)
    PROVE  Defects(w) # {} /\ FirstDefect(w) = n + 1
<1>1. n + 1 \in Defects(w)
    BY DEF Defects
<1>2. \A j \in Defects(w) : j \in Nat /\ n + 1 <= j
    BY DEF Defects
<1>3. \A j \in Defects(w) : (\A k \in Defects(w) : j <= k) => j = n + 1
    BY <1>1, <1>2
<1>4. FirstDefect(w) \in Defects(w) /\ \A k \in Defects(w) : FirstDefect(w) <= k
    BY <1>1, <1>2 DEF FirstDefect
<1> QED
    BY <1>1, <1>3, <1>4

\* However damaged the file, and whatever blank lines it holds, the loop of
\* HashChainVerifier.verify returns what the other components take for its result.
THEOREM LoopIsVerify == Spec => []LoopComputesVerify
<1>1. IInv => LoopComputesVerify
    <2> SUFFICES ASSUME IInv, stage = "done"
                 PROVE  /\ result.outcome = Verify(Written(file)).outcome
                        /\ result.event_count = Verify(Written(file)).event_count
        BY DEF LoopComputesVerify
    <2>1. /\ index \in Nat /\ Len(file) \in Nat /\ count = Rank(file, index)
        BY Shapes DEF IInv, TypeOK, ScannedIsOriginal
    <2>2. count \in Nat /\ Rank(file, Len(file)) \in Nat
        BY <2>1, RankFinite
    <2>3. PICK w : w = Written(file)
        OBVIOUS
    <2>4. Len(w) = Rank(file, Len(file)) /\ DOMAIN w = 1..Rank(file, Len(file))
        BY <2>1, <2>3, WrittenLength
    <2>5. \A k \in 1..count : Sound(w, k)
        BY <2>3, ScannedIsSound
    <2>6. CASE /\ index = Len(file)
               /\ result = [outcome |-> "valid", event_count |-> count,
                            first_broken_link |-> 0]
        <3>1. Defects(w) = {} /\ Len(w) = count
            BY <2>1, <2>4, <2>5, <2>6 DEF Defects
        <3> QED
            BY <2>3, <2>6, <3>1 DEF Verify
    <2>7. CASE /\ index < Len(file) /\ Line # Blank
               /\ ~(Line.ok /\ Line.prev = previous /\ Intact(Line))
        <3>1. count + 1 \in DOMAIN w /\ w[count + 1] = Line /\ ~Sound(w, count + 1)
            BY <2>3, <2>7, ScannedIsSound
        <3>2. Defects(w) # {} /\ FirstDefect(w) = count + 1
            BY <2>2, <2>4, <2>5, <3>1, FirstDefectIs
        <3>3. CASE ~Line.ok /\ result = [NoResult EXCEPT !.outcome = "raises"]
            BY <2>3, <3>1, <3>2, <3>3 DEF Verify, NoResult
        <3>4. CASE Line.ok /\ result = Broken(index + 1, count)
            <4>1. PICK k : k = count + 1
                OBVIOUS
            <4>2. Verify(w) = [outcome |-> "broken", event_count |-> k - 1]
                BY <3>1, <3>2, <3>4, <4>1 DEF Verify
            <4>3. result.outcome = "broken" /\ result.event_count = count
                BY <3>4, BrokenFields DEF Broken
            <4>4. Verify(w).outcome = "broken" /\ Verify(w).event_count = count
                BY <2>2, <4>1, <4>2
            <4> QED
                BY <2>3, <4>3, <4>4
        <3>5. \/ ~Line.ok /\ result = [NoResult EXCEPT !.outcome = "raises"]
              \/ Line.ok /\ result = Broken(index + 1, count)
            BY <2>1, <2>7 DEF IInv, ReturnedWhereItStopped
        <3> QED
            BY <3>3, <3>4, <3>5
    <2>8. Line.ok => Line # Blank
        BY DEF Blank
    <2>9. \/ /\ index = Len(file)
             /\ result = [outcome |-> "valid", event_count |-> count,
                          first_broken_link |-> 0]
          \/ /\ index < Len(file) /\ Line # Blank
             /\ ~(Line.ok /\ Line.prev = previous /\ Intact(Line))
        BY <2>8 DEF IInv, ReturnedWhereItStopped
    <2> QED
        BY <2>6, <2>7, <2>9
<1> QED
    BY <1>1, Invariance, PTL
=============================================================================
