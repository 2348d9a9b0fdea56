--------------------------- MODULE TrainingProofs ---------------------------
(***************************************************************************)
(* Proofs about TrainingRun: every callback is a step of Ledger, so what   *)
(* LedgerProofs shows of the ledger holds of training runs, and what the   *)
(* callbacks remember agrees with what the ledger holds of their runs.     *)
(***************************************************************************)
EXTENDS TrainingRun, LedgerProofs, FiniteSetTheorems

-----------------------------------------------------------------------------
(* The values of the callbacks.                                            *)

\* The reference a callback is built with is one of Ref.
LEMMA RefFacts ==
    ASSUME NEW w \in Writer
    PROVE  /\ ContentHash(DatasetRef[w]) \in DatasetHash
           /\ ReferenceHash(DatasetRef[w]) \in DatasetHash
           /\ ContentHash(DatasetRef[w]).of = "content"
           /\ ReferenceHash(DatasetRef[w]).of = "reference"
           /\ ContentHash(DatasetRef[w]) # Unregistered
           /\ ReferenceHash(DatasetRef[w]) # ContentHash(DatasetRef[w])
<1>1. DatasetRef[w] \in Ref
    <2> DEFINE r == DatasetRef[w].root
               t == DatasetRef[w].rest
    <2>1. DatasetRef[w] = [root |-> r, rest |-> t]
        BY TrainingAssumption
    <2>2. r \in {DatasetRef[v].root : v \in Writer} /\ t \in {DatasetRef[v].rest : v \in Writer}
        OBVIOUS
    <2> HIDE DEF r, t
    <2>3. [root |-> r, rest |-> t] \in Ref
        BY <2>2 DEF Ref
    <2> QED
        BY <2>1, <2>3
<1>2. /\ ContentHash(DatasetRef[w]).of = "content"
      /\ ReferenceHash(DatasetRef[w]).of = "reference"
      /\ Unregistered.of = "none"
    BY DEF ContentHash, ReferenceHash, Unregistered
<1> QED
    BY <1>1, <1>2 DEF DatasetHash

\* The fields of a content.
LEMMA BodyFacts ==
    ASSUME NEW b \in Body
    PROVE  /\ b[1] \in Writer /\ b[2] \in TrainingEvent
           /\ b[2].kind \in {"data_ingest", "exposure"}
           /\ b[2].life \in 1..MaxLives
BY TrainingAssumption DEF Body, TrainingEvent

\* The number a new event gets is within the bound.
LEMMA AppendedByType ==
    ASSUME IsFiniteSet(used), NEW w \in Writer
    PROVE  AppendedBy(w) \in Nat
<1>1. IsFiniteSet({b \in used : b[1] = w})
    BY FS_Subset
<1> QED
    BY <1>1, FS_CardinalityType DEF AppendedBy

\* What a callback appends is a content of the ledger.
LEMMA CallbackBody ==
    ASSUME TrainingTypeOK, IsFiniteSet(used), NEW w \in Writer,
           NEW kind \in {"data_ingest", "exposure"}, NEW dataset \in DatasetHash,
           Callback(w, kind, dataset)
    PROVE  \E b \in Body : /\ Prepare(w, b)
                           /\ b[2].kind = kind /\ b[2].dataset = dataset
                           /\ b[2].life = life[w]
<1> DEFINE e == [kind |-> kind, dataset |-> dataset, life |-> life[w], n |-> AppendedBy(w) + 1]
<1>1. life[w] \in 1..(MaxLives + 1) /\ life[w] <= MaxLives /\ MaxLives \in Nat
    BY TrainingAssumption DEF TrainingTypeOK, Callback
<1>2. AppendedBy(w) \in Nat /\ AppendedBy(w) < MaxEvents /\ MaxEvents \in Nat
    BY AppendedByType, TrainingAssumption DEF Callback
<1>3. life[w] \in 1..MaxLives /\ AppendedBy(w) + 1 \in 1..MaxEvents
    BY <1>1, <1>2
<1>4. e \in TrainingEvent
    BY <1>3 DEF TrainingEvent
<1>5. <<w, e>> \in Body
    BY <1>4, TrainingAssumption DEF Body
<1>6. Prepare(w, <<w, e>>)
    BY DEF Callback
<1> QED
    BY <1>5, <1>6

\* The callbacks that only prepare an event, and the event they prepare.
Prepared(w, b) ==
    /\ Prepare(w, b)
    /\ b[2].life = life[w]
    /\ b[2].dataset = IF b[2].kind = "data_ingest"
                      THEN ContentHash(DatasetRef[w]) ELSE Exposed(w)
    /\ UNCHANGED <<last, life>>

\* An exposure names the registered dataset, or the bare reference.
LEMMA ExposedFacts ==
    ASSUME TrainingTypeOK, NEW w \in Writer
    PROVE  /\ Exposed(w) \in DatasetHash
           /\ last[w] # Unregistered => Exposed(w) = last[w]
           /\ last[w] = Unregistered => Exposed(w) = ReferenceHash(DatasetRef[w])
BY RefFacts DEF TrainingTypeOK, Exposed

\* A step of a training run is one of six.
LEMMA TrainingCases ==
    ASSUME TrainingTypeOK, IsFiniteSet(used), [TrainingNext]_tvars
    PROVE  \/ \E w \in Writer, b \in Body : Prepared(w, b)
           \/ \E w \in Writer : \/ CallbackReturns(w)
                                \/ CallbackRaises(w)
                                \/ KilledInCallback(w)
                                \/ Rerun(w)
           \/ Outage
           \/ UNCHANGED tvars
<1>1. ASSUME NEW w \in Writer, OnTrainBegin(w) \/ StartTraining(w)
      PROVE  \E b \in Body : Prepared(w, b)
    BY <1>1, CallbackBody, RefFacts DEF OnTrainBegin, StartTraining, Prepared
<1>2. ASSUME NEW w \in Writer, OnSave(w) \/ OnEvaluate(w)
      PROVE  \E b \in Body : Prepared(w, b)
    BY <1>2, CallbackBody, ExposedFacts DEF OnSave, OnEvaluate, Prepared
<1>3. ASSUME NEW w \in Writer, LogRayCheckpoint(w) \/ LogRayEvalOutcome(w)
      PROVE  \E b \in Body : Prepared(w, b)
    BY <1>3, CallbackBody, ExposedFacts DEF LogRayCheckpoint, LogRayEvalOutcome, Prepared
<1> QED
    BY <1>1, <1>2, <1>3 DEF TrainingNext

\* Every step of a training run is a step of the ledger, or leaves it alone.
LEMMA StepsOfTheLedger ==
    ASSUME TrainingTypeOK, IsFiniteSet(used), [TrainingNext]_tvars
    PROVE  [Next]_vars
BY TrainingCases
DEF Prepared, CallbackReturns, CallbackRaises, KilledInCallback, Rerun, Outage, Next,
    tvars, vars

-----------------------------------------------------------------------------
(* What the steps do to the memory of the processes.                       *)

\* A process goes on, or is started again as a run the ledger knows nothing of.
Kept(w) == last'[w] = last[w] /\ life'[w] = life[w]

Renewed(w) ==
    last'[w] = Unregistered /\ \A b \in used : b[1] = w => b[2].life # life'[w]

MemoryType ==
    /\ last \in [Writer -> DatasetHash \cup {Unregistered}]
    /\ life \in [Writer -> 1..(MaxLives + 1)]

\* The next start of a process, while the bound allows one.
LEMMA NextLife ==
    ASSUME NEW x \in 1..(MaxLives + 1), NEW y,
           y = IF x <= MaxLives THEN x + 1 ELSE x
    PROVE  /\ y \in 1..(MaxLives + 1) /\ x <= y
           /\ \A z \in 1..MaxLives : z <= x => z # y
BY TrainingAssumption

\* Starting the processes of W again renews them and keeps the others.
LEMMA Restarted ==
    ASSUME TrainingInv, NEW W, StartAgain(W)
    PROVE  /\ MemoryType'
           /\ \A w \in Writer : life[w] <= life'[w]
           /\ \A w \in Writer : IF w \in W THEN Renewed(w) ELSE Kept(w)
<1>0. MemoryType /\ used \subseteq Body /\ EventsNameTheirDataset
    BY DEF TrainingInv, TrainingTypeOK, TypeOK, MemoryType
<1>1. ASSUME NEW w \in Writer
      PROVE  /\ last'[w] \in DatasetHash \cup {Unregistered}
             /\ life'[w] \in 1..(MaxLives + 1) /\ life[w] <= life'[w]
             /\ IF w \in W THEN Renewed(w) ELSE Kept(w)
    <2>1. life[w] \in 1..(MaxLives + 1) /\ last[w] \in DatasetHash \cup {Unregistered}
        BY <1>0 DEF MemoryType
    <2>2. life[w] <= life[w]
        BY <2>1, TrainingAssumption
    <2>3. CASE w \in W
        <3>1. /\ last'[w] = Unregistered
              /\ life'[w] = IF life[w] <= MaxLives THEN life[w] + 1 ELSE life[w]
            BY <2>3 DEF StartAgain
        <3>2. /\ life'[w] \in 1..(MaxLives + 1) /\ life[w] <= life'[w]
              /\ \A z \in 1..MaxLives : z <= life[w] => z # life'[w]
            BY <2>1, <3>1, NextLife
        <3>3. \A b \in used : b[1] = w => b[2].life \in 1..MaxLives /\ b[2].life <= life[w]
            BY <1>0, BodyFacts DEF EventsNameTheirDataset
        <3> QED
            BY <2>3, <3>1, <3>2, <3>3 DEF Renewed
    <2>4. CASE w \notin W
        BY <2>1, <2>2, <2>4 DEF StartAgain, Kept
    <2> QED
        BY <2>3, <2>4
<1>2. last' = [w \in Writer |-> last'[w]] /\ life' = [w \in Writer |-> life'[w]]
    BY DEF StartAgain
<1> QED
    BY <1>1, <1>2 DEF MemoryType

\* What is used and what is pending stay in order when no event is prepared.
LEMMA PendingStays ==
    ASSUME TrainingInv, MemoryType', used' = used,
           \A w \in Writer : life[w] <= life'[w],
           \A w \in Writer : Linking(w)' => /\ Linking(w) /\ pending'[w] = pending[w]
                                            /\ Kept(w)
    PROVE  EventsNameTheirDataset' /\ PendingIsOfThisRun'
<1>1. ASSUME NEW b \in used PROVE b[2].life <= life'[b[1]]
    <2>1. b \in Body /\ b[1] \in Writer /\ b[2].life \in Int
        BY BodyFacts DEF TrainingInv, TrainingTypeOK, TypeOK
    <2>2. b[2].life <= life[b[1]] /\ life[b[1]] <= life'[b[1]]
        BY <2>1 DEF TrainingInv, EventsNameTheirDataset
    <2>3. life[b[1]] \in Int
        BY <2>1, TrainingAssumption DEF TrainingInv, TrainingTypeOK
    <2>4. life'[b[1]] \in Int
        BY <2>1, TrainingAssumption DEF MemoryType
    <2> QED
        BY <2>1, <2>2, <2>3, <2>4
<1>2. EventsNameTheirDataset'
    BY <1>1 DEF TrainingInv, EventsNameTheirDataset
<1>3. PendingIsOfThisRun'
    BY DEF TrainingInv, PendingIsOfThisRun, Kept, Exposed
<1> QED
    BY <1>2, <1>3

-----------------------------------------------------------------------------
(* What the steps do to the file.                                          *)

\* An exposure on line i of a file names the data_ingest event of its run.
IngestBefore(f, i, j) ==
    /\ f[i].body[1] = f[j].body[1] /\ f[i].body[2].life = f[j].body[2].life
    /\ f[j].body[2].kind = "data_ingest"

NamesAnIngest(f, i) ==
    f[i].body[2].kind # "data_ingest" =>
        IF f[i].body[2].dataset.of = "content"
        THEN \E j \in 1..(i-1) : /\ j \in DOMAIN f /\ f[j].ok /\ IngestBefore(f, i, j)
                                 /\ f[j].body[2].dataset = f[i].body[2].dataset
        ELSE \A j \in 1..(i-1) : ~IngestBefore(f, i, j)

\* The property, line by line.
LEMMA ExposuresByLine ==
    ExposuresNameAnIngest <=> \A i \in Legible : NamesAnIngest(file, i)
BY DEF ExposuresNameAnIngest, NamesAnIngest, IngestBefore, SameRun, OfDataset, Events

\* Line i says what it said when no line up to it has changed.
LEMMA KeptLine ==
    ASSUME NEW f, IsFile(f), NEW g, IsFile(g), NEW i \in DOMAIN f, i \in DOMAIN g,
           \A k \in 1..i : g[k] = f[k], NamesAnIngest(f, i)
    PROVE  NamesAnIngest(g, i)
<1>1. /\ Len(f) \in Nat /\ DOMAIN f = 1..Len(f)
      /\ Len(g) \in Nat /\ DOMAIN g = 1..Len(g)
    BY FileShape
<1>2. \A j \in 1..(i-1) : j \in 1..i /\ j \in DOMAIN f /\ j \in DOMAIN g
    BY <1>1
<1>3. i \in 1..i
    BY <1>1
<1> QED
    BY <1>2, <1>3 DEF NamesAnIngest, IngestBefore

\* One line more.
LEMMA OneLineMore ==
    ASSUME NEW n \in Nat, NEW m, m = n + 1
    PROVE  m \in 1..m /\ \A i \in 1..n : i \in 1..m
OBVIOUS

\* The lines up to one that is not the last.
LEMMA LinesUpTo ==
    ASSUME NEW n \in Nat, NEW i \in 1..n
    PROVE  i \in 1..i /\ (i # n => \A k \in 1..i : k \in 1..n /\ k # n)
OBVIOUS

\* A line is written after the others, or ends up inside an unterminated one.
Appended(e) ==
    /\ Len(file') = Len(file) + 1 /\ file'[Len(file) + 1] = e
    /\ \A i \in 1..Len(file) : file'[i] = file[i]
    /\ terminated \/ Len(file) = 0

Merged ==
    /\ Len(file') = Len(file) /\ Len(file) \in DOMAIN file /\ ~file'[Len(file)].ok
    /\ \A i \in 1..Len(file) : i # Len(file) => file'[i] = file[i]

LEMMA WrittenShape ==
    ASSUME TypeOK, NEW e, file' = AppendLine(file, terminated, e)
    PROVE  /\ IsFile(file) /\ IsFile(file')
           /\ Len(file) \in Nat /\ DOMAIN file = 1..Len(file) /\ DOMAIN file' = 1..Len(file')
           /\ Appended(e) \/ Merged
<1>1. IsFile(file) /\ Len(file) \in Nat /\ DOMAIN file = 1..Len(file)
    BY FileShape DEF TypeOK, IsFile
<1>2. CASE terminated \/ file = << >>
    <2>1. file' = Append(file, e)
        BY <1>2 DEF AppendLine
    <2>2. terminated \/ Len(file) = 0
        BY <1>2, EmptySeq
    <2> QED
        BY <1>1, <2>1, <2>2, AppendShape DEF Appended
<1>3. CASE ~(terminated \/ file = << >>)
    <2>1. Len(file) > 0 /\ Len(file) \in DOMAIN file
        BY <1>1, <1>3, EmptySeq DEF IsFile
    <2>2. file' = [file EXCEPT ![Len(file)] = Malformed]
        BY <1>3 DEF AppendLine
    <2>3. /\ IsFile(file') /\ Len(file') = Len(file) /\ DOMAIN file' = DOMAIN file
          /\ \A i \in DOMAIN file :
                file'[i] = IF i = Len(file) THEN Malformed ELSE file[i]
        <3> DEFINE g == [file EXCEPT ![Len(file)] = Malformed]
        <3>1. /\ IsFile(g) /\ Len(g) = Len(file) /\ DOMAIN g = DOMAIN file
              /\ \A i \in DOMAIN file : g[i] = IF i = Len(file) THEN Malformed ELSE file[i]
            BY <1>1, <2>1, ExceptShape
        <3> HIDE DEF g
        <3> QED
            BY <2>2, <3>1 DEF g
    <2> QED
        BY <1>1, <2>1, <2>3, SealFacts DEF Merged
<1> QED
    BY <1>2, <1>3

\* A merged line leaves a file that does not parse; an appended one leaves a
\* file that parses only if it did before.
LEMMA WrittenReadable ==
    ASSUME TypeOK, NEW e, file' = AppendLine(file, terminated, e), Readable(file)'
    PROVE  Appended(e) /\ Readable(file) /\ e.ok
<1>1. /\ Len(file) \in Nat /\ DOMAIN file = 1..Len(file) /\ DOMAIN file' = 1..Len(file')
      /\ Appended(e) \/ Merged
    BY WrittenShape
<1>2. ~Merged
    <2> SUFFICES ASSUME Merged PROVE FALSE
        OBVIOUS
    <2>1. Len(file) \in DOMAIN file'
        BY <1>1 DEF Merged
    <2> QED
        BY <2>1 DEF Merged, Readable
<1>3. Len(file) + 1 \in DOMAIN file' /\ \A i \in DOMAIN file : i \in DOMAIN file'
    <2>1. Len(file') = Len(file) + 1
        BY <1>1, <1>2 DEF Appended
    <2> QED
        BY <1>1, <2>1, OneLineMore
<1> QED
    BY <1>1, <1>2, <1>3 DEF Appended, Readable

\* An event of a file is a content that has been used.
LEMMA EventBodies ==
    ASSUME TypeOK, NEW i \in Events
    PROVE  file[i].body \in used /\ file[i].body \in Body
BY LineFacts DEF TypeOK, Events

\* The exposures of a written file: those it had, and the one that is new.
LEMMA WrittenExposures ==
    ASSUME TrainingInv, IInv, NEW w \in Writer, Linking(w),
           NEW e \in {Malformed, PreparedEvent(w)}, file' = AppendLine(file, terminated, e)
    PROVE  ExposuresNameAnIngest'
<1>0. /\ TypeOK /\ ContentsAreFresh /\ PendingIsOfThisRun /\ EventsNameTheirDataset
      /\ RememberedIsIngested /\ ForgottenIsNotIngested
      /\ \A i \in Legible : NamesAnIngest(file, i)
    BY ExposuresByLine DEF TrainingInv, IInv
<1>1. /\ IsFile(file) /\ IsFile(file')
      /\ Len(file) \in Nat /\ DOMAIN file = 1..Len(file) /\ DOMAIN file' = 1..Len(file')
      /\ Appended(e) \/ Merged
    BY <1>0, WrittenShape
<1> SUFFICES ASSUME NEW i \in Legible' PROVE NamesAnIngest(file', i)
    BY ExposuresByLine DEF ExposuresNameAnIngest, NamesAnIngest, IngestBefore, SameRun,
                           OfDataset, Events
<1>2. i \in DOMAIN file' /\ \A k \in 1..i : file'[k].ok
    BY DEF Legible
<1>3. CASE i \in DOMAIN file /\ \A k \in 1..i : file'[k] = file[k]
    <2>1. i \in Legible
        BY <1>2, <1>3 DEF Legible
    <2> QED
        BY <1>0, <1>1, <1>2, <1>3, <2>1, KeptLine
<1>4. CASE ~(i \in DOMAIN file /\ \A k \in 1..i : file'[k] = file[k])
    <2>1. Appended(e) /\ i = Len(file) + 1
        <3>1. CASE Appended(e)
            <4>1. \A k \in 1..i : i # Len(file) + 1 => k \in 1..Len(file)
                BY <1>1, <1>2, <3>1 DEF Appended
            <4> QED
                BY <1>1, <1>2, <1>4, <3>1, <4>1 DEF Appended
        <3>2. CASE Merged
            <4>a. Len(file') = Len(file)
                BY <3>2 DEF Merged
            <4>1. i \in 1..Len(file) /\ i \in 1..i
                BY <1>1, <1>2, <4>a, LinesUpTo
            <4>2. i # Len(file)
                BY <1>2, <3>2, <4>1 DEF Merged
            <4>3. \A k \in 1..i : k \in 1..Len(file) /\ k # Len(file)
                BY <1>1, <4>1, <4>2, LinesUpTo
            <4> QED
                BY <1>1, <1>4, <3>2, <4>1, <4>3 DEF Merged
        <3> QED
            BY <1>1, <3>1, <3>2
    <2>2. /\ file'[i] = e /\ i - 1 = Len(file)
          /\ \A k \in 1..Len(file) : k \in 1..i /\ k \in DOMAIN file' /\ file'[k] = file[k]
        BY <1>1, <2>1 DEF Appended
    <2>3. e = PreparedEvent(w) /\ e.body = pending[w] /\ e.ok
        <3>1. i \in 1..i
            BY <1>1, <2>1
        <3>2. e.ok
            BY <1>2, <2>2, <3>1
        <3> QED
            BY <3>2, SealFacts DEF PreparedEvent
    <2>4. Readable(file) /\ \A k \in 1..Len(file) : k \in Events
        BY <1>1, <1>2, <2>2 DEF Readable, Events
    <2>5. /\ pending[w] \in used /\ pending[w][1] = w
          /\ pending[w][2].life = life[w]
          /\ pending[w][2].kind # "data_ingest" => pending[w][2].dataset = Exposed(w)
        BY <1>0 DEF ContentsAreFresh, PendingIsOfThisRun
    <2>6. /\ Exposed(w) = IF last[w] = Unregistered THEN ReferenceHash(DatasetRef[w])
                                                    ELSE ContentHash(DatasetRef[w])
          /\ last[w] # Unregistered => IngestsOf(w) # {}
          /\ last[w] = Unregistered => IngestsOf(w) = {} \/ Len(file) = 0
        BY <1>0, <2>1, <2>4 DEF Exposed, RememberedIsIngested, ForgottenIsNotIngested, Appended
    <2>7. CASE last[w] = Unregistered
        <3>1. \A j \in 1..Len(file) : ~IngestBefore(file', i, j)
            BY <1>1, <2>2, <2>3, <2>4, <2>5, <2>6, <2>7 DEF IngestBefore, IngestsOf
        <3> QED
            BY <2>2, <2>3, <2>5, <2>6, <2>7, <3>1, RefFacts DEF NamesAnIngest
    <2>8. CASE last[w] # Unregistered
        <3>1. PICK j \in IngestsOf(w) : TRUE
            BY <2>6, <2>8
        <3>2. /\ j \in 1..Len(file) /\ file[j].ok /\ j \in Events
              /\ file[j].body[1] = w /\ file[j].body[2].kind = "data_ingest"
              /\ file[j].body[2].life = life[w]
            BY <1>1, <3>1 DEF IngestsOf, Events
        <3>3. file[j].body[2].dataset = ContentHash(DatasetRef[w])
            BY <1>0, <3>2, EventBodies DEF EventsNameTheirDataset
        <3>4. IngestBefore(file', i, j)
            BY <2>2, <2>3, <2>5, <3>2 DEF IngestBefore
        <3> QED
            BY <2>2, <2>3, <2>5, <2>6, <2>8, <3>2, <3>3, <3>4, RefFacts DEF NamesAnIngest
    <2> QED
        BY <2>7, <2>8
<1> QED
    BY <1>3, <1>4

\* The data_ingest events of a run are still there after a write.
LEMMA IngestsStay ==
    ASSUME TypeOK, NEW e, Appended(e), DOMAIN file' = 1..Len(file'),
           NEW v \in Writer, life'[v] = life[v]
    PROVE  /\ IngestsOf(v) # {} => IngestsOf(v)' # {}
           /\ IngestsOf(v)' # {} =>
                 \/ IngestsOf(v) # {}
                 \/ e.body[1] = v /\ e.body[2].kind = "data_ingest"
<1>1. Len(file) \in Nat /\ DOMAIN file = 1..Len(file) /\ Len(file') = Len(file) + 1
    BY FileShape DEF TypeOK, IsFile, Appended
<1>2. \A j \in 1..Len(file) : j \in DOMAIN file' /\ file'[j] = file[j]
    BY <1>1, OneLineMore DEF Appended
<1>3. \A j \in DOMAIN file' : j \in 1..Len(file) \/ (j = Len(file) + 1 /\ file'[j] = e)
    BY <1>1 DEF Appended
<1>4. \A j \in IngestsOf(v) : j \in IngestsOf(v)'
    BY <1>1, <1>2 DEF IngestsOf, Events
<1>5. \A j \in IngestsOf(v)' :
          j \in IngestsOf(v) \/ (e.body[1] = v /\ e.body[2].kind = "data_ingest")
    BY <1>1, <1>2, <1>3 DEF IngestsOf, Events
<1> QED
    BY <1>4, <1>5

\* A renewed process has no event in a file that has gained none.
LEMMA RenewedHasNone ==
    ASSUME TypeOK, \A i \in Events' : i \in Events /\ file'[i] = file[i],
           NEW v \in Writer, Renewed(v)
    PROVE  IngestsOf(v)' = {}
BY EventBodies DEF Renewed, IngestsOf

\* Memory and file still agree where no line is written: a process is kept with
\* its file, or renewed.
LEMMA AgreementStays ==
    ASSUME TrainingInv,
           \A i \in Events' : i \in Events /\ file'[i] = file[i],
           \A v \in Writer : \/ Renewed(v)
                             \/ Kept(v) /\ file' = file /\ terminated' = terminated
    PROVE  RememberedIsIngested' /\ ForgottenIsNotIngested'
<1>0. TypeOK /\ RememberedIsIngested /\ ForgottenIsNotIngested
    BY DEF TrainingInv, TrainingTypeOK
<1>1. ASSUME NEW v \in Writer, Renewed(v)
      PROVE  last'[v] = Unregistered /\ IngestsOf(v)' = {}
    BY <1>0, <1>1, RenewedHasNone DEF Renewed
<1>2. ASSUME NEW v \in Writer, Kept(v), file' = file, terminated' = terminated
      PROVE  /\ last'[v] = last[v] /\ IngestsOf(v)' = IngestsOf(v)
             /\ Readable(file)' = Readable(file)
    BY <1>2 DEF Kept, IngestsOf, Events
<1>3. RememberedIsIngested'
    BY <1>0, <1>1, <1>2 DEF RememberedIsIngested
<1>4. ForgottenIsNotIngested'
    BY <1>0, <1>1, <1>2 DEF ForgottenIsNotIngested
<1> QED
    BY <1>3, <1>4

\* A file that keeps or loses lines keeps what its exposures name.
LEMMA CutExposures ==
    ASSUME TrainingInv, Cut(file, file')
    PROVE  ExposuresNameAnIngest'
<1>0. TypeOK /\ IsFile(file) /\ IsFile(file') /\ \A i \in Legible : NamesAnIngest(file, i)
    BY ExposuresByLine DEF TrainingInv, TrainingTypeOK, TypeOK, IsFile, Cut
<1>1. /\ Len(file) \in Nat /\ DOMAIN file = 1..Len(file)
      /\ Len(file') \in Nat /\ DOMAIN file' = 1..Len(file')
      /\ \A i \in Events' : i \in Events /\ file'[i] = file[i]
    BY <1>0, CutEvents
<1> SUFFICES ASSUME NEW i \in Legible' PROVE NamesAnIngest(file', i)
    BY ExposuresByLine DEF ExposuresNameAnIngest, NamesAnIngest, IngestBefore, SameRun,
                           OfDataset, Events
<1>2. i \in 1..Len(file') /\ \A k \in 1..i : file'[k].ok
    BY <1>1 DEF Legible
<1>3. i \in 1..i /\ \A k \in 1..i : k \in 1..Len(file')
    BY <1>1, <1>2
<1>4. \A k \in 1..i : k \in Events /\ file'[k] = file[k]
    BY <1>1, <1>2, <1>3 DEF Events
<1>5. i \in Legible
    BY <1>2, <1>3, <1>4 DEF Legible, Events
<1> QED
    BY <1>0, <1>1, <1>2, <1>4, <1>5, KeptLine DEF Legible

\* Nothing changes.
LEMMA SameExposures ==
    ASSUME TrainingInv, file' = file
    PROVE  ExposuresNameAnIngest' /\ \A i \in Events' : i \in Events /\ file'[i] = file[i]
BY DEF TrainingInv, ExposuresNameAnIngest, Legible, SameRun, OfDataset, Events

-----------------------------------------------------------------------------
(* The invariant.                                                          *)

\* The empty ledger and the callbacks as they are built.
LEMMA TrainingBegins == TrainingInit => TrainingInv
<1> SUFFICES ASSUME TrainingInit PROVE TrainingInv
    OBVIOUS
<1>1. TypeOK /\ used = {} /\ file = << >> /\ DOMAIN file = {}
    BY InitTypeOK, EmptySeq DEF TrainingInit, Init
<1>2. 1 \in 1..(MaxLives + 1)
    BY TrainingAssumption
<1>3. TrainingTypeOK
    BY <1>1, <1>2 DEF TrainingInit, TrainingTypeOK
<1>4. IsFiniteSet(used)
    BY <1>1, FS_EmptySet
<1>5. ExposuresNameAnIngest /\ \A w \in Writer : IngestsOf(w) = {}
    BY <1>1 DEF ExposuresNameAnIngest, Legible, IngestsOf, Events
<1>6. \A w \in Writer : ~Linking(w) /\ last[w] = Unregistered
    BY DEF TrainingInit, Init, Linking
<1> QED
    BY <1>1, <1>3, <1>4, <1>5, <1>6
    DEF TrainingInv, EventsNameTheirDataset, PendingIsOfThisRun, RememberedIsIngested,
        ForgottenIsNotIngested

\* A callback that prepares an event.
LEMMA PreparedKeeps ==
    ASSUME TrainingInv, TypeOK', NEW w \in Writer, NEW b \in Body, Prepared(w, b)
    PROVE  TrainingInv'
<1>0. TrainingTypeOK /\ TypeOK
    BY DEF TrainingInv, TrainingTypeOK
<1>1. /\ file' = file /\ terminated' = terminated /\ used' = used \cup {b} /\ b[1] = w
      /\ last' = last /\ life' = life
      /\ phase' = [phase EXCEPT ![w] = "linked"] /\ pending' = [pending EXCEPT ![w] = b]
      /\ b[2].life = life[w]
      /\ b[2].dataset = IF b[2].kind = "data_ingest"
                        THEN ContentHash(DatasetRef[w]) ELSE Exposed(w)
    BY DEF Prepared, Prepare
<1>2. TrainingTypeOK'
    BY <1>0, <1>1 DEF TrainingTypeOK
<1>3. IsFiniteSet(used')
    BY <1>1, FS_AddElement DEF TrainingInv
<1>4. EventsNameTheirDataset'
    <2>1. Exposed(w) \in {ContentHash(DatasetRef[w]), ReferenceHash(DatasetRef[w])}
        BY <1>0, ExposedFacts DEF TrainingInv, RememberedIsIngested
    <2>2. life[w] <= life[w]
        BY <1>0, TrainingAssumption DEF TrainingTypeOK
    <2> QED
        BY <1>1, <2>1, <2>2 DEF TrainingInv, EventsNameTheirDataset
<1>5. PendingIsOfThisRun'
    BY <1>0, <1>1 DEF TrainingInv, PendingIsOfThisRun, Linking, TypeOK, Exposed
<1>6. RememberedIsIngested' /\ ForgottenIsNotIngested'
    <2>1. \A v \in Writer : IngestsOf(v)' = IngestsOf(v)
        BY <1>1 DEF IngestsOf, Events
    <2>2. RememberedIsIngested'
        BY <1>1, <2>1 DEF TrainingInv, RememberedIsIngested
    <2>3. ForgottenIsNotIngested'
        BY <1>1, <2>1 DEF TrainingInv, ForgottenIsNotIngested
    <2> QED
        BY <2>2, <2>3
<1> QED
    BY <1>1, <1>2, <1>3, <1>4, <1>5, <1>6, SameExposures DEF TrainingInv

\* A process that stays as it is has not changed its life.
LEMMA KeptLives ==
    ASSUME TrainingInv, UNCHANGED <<last, life>>
    PROVE  MemoryType' /\ \A v \in Writer : life[v] <= life'[v] /\ Kept(v)
BY TrainingAssumption DEF TrainingInv, TrainingTypeOK, MemoryType, Kept

\* A callback that returns.
LEMMA ReturnKeeps ==
    ASSUME TrainingInv, IInv, TypeOK', NEW w \in Writer, CallbackReturns(w)
    PROVE  TrainingInv'
<1> DEFINE e == PreparedEvent(w)
           h == pending[w][2].dataset
           ingest == pending[w][2].kind = "data_ingest"
<1>0. /\ TypeOK /\ MemoryType /\ Linking(w) /\ pending[w] \in Body /\ e.body = pending[w]
      /\ ingest => h = ContentHash(DatasetRef[w])
    BY SealFacts
    DEF TrainingInv, TrainingTypeOK, MemoryType, IInv, ContentsAreFresh, TypeOK,
        CallbackReturns, Write, Linking, PendingIsOfThisRun, PreparedEvent
<1>1. /\ file' = AppendLine(file, terminated, e) /\ used' = used /\ life' = life
      /\ last' = IF ingest THEN [last EXCEPT ![w] = h] ELSE last
      /\ phase' = [phase EXCEPT ![w] = "idle"] /\ pending' = [pending EXCEPT ![w] = NoBody]
    BY DEF CallbackReturns, Write, Idle
<1> HIDE DEF e
<1>2. MemoryType' /\ \A v \in Writer : life[v] <= life'[v]
    <2>1. ingest => h \in DatasetHash
        BY <1>0, RefFacts
    <2>2. \A v \in Writer : life[v] <= life[v]
        BY <1>0, TrainingAssumption DEF MemoryType
    <2> QED
        BY <1>0, <1>1, <2>1, <2>2 DEF MemoryType
<1>3. EventsNameTheirDataset' /\ PendingIsOfThisRun'
    <2>1. \A v \in Writer : Linking(v)' => Linking(v) /\ pending'[v] = pending[v] /\ Kept(v)
        BY <1>0, <1>1 DEF TypeOK, Linking, Kept, MemoryType
    <2> QED
        BY <1>1, <1>2, <2>1, PendingStays
<1>4. ExposuresNameAnIngest'
    BY <1>0, <1>1, WrittenExposures DEF e
<1>5. ASSUME NEW v \in Writer, Readable(file)'
      PROVE  /\ last'[v] # Unregistered => IngestsOf(v)' # {}
             /\ last'[v] = Unregistered => IngestsOf(v)' = {}
    <2>1. Appended(e) /\ Readable(file) /\ e.ok /\ DOMAIN file' = 1..Len(file')
        BY <1>0, <1>1, <1>5, WrittenReadable, WrittenShape
    <2>2. /\ IngestsOf(v) # {} => IngestsOf(v)' # {}
          /\ IngestsOf(v)' # {} =>
                \/ IngestsOf(v) # {}
                \/ e.body[1] = v /\ e.body[2].kind = "data_ingest"
        BY <1>0, <1>1, <2>1, IngestsStay
    <2>3. IF v = w /\ ingest THEN last'[v] = ContentHash(DatasetRef[w]) ELSE last'[v] = last[v]
        BY <1>0, <1>1 DEF MemoryType
    <2>4. CASE v = w /\ ingest
        <3>1. pending[w][1] = w /\ pending[w][2].life = life[w]
            BY <1>0 DEF IInv, ContentsAreFresh, TrainingInv, PendingIsOfThisRun
        <3>2. Len(file) + 1 \in DOMAIN file' /\ file'[Len(file) + 1] = e
            BY <1>0, <2>1, FileShape, OneLineMore DEF Appended, TypeOK, IsFile
        <3>3. Len(file) + 1 \in IngestsOf(v)'
            BY <1>0, <1>1, <2>1, <2>4, <3>1, <3>2 DEF IngestsOf, Events
        <3> QED
            BY <2>3, <2>4, <3>3, RefFacts
    <2>5. CASE ~(v = w /\ ingest)
        <3>1. last'[v] # Unregistered => IngestsOf(v) # {}
            BY <2>1, <2>3, <2>5 DEF TrainingInv, RememberedIsIngested
        <3>2. last'[v] = Unregistered => IngestsOf(v) = {}
            <4>1. CASE terminated
                BY <2>1, <2>3, <2>5, <4>1 DEF TrainingInv, ForgottenIsNotIngested
            <4>2. CASE Len(file) = 0
                BY <1>0, <4>2, FileShape DEF TypeOK, IsFile, IngestsOf, Events
            <4> QED
                BY <2>1, <4>1, <4>2 DEF Appended
        <3>3. ~(e.body[1] = v /\ e.body[2].kind = "data_ingest")
            BY <1>0, <2>5 DEF IInv, ContentsAreFresh
        <3> QED
            BY <2>2, <3>1, <3>2, <3>3
    <2> QED
        BY <2>4, <2>5
<1>6. RememberedIsIngested' /\ ForgottenIsNotIngested'
    <2>1. \A v \in Writer : last'[v] # Unregistered => last'[v] = ContentHash(DatasetRef[v])
        BY <1>0, <1>1 DEF TrainingInv, RememberedIsIngested, MemoryType
    <2> QED
        BY <1>5, <2>1 DEF RememberedIsIngested, ForgottenIsNotIngested
<1>7. TrainingTypeOK' /\ IsFiniteSet(used')
    BY <1>1, <1>2 DEF TrainingInv, TrainingTypeOK, MemoryType
<1> QED
    BY <1>3, <1>4, <1>6, <1>7 DEF TrainingInv

\* A write that raises.
LEMMA RaiseKeeps ==
    ASSUME TrainingInv, IInv, TypeOK', NEW w \in Writer, CallbackRaises(w)
    PROVE  TrainingInv'
<1>1. /\ TypeOK /\ Linking(w) /\ used' = used /\ terminated' = FALSE
      /\ phase' = [phase EXCEPT ![w] = "idle"] /\ pending' = [pending EXCEPT ![w] = NoBody]
    BY DEF TrainingInv, TrainingTypeOK, CallbackRaises, TornWrite, Idle, Linking
<1>2. PICK e \in {Malformed, PreparedEvent(w)} : file' = AppendLine(file, terminated, e)
    BY DEF CallbackRaises, TornWrite
<1>3. /\ MemoryType' /\ \A v \in Writer : life[v] <= life'[v]
      /\ \A v \in Writer : v # w => Kept(v)
      /\ Kept(w) \/ Renewed(w)
    BY Restarted, KeptLives DEF CallbackRaises
<1>4. EventsNameTheirDataset' /\ PendingIsOfThisRun'
    <2>1. \A v \in Writer : Linking(v)' => Linking(v) /\ pending'[v] = pending[v] /\ Kept(v)
        BY <1>1, <1>3 DEF TypeOK, Linking
    <2> QED
        BY <1>1, <1>3, <2>1, PendingStays
<1>5. ExposuresNameAnIngest'
    BY <1>1, <1>2, WrittenExposures
<1>6. ASSUME NEW v \in Writer, last'[v] # Unregistered
      PROVE  /\ last'[v] = ContentHash(DatasetRef[v])
             /\ Readable(file)' => IngestsOf(v)' # {}
    <2>1. last'[v] = last[v] /\ life'[v] = life[v]
        BY <1>3, <1>6 DEF Kept, Renewed
    <2>2. ASSUME Readable(file)' PROVE IngestsOf(v)' # {}
        <3>1. Appended(e) /\ Readable(file) /\ DOMAIN file' = 1..Len(file')
            BY <1>1, <1>2, <2>2, WrittenReadable, WrittenShape
        <3>2. IngestsOf(v) # {}
            BY <1>6, <2>1, <3>1 DEF TrainingInv, RememberedIsIngested
        <3> QED
            BY <1>1, <2>1, <3>1, <3>2, IngestsStay
    <2> QED
        BY <1>6, <2>1, <2>2 DEF TrainingInv, RememberedIsIngested
<1>7. RememberedIsIngested' /\ ForgottenIsNotIngested'
    BY <1>1, <1>6 DEF RememberedIsIngested, ForgottenIsNotIngested
<1>8. TrainingTypeOK' /\ IsFiniteSet(used')
    BY <1>1, <1>3 DEF TrainingInv, TrainingTypeOK, MemoryType
<1> QED
    BY <1>4, <1>5, <1>7, <1>8 DEF TrainingInv

\* A process that ends without writing, or is started again between callbacks.
LEMMA EndKeeps ==
    ASSUME TrainingInv, TypeOK', NEW w \in Writer, KilledInCallback(w) \/ Rerun(w)
    PROVE  TrainingInv'
<1>1. /\ TypeOK /\ file' = file /\ used' = used /\ terminated' = terminated
      /\ \A v \in Writer : Linking(v)' => v # w /\ Linking(v) /\ pending'[v] = pending[v]
    BY DEF TrainingInv, TrainingTypeOK, TypeOK, KilledInCallback, Kill, Idle, Rerun, vars, Linking
<1>2. /\ MemoryType' /\ \A v \in Writer : life[v] <= life'[v]
      /\ \A v \in Writer : v # w => Kept(v)
      /\ Kept(w) \/ Renewed(w)
    BY Restarted, KeptLives DEF KilledInCallback, Rerun
<1>3. EventsNameTheirDataset' /\ PendingIsOfThisRun'
    BY <1>1, <1>2, PendingStays
<1>4. ExposuresNameAnIngest' /\ RememberedIsIngested' /\ ForgottenIsNotIngested'
    BY <1>1, <1>2, SameExposures, AgreementStays
<1>5. TrainingTypeOK' /\ IsFiniteSet(used')
    BY <1>1, <1>2 DEF TrainingInv, TrainingTypeOK, MemoryType
<1> QED
    BY <1>3, <1>4, <1>5 DEF TrainingInv

\* A power loss, after which every process is a new one.
LEMMA OutageKeeps ==
    ASSUME TrainingInv, TypeOK', Outage
    PROVE  TrainingInv'
<1>1. TypeOK /\ IsFile(file) /\ used' = used /\ Cut(file, file') /\ \A v \in Writer : ~Linking(v)'
    BY PowerLossShape
    DEF TrainingInv, TrainingTypeOK, TypeOK, IsFile, Outage, PowerLoss, Linking
<1>2. MemoryType' /\ \A v \in Writer : life[v] <= life'[v] /\ Renewed(v)
    BY Restarted DEF Outage
<1>3. \A i \in Events' : i \in Events /\ file'[i] = file[i]
    BY <1>1, CutEvents
<1>4. EventsNameTheirDataset' /\ PendingIsOfThisRun'
    BY <1>1, <1>2, PendingStays
<1>5. ExposuresNameAnIngest' /\ RememberedIsIngested' /\ ForgottenIsNotIngested'
    BY <1>1, <1>2, <1>3, CutExposures, AgreementStays
<1>6. TrainingTypeOK' /\ IsFiniteSet(used')
    BY <1>1, <1>2 DEF TrainingInv, TrainingTypeOK, MemoryType
<1> QED
    BY <1>4, <1>5, <1>6 DEF TrainingInv

\* Both invariants are inductive together, and the step is one of the ledger.
LEMMA TrainingStep ==
    ASSUME TrainingInv, IInv, [TrainingNext]_tvars
    PROVE  TrainingInv' /\ IInv' /\ [Next]_vars
<1>1. TrainingTypeOK /\ IsFiniteSet(used)
    BY DEF TrainingInv
<1>2. [Next]_vars
    BY <1>1, StepsOfTheLedger
<1>3. IInv' /\ TypeOK'
    BY <1>2, StepIInv DEF IInv
<1>4. ASSUME UNCHANGED tvars PROVE TrainingInv'
    <2>1. /\ UNCHANGED <<last, life, file, terminated, used, phase, pending>>
          /\ TrainingTypeOK'
        BY <1>1, <1>3, <1>4 DEF tvars, vars, TrainingTypeOK
    <2>2. EventsNameTheirDataset' /\ PendingIsOfThisRun'
        BY <2>1 DEF TrainingInv, EventsNameTheirDataset, PendingIsOfThisRun, Linking, Exposed
    <2>3. ExposuresNameAnIngest'
        BY <2>1, SameExposures
    <2>4. RememberedIsIngested'
        BY <2>1 DEF TrainingInv, RememberedIsIngested, IngestsOf, Events
    <2>5. ForgottenIsNotIngested'
        BY <2>1 DEF TrainingInv, ForgottenIsNotIngested, IngestsOf, Events
    <2> QED
        BY <1>1, <2>1, <2>2, <2>3, <2>4, <2>5 DEF TrainingInv
<1> QED
    BY <1>1, <1>2, <1>3, <1>4, TrainingCases, PreparedKeeps, ReturnKeeps, RaiseKeeps,
       EndKeeps, OutageKeeps

-----------------------------------------------------------------------------
(* The theorems.                                                           *)

\* Whatever the callbacks and the failures, training appends to the ledger as
\* Ledger says and does nothing else to it (every log_* method ends in
\* AppendOnlyEventLog.append), so each property LedgerProofs proves of the
\* ledger holds while training.
THEOREM TrainingIsALedger == TrainingSpec => Spec
<1>1. TrainingInit => Init /\ TrainingInv /\ IInv
    BY TrainingBegins, InitIInv DEF TrainingInit
<1> QED
    BY <1>1, TrainingStep, PTL DEF TrainingSpec, Spec

\* The memory of every callback and the file agree in every reachable state.
THEOREM TrainingInvariance == TrainingSpec => [](TrainingInv /\ IInv)
<1>1. TrainingInit => TrainingInv /\ IInv
    BY TrainingBegins, InitIInv DEF TrainingInit
<1> QED
    BY <1>1, TrainingStep, PTL DEF TrainingSpec

\* The state of the callbacks and of their ledger keeps its type.
THEOREM TrainingTypeCorrect == TrainingSpec => []TrainingTypeOK
<1>1. TrainingInv => TrainingTypeOK
    BY DEF TrainingInv
<1> QED
    BY <1>1, TrainingInvariance, PTL

\* Whatever races, is torn, killed or lost, the dataset hash of a checkpoint or
\* an evaluation leads to the data_ingest event of its run, and is the bare
\* reference's only if the run has none (ECLTrainerCallback.on_save).
THEOREM ExposuresLeadToAnIngest == TrainingSpec => []ExposuresNameAnIngest
<1>1. TrainingInv => ExposuresNameAnIngest
    BY DEF TrainingInv
<1> QED
    BY <1>1, TrainingInvariance, PTL

\* No event of a training run links to an event that is missing before it.
THEOREM TrainingParentsPrecede == TrainingSpec => []ParentsPrecede
BY TrainingIsALedger, ParentsAlwaysPrecede, PTL

\* Ranks that race fork the chain, but never wider than there are ranks.
THEOREM TrainingForksAreBounded == TrainingSpec => []SiblingsHaveDistinctWriters
BY TrainingIsALedger, ForksAreBounded, PTL

\* What a callback has recorded stays recorded until storage fails.
THEOREM TrainingAcksAreKept == TrainingSpec => []AckedEventsStay
BY TrainingIsALedger, AcksAreKept, PTL

\* No callback repairs a line the verifier stops at.
THEOREM TrainingDefectsStay == TrainingSpec => DefectsStay
BY TrainingIsALedger, DefectsAreForever, PTL
=============================================================================
