----------------------------- MODULE AtlasProofs -----------------------------
(* Proofs of the safety properties of AtlasPatch and AtlasReaders, for any *)
(* number of processes, records, domains and requests and any patches.     *)
EXTENDS AtlasReaders, WellFoundedInduction, TLAPS

-----------------------------------------------------------------------------
(* Facts about operations.                                                 *)

LEMMA EachPatch ==
    ASSUME PatchAssumption, NEW p \in Patches
    PROVE  /\ Len(p.steps) \in Nat /\ DOMAIN p.steps = 1..Len(p.steps)
           /\ \A i \in 1..Len(p.steps) : p.steps[i] \in StepsOf
BY DEF PatchAssumption

LEMMA EachStep ==
    ASSUME NEW s \in StepsOf
    PROVE  /\ s.kind \in {"upsert", "status", "bad_member"}
           /\ s.kind = "upsert" => s.record \in Record /\ s.content \in Content
           /\ s.kind = "status" => s.domain \in Domain /\ s.status \in Statuses
BY DEF StepsOf

\* What the last operation that is done on S, a set of places, is.
LEMMA LatestOf ==
    ASSUME NEW S \in SUBSET Nat, NEW i \in S, \A j \in S : j <= i
    PROVE  Latest(S) = i
<1>1. \A k \in S : (\A j \in S : j <= k) => k = i
    OBVIOUS
<1> QED
    BY <1>1 DEF Latest

LEMMA SameFingerprint ==
    ASSUME rows' = rows, status' = status
    PROVE  Fingerprint' = Fingerprint
BY DEF Fingerprint, RowsOf

-----------------------------------------------------------------------------
(* The process that writes.                                                *)

\* Nothing holds of a process that is at no statement.
LEMMA NobodyElse ==
    ASSUME TypeOK, OneWriter, NEW w \in Process, Writing(w),
           NEW s, pc' = [pc EXCEPT ![w] = s]
    PROVE  /\ pc'[w] = s
           /\ \A v \in Process \ {w} : pc'[v] = pc[v] /\ pc[v] \in {"idle", "checked"}
BY DEF TypeOK, OneWriter, Writing

\* A process that begins operation i, or the end, of its patch is at it.
LEMMA BeginsAt ==
    ASSUME PatchAssumption, TypeOK, NEW w \in Process, patch[w] \in Patches,
           NEW i \in 1..(Len(patch[w].steps) + 1), Begin(w, i), patch' = patch
    PROVE  /\ pc' \in [Process -> Statements] /\ at' \in [Process -> Nat]
           /\ at'[w] = i /\ \A v \in Process \ {w} : at'[v] = at[v]
           /\ pc'[w] \in {"delete_row", "status", "bad_member", "refresh"}
           /\ i = Len(patch[w].steps) + 1 <=> pc'[w] = "refresh"
           /\ pc'[w] # "refresh" => i \in 1..Len(patch[w].steps)
           /\ pc'[w] = "delete_row" <=> pc'[w] # "refresh" /\ Step(w)'.kind = "upsert"
           /\ pc'[w] = "status" <=> pc'[w] # "refresh" /\ Step(w)'.kind = "status"
<1> DEFINE p == patch[w]
<1>1. /\ Len(p.steps) \in Nat
      /\ \A k \in 1..Len(p.steps) : p.steps[k].kind \in {"upsert", "status", "bad_member"}
    BY EachPatch, EachStep
<1>2. /\ at' \in [Process -> Nat]
      /\ at'[w] = i /\ \A v \in Process \ {w} : at'[v] = at[v]
    BY <1>1 DEF Begin, TypeOK
<1>3. /\ pc' = [pc EXCEPT ![w] = pc'[w]]
      /\ pc'[w] = IF i > Len(p.steps) THEN "refresh"
                  ELSE IF p.steps[i].kind = "upsert" THEN "delete_row" ELSE p.steps[i].kind
    BY DEF Begin, Goto, TypeOK
<1>4. Step(w)' = p.steps[i]
    BY <1>2 DEF Step
<1>5. CASE i > Len(p.steps)
  <2>1. pc'[w] = "refresh" /\ i = Len(p.steps) + 1
    BY <1>1, <1>3, <1>5
  <2>2. pc' \in [Process -> Statements]
    BY <1>3, <2>1 DEF TypeOK, Statements
  <2> QED
    BY <1>2, <2>1, <2>2
<1>6. CASE i \in 1..Len(p.steps)
  <2>1. /\ p.steps[i].kind \in {"upsert", "status", "bad_member"}
        /\ ~(i > Len(p.steps)) /\ i # Len(p.steps) + 1
    BY <1>1, <1>6
  <2>2. pc'[w] = IF p.steps[i].kind = "upsert" THEN "delete_row" ELSE p.steps[i].kind
    BY <1>3, <2>1
  <2>3. pc' \in [Process -> Statements]
    BY <1>3, <2>1, <2>2 DEF TypeOK, Statements
  <2> QED
    BY <1>2, <1>4, <1>6, <2>1, <2>2, <2>3
<1> QED
    BY <1>1, <1>5, <1>6

-----------------------------------------------------------------------------
(* Steps that change nothing but where a process is.                       *)

\* What is said of the data and of the patches that were attempted stays.
LEMMA DataKept ==
    ASSUME UNCHANGED <<data, ghosts>>
    PROVE  /\ NoMixedRecord => NoMixedRecord'
           /\ AppliedPatchIsWhole => AppliedPatchIsWhole'
           /\ OnlyAttemptedPatchesShow => OnlyAttemptedPatchesShow'
           /\ BirthmarkDescribesAtlas => BirthmarkDescribesAtlas'
           /\ BirthmarkIsOfTheLast => BirthmarkIsOfTheLast'
<1> USE DEF data, ghosts
<1>1. NoMixedRecord => NoMixedRecord'
    BY DEF NoMixedRecord
<1>2. AppliedPatchIsWhole => AppliedPatchIsWhole'
    BY DEF AppliedPatchIsWhole
<1>3. OnlyAttemptedPatchesShow => OnlyAttemptedPatchesShow'
    BY DEF OnlyAttemptedPatchesShow
<1>4. Fingerprint' = Fingerprint
    BY SameFingerprint
<1>5. BirthmarkDescribesAtlas => BirthmarkDescribesAtlas'
    BY <1>4 DEF BirthmarkDescribesAtlas
<1>6. BirthmarkIsOfTheLast => BirthmarkIsOfTheLast'
    BY DEF BirthmarkIsOfTheLast
<1> QED
    BY <1>1, <1>2, <1>3, <1>5, <1>6

\* So does what a process has written.
LEMMA WrittenKept ==
    ASSUME UNCHANGED data, NEW w, patch'[w] = patch[w], at'[w] = at[w],
           RecordsWritten(w), StatusesSet(w)
    PROVE  RecordsWritten(w)' /\ StatusesSet(w)'
BY DEF RecordsWritten, StatusesSet, Upserts, Settings, data

\* A process that is not writing goes, or one stops writing.
LEMMA QuietKeeps ==
    ASSUME PatchInvariant, UNCHANGED <<data, ghosts>>,
           NEW w \in Process, NEW s \in {"idle", "checked"},
           pc' = [pc EXCEPT ![w] = s],
           patch' \in [Process -> Patches \cup {NoPatch}],
           at' \in [Process -> Nat],
           \A v \in Process \ {w} : patch'[v] = patch[v] /\ at'[v] = at[v],
           s = "checked" => patch'[w] \in Patches
    PROVE  PatchInvariant'
<1>1. TypeOK'
    BY DEF PatchInvariant, TypeOK, Statements, data, ghosts
<1>2. /\ pc'[w] = s
      /\ \A v \in Process \ {w} :
            pc'[v] = pc[v] /\ Step(v)' = Step(v) /\ (Writing(v)' <=> Writing(v))
    BY DEF PatchInvariant, TypeOK, Step, Writing
<1>3. ~Writing(w)'
    BY <1>2 DEF Writing
<1>4. OneWriter'
    BY <1>2, <1>3 DEF PatchInvariant, OneWriter
<1>5. AtItsOperation'
    BY <1>2, <1>3 DEF PatchInvariant, AtItsOperation, ghosts
<1>6. RecordUnderWay'
    BY <1>2 DEF PatchInvariant, RecordUnderWay, data
<1>7. EndUnderWay'
  <2>1. Fingerprint' = Fingerprint
    BY SameFingerprint DEF data
  <2> QED
    BY <1>2, <2>1 DEF PatchInvariant, EndUnderWay, data
<1>8. WrittenSoFar'
    BY <1>2, <1>3, WrittenKept DEF PatchInvariant, WrittenSoFar, data
<1> QED
    BY <1>1, <1>4, <1>5, <1>6, <1>7, <1>8, DataKept DEF PatchInvariant

\* A call that ends with an error, or dies, is one.
LEMMA LeavingKeeps ==
    ASSUME PatchInvariant, NEW w \in Process, Exit(w), UNCHANGED <<data, ghosts>>
    PROVE  PatchInvariant'
<1>1. /\ pc' = [pc EXCEPT ![w] = "idle"]
      /\ patch' \in [Process -> Patches \cup {NoPatch}]
      /\ at' \in [Process -> Nat]
      /\ \A v \in Process \ {w} : patch'[v] = patch[v] /\ at'[v] = at[v]
    BY DEF Exit, Goto, PatchInvariant, TypeOK
<1> QED
    BY <1>1, QuietKeeps

LEMMA CheckKeeps ==
    ASSUME PatchInvariant, NEW w \in Process, NEW p \in Patches, Check(w, p)
    PROVE  PatchInvariant'
<1>1. /\ UNCHANGED <<data, ghosts>>
      /\ pc' = [pc EXCEPT ![w] = "checked"]
      /\ patch' \in [Process -> Patches \cup {NoPatch}] /\ patch'[w] \in Patches
      /\ at' \in [Process -> Nat]
      /\ \A v \in Process \ {w} : patch'[v] = patch[v] /\ at'[v] = at[v]
    BY DEF Check, Goto, PatchInvariant, TypeOK
<1> QED
    BY <1>1, QuietKeeps

LEMMA ConnectKeeps ==
    ASSUME PatchAssumption, PatchInvariant, NEW w \in Process, Connect(w)
    PROVE  PatchInvariant'
<1> DEFINE p == patch[w]
<1>1. /\ UNCHANGED <<data, patch, base>> /\ last' = NoPatch
      /\ p \in Patches /\ attempted' = attempted \cup {p}
      /\ pc[w] = "checked" /\ \A v \in Process : ~Writing(v)
      /\ Begin(w, 1)
    BY DEF Connect, PatchInvariant, AtItsOperation
<1>2. Len(p.steps) \in Nat
    BY <1>1, EachPatch
<1>3. /\ pc' \in [Process -> Statements] /\ at' \in [Process -> Nat]
      /\ at'[w] = 1 /\ \A v \in Process \ {w} : at'[v] = at[v]
      /\ pc'[w] \in {"delete_row", "status", "bad_member", "refresh"}
      /\ 1 = Len(p.steps) + 1 <=> pc'[w] = "refresh"
      /\ pc'[w] = "delete_row" <=> pc'[w] # "refresh" /\ Step(w)'.kind = "upsert"
      /\ pc'[w] = "status" <=> pc'[w] # "refresh" /\ Step(w)'.kind = "status"
    BY <1>1, <1>2, BeginsAt DEF PatchInvariant
<1>4. \A v \in Process \ {w} : pc'[v] = pc[v] /\ pc[v] \in {"idle", "checked"}
    BY <1>1 DEF Begin, Goto, PatchInvariant, TypeOK, Writing
<1>5. TypeOK'
    BY <1>1, <1>3 DEF PatchInvariant, TypeOK, data
<1>6. OneWriter'
    BY <1>4 DEF OneWriter, Writing
<1>7. AtItsOperation'
  <2>1. /\ pc'[w] # "idle" => patch'[w] \in Patches
        /\ patch'[w] \in attempted' /\ last' = NoPatch
        /\ at'[w] \in 1..(Len(patch'[w].steps) + 1)
        /\ at'[w] = Len(patch'[w].steps) + 1 <=> pc'[w] \in OfEnd
        /\ pc'[w] \in OfUpsert <=> pc'[w] \notin OfEnd /\ Step(w)'.kind = "upsert"
        /\ pc'[w] = "status" <=> pc'[w] \notin OfEnd /\ Step(w)'.kind = "status"
    BY <1>1, <1>2, <1>3 DEF OfEnd, OfUpsert
  <2>2. \A v \in Process \ {w} : pc'[v] # "idle" => patch'[v] \in Patches
    BY <1>1, <1>4 DEF PatchInvariant, AtItsOperation
  <2> QED
    BY <1>4, <2>1, <2>2 DEF AtItsOperation, Writing
<1>8. RecordUnderWay' /\ EndUnderWay'
    BY <1>3, <1>4 DEF RecordUnderWay, EndUnderWay
<1>9. WrittenSoFar'
  <2>1. \A i \in DOMAIN p.steps : ~(i < at'[w])
    BY <1>1, <1>2, <1>3, EachPatch
  <2> QED
    BY <1>1, <1>4, <2>1
       DEF WrittenSoFar, RecordsWritten, StatusesSet, LastBefore, Writing, Upserts, Settings
<1>10. NoMixedRecord' /\ BirthmarkIsOfTheLast'
    BY <1>1 DEF PatchInvariant, NoMixedRecord, BirthmarkIsOfTheLast, data
<1>11. AppliedPatchIsWhole' /\ BirthmarkDescribesAtlas'
    BY <1>1 DEF AppliedPatchIsWhole, BirthmarkDescribesAtlas
<1>12. OnlyAttemptedPatchesShow'
    BY <1>1 DEF PatchInvariant, OnlyAttemptedPatchesShow, data
<1> QED
    BY <1>5, <1>6, <1>7, <1>8, <1>9, <1>10, <1>11, <1>12 DEF PatchInvariant

-----------------------------------------------------------------------------
(* The statements of a record.                                             *)

\* The operation a process is at, while it is at one.
LEMMA OperationUnderWay ==
    ASSUME PatchAssumption, PatchInvariant, NEW w \in Process,
           pc[w] \in OfUpsert \cup {"status"}
    PROVE  /\ Writing(w) /\ patch[w] \in Patches /\ patch[w] \in attempted
           /\ last = NoPatch /\ Len(patch[w].steps) \in Nat
           /\ at[w] \in DOMAIN patch[w].steps /\ at[w] \in Nat
           /\ at[w] < Len(patch[w].steps) + 1
           /\ pc[w] \in OfUpsert =>
                 /\ Step(w).kind = "upsert"
                 /\ Step(w).record \in Record /\ Step(w).content \in Content
                 /\ at[w] \in Upserts(patch[w], Step(w).record)
           /\ pc[w] = "status" =>
                 /\ Step(w).kind = "status"
                 /\ Step(w).domain \in Domain /\ Step(w).status \in Statuses
                 /\ at[w] \in Settings(patch[w], Step(w).domain)
<1>1. Writing(w) /\ pc[w] \notin OfEnd /\ pc[w] # "idle"
    BY DEF Writing, OfUpsert, OfEnd
<1>2. /\ patch[w] \in Patches /\ patch[w] \in attempted /\ last = NoPatch
      /\ at[w] \in 1..(Len(patch[w].steps) + 1)
      /\ at[w] # Len(patch[w].steps) + 1
      /\ pc[w] \in OfUpsert => Step(w).kind = "upsert"
      /\ pc[w] = "status" => Step(w).kind = "status"
    BY <1>1 DEF PatchInvariant, AtItsOperation
<1>3. /\ Len(patch[w].steps) \in Nat
      /\ DOMAIN patch[w].steps = 1..Len(patch[w].steps)
      /\ \A i \in 1..Len(patch[w].steps) : patch[w].steps[i] \in StepsOf
    BY <1>2, EachPatch
<1>4. at[w] \in 1..Len(patch[w].steps) /\ at[w] < Len(patch[w].steps) + 1
    BY <1>2, <1>3
<1>5. Step(w) \in StepsOf
    BY <1>3, <1>4 DEF Step
<1> QED
    BY <1>1, <1>2, <1>3, <1>4, <1>5, EachStep DEF Step, Upserts, Settings

\* What the operations done before have written is not that record.
LEMMA WrittenIsOfOthers ==
    ASSUME PatchAssumption, PatchInvariant, NEW w \in Process, pc[w] \in OfUpsert,
           NEW r \in Record, NEW i \in Upserts(patch[w], r),
           LastBefore(i, Upserts(patch[w], r), at[w])
    PROVE  r # Step(w).record
<1>1. /\ at[w] \in Upserts(patch[w], Step(w).record) /\ at[w] \in Nat
      /\ DOMAIN patch[w].steps = 1..Len(patch[w].steps)
    BY OperationUnderWay, EachPatch
<1>2. i \in Nat
    BY <1>1, OperationUnderWay DEF Upserts
<1> QED
    BY <1>1, <1>2 DEF LastBefore

\* Three of the four statements go on with the same record.
LEMMA RecordStatement ==
    ASSUME PatchAssumption, PatchInvariant, NEW w \in Process, pc[w] \in OfUpsert,
           NEW s \in {"delete_tags", "insert_row", "insert_tags"},
           pc' = [pc EXCEPT ![w] = s],
           UNCHANGED <<status, manifest, metadata, patch, at, ghosts>>,
           rows' \in [Record -> Seq(Content)], tags' \in [Record -> Seq(Content)],
           \A r \in Record \ {Step(w).record} : rows'[r] = rows[r] /\ tags'[r] = tags[r],
           s \in {"delete_tags", "insert_row"} => rows'[Step(w).record] = << >>,
           s \in {"insert_row", "insert_tags"} => tags'[Step(w).record] = << >>,
           s = "delete_tags" => tags' = tags,
           s = "insert_tags" => rows'[Step(w).record] = <<Step(w).content>>
    PROVE  PatchInvariant'
<1> DEFINE p == patch[w]
           rec == Step(w).record
<1>1. /\ Writing(w) /\ p \in Patches /\ p \in attempted /\ last = NoPatch
      /\ rec \in Record /\ Step(w).content \in Content /\ Step(w).kind = "upsert"
      /\ at[w] \in Upserts(p, rec)
    BY OperationUnderWay
<1>2. /\ pc'[w] = s
      /\ \A v \in Process \ {w} : pc'[v] = pc[v] /\ pc[v] \in {"idle", "checked"}
    BY <1>1, NobodyElse DEF PatchInvariant
<1>3. patch' = patch /\ at' = at /\ base' = base /\ attempted' = attempted /\ last' = last
    BY DEF ghosts
<1>4. \A v \in Process : Step(v)' = Step(v)
    BY <1>3 DEF Step
<1>5. TypeOK'
    BY <1>3 DEF PatchInvariant, TypeOK, Statements
<1>6. OneWriter'
    BY <1>2 DEF OneWriter, Writing
<1>7. AtItsOperation'
  <2>1. /\ pc[w] \in OfUpsert /\ pc'[w] \in OfUpsert
        /\ pc[w] \notin OfEnd /\ pc'[w] \notin OfEnd /\ pc'[w] # "status"
    BY <1>2 DEF OfUpsert, OfEnd
  <2>2. /\ pc'[w] # "idle" => patch'[w] \in Patches
        /\ patch'[w] \in attempted' /\ last' = NoPatch
        /\ at'[w] \in 1..(Len(patch'[w].steps) + 1)
        /\ at'[w] = Len(patch'[w].steps) + 1 <=> pc'[w] \in OfEnd
        /\ pc'[w] \in OfUpsert <=> pc'[w] \notin OfEnd /\ Step(w)'.kind = "upsert"
        /\ pc'[w] = "status" <=> pc'[w] \notin OfEnd /\ Step(w)'.kind = "status"
    BY <1>1, <1>3, <1>4, <2>1 DEF PatchInvariant, AtItsOperation
  <2>3. \A v \in Process \ {w} : pc'[v] # "idle" => patch'[v] \in Patches
    BY <1>2, <1>3 DEF PatchInvariant, AtItsOperation
  <2> QED
    BY <1>2, <2>2, <2>3 DEF AtItsOperation, Writing
<1>8. RecordUnderWay'
    BY <1>2, <1>4 DEF RecordUnderWay
<1>9. EndUnderWay'
    BY <1>2 DEF EndUnderWay
<1>10. WrittenSoFar'
  <2>1. \A v \in Process : Writing(v)' => v = w
    BY <1>2 DEF Writing
  <2>2. patch'[w] = patch[w] /\ at'[w] = at[w] /\ status' = status
    BY <1>3
  <2>3. StatusesSet(w)'
    <3>1. StatusesSet(w)
      BY <1>1 DEF PatchInvariant, WrittenSoFar
    <3>2. \A d \in Domain : \A i \in Settings(p, d) :
            LastBefore(i, Settings(p, d), at[w]) => status[d] = p.steps[i].status
      BY <3>1 DEF StatusesSet
    <3>3. \A d : Settings(patch[w], d)' = Settings(p, d)
      BY <2>2 DEF Settings
    <3> HIDE DEF p
    <3> QED
      BY <2>2, <3>2, <3>3 DEF StatusesSet, p
  <2>4. \A r \in Record : \A i \in Upserts(p, r) :
          LastBefore(i, Upserts(p, r), at[w]) =>
              rows'[r] = <<p.steps[i].content>> /\ tags'[r] = <<p.steps[i].content>>
    BY <1>1, WrittenIsOfOthers DEF PatchInvariant, WrittenSoFar, RecordsWritten
  <2>5. RecordsWritten(w)'
    BY <2>2, <2>4 DEF RecordsWritten, Upserts
  <2> QED
    BY <2>1, <2>3, <2>5 DEF WrittenSoFar
<1>11. NoMixedRecord'
  <2>1. Len(<<Step(w).content>>) <= 1 /\ Len(<< >>) <= 1
    OBVIOUS
  <2>2. \A r \in Record \ {rec} :
          /\ Len(rows'[r]) <= 1 /\ Len(tags'[r]) <= 1
          /\ rows'[r] # << >> /\ tags'[r] # << >> => tags'[r] = rows'[r]
    BY DEF PatchInvariant, NoMixedRecord
  <2>3. /\ rows'[rec] = << >> \/ rows'[rec] = <<Step(w).content>>
        /\ rows'[rec] = << >> \/ tags'[rec] = << >>
        /\ tags'[rec] = << >> \/ tags' = tags
    OBVIOUS
  <2>4. Len(tags[rec]) <= 1
    BY <1>1 DEF PatchInvariant, NoMixedRecord
  <2>5. Len(rows'[rec]) <= 1
    BY <2>1, <2>3, Zenon
  <2>6. Len(tags'[rec]) <= 1
    BY <2>1, <2>3, <2>4
  <2> QED
    BY <2>2, <2>3, <2>5, <2>6 DEF NoMixedRecord
<1>12. AppliedPatchIsWhole'
    BY <1>1, <1>3 DEF AppliedPatchIsWhole
<1>13. OnlyAttemptedPatchesShow'
  <2>1. \A r \in Record \ {rec} :
          \/ rows'[r] = base.rows[r] \/ rows'[r] = << >>
          \/ \E q \in attempted : \E i \in Upserts(q, r) : rows'[r] = <<q.steps[i].content>>
    <3> TAKE r \in Record \ {rec}
    <3>1. \/ rows[r] = base.rows[r] \/ rows[r] = << >>
          \/ \E q \in attempted : \E i \in Upserts(q, r) : rows[r] = <<q.steps[i].content>>
      BY DEF PatchInvariant, OnlyAttemptedPatchesShow
    <3>2. rows'[r] = rows[r]
      OBVIOUS
    <3> QED
      BY <3>1, <3>2
  <2>2. \/ rows'[rec] = << >>
        \/ \E q \in attempted : \E i \in Upserts(q, rec) : rows'[rec] = <<q.steps[i].content>>
    BY <1>1 DEF Step
  <2>3. \A r \in Record :
          (\A q \in attempted : Upserts(q, r) = {}) =>
              rows'[r] = base.rows[r] /\ tags'[r] = base.tags[r]
    BY <1>1 DEF PatchInvariant, OnlyAttemptedPatchesShow
  <2>4. \A q : /\ \A r \in Record : Upserts(q, r)' = Upserts(q, r)
               /\ \A d \in Domain : Settings(q, d)' = Settings(q, d)
    BY DEF Upserts, Settings
  <2>5. \A d \in Domain :
          \/ status'[d] = base.status[d]
          \/ \E q \in attempted : \E i \in Settings(q, d) : status'[d] = q.steps[i].status
    BY DEF PatchInvariant, OnlyAttemptedPatchesShow
  <2>6. \A r \in Record :
          \/ rows'[r] = base.rows[r] \/ rows'[r] = << >>
          \/ \E q \in attempted : \E i \in Upserts(q, r) : rows'[r] = <<q.steps[i].content>>
    <3> TAKE r \in Record
    <3>1. CASE r = rec
      BY <2>2, <3>1
    <3>2. CASE r # rec
      BY <2>1, <3>2
    <3> QED
      BY <3>1, <3>2
  <2> QED
    BY <1>3, <2>3, <2>4, <2>5, <2>6 DEF OnlyAttemptedPatchesShow
<1>14. BirthmarkDescribesAtlas' /\ BirthmarkIsOfTheLast'
    BY <1>1, <1>3 DEF PatchInvariant, BirthmarkDescribesAtlas, BirthmarkIsOfTheLast
<1> QED
    BY <1>5, <1>6, <1>7, <1>8, <1>9, <1>10, <1>11, <1>12, <1>13, <1>14 DEF PatchInvariant

LEMMA DeleteRowKeeps ==
    ASSUME PatchAssumption, PatchInvariant, NEW w \in Process, DeleteRow(w)
    PROVE  PatchInvariant'
<1> DEFINE rec == Step(w).record
<1>1. pc[w] = "delete_row" /\ pc[w] \in OfUpsert /\ rec \in Record
    BY OperationUnderWay DEF DeleteRow, OfUpsert
<1>2. rows \in [Record -> Seq(Content)] /\ tags \in [Record -> Seq(Content)]
    BY DEF PatchInvariant, TypeOK
<1>3. /\ rows' = [rows EXCEPT ![rec] = << >>] /\ tags' = tags
      /\ pc' = [pc EXCEPT ![w] = "delete_tags"]
      /\ UNCHANGED <<status, manifest, metadata, patch, at, ghosts>>
    BY DEF DeleteRow, Goto
<1>4. /\ rows' \in [Record -> Seq(Content)] /\ tags' \in [Record -> Seq(Content)]
      /\ rows'[rec] = << >>
      /\ \A r \in Record \ {rec} : rows'[r] = rows[r] /\ tags'[r] = tags[r]
    BY <1>1, <1>2, <1>3
<1> QED
    BY <1>1, <1>3, <1>4, RecordStatement

LEMMA DeleteTagsKeeps ==
    ASSUME PatchAssumption, PatchInvariant, NEW w \in Process, DeleteTags(w)
    PROVE  PatchInvariant'
<1> DEFINE rec == Step(w).record
<1>1. pc[w] = "delete_tags" /\ pc[w] \in OfUpsert /\ rec \in Record
    BY OperationUnderWay DEF DeleteTags, OfUpsert
<1>2. rows \in [Record -> Seq(Content)] /\ tags \in [Record -> Seq(Content)]
    BY DEF PatchInvariant, TypeOK
<1>3. /\ tags' = [tags EXCEPT ![rec] = << >>] /\ rows' = rows
      /\ pc' = [pc EXCEPT ![w] = "insert_row"]
      /\ UNCHANGED <<status, manifest, metadata, patch, at, ghosts>>
    BY DEF DeleteTags, Goto
<1>4. /\ rows' \in [Record -> Seq(Content)] /\ tags' \in [Record -> Seq(Content)]
      /\ tags'[rec] = << >>
      /\ \A r \in Record \ {rec} : rows'[r] = rows[r] /\ tags'[r] = tags[r]
    BY <1>1, <1>2, <1>3
<1>5. rows'[rec] = << >>
    BY <1>1, <1>3 DEF PatchInvariant, RecordUnderWay
<1> QED
    BY <1>1, <1>3, <1>4, <1>5, RecordStatement

LEMMA InsertRowKeeps ==
    ASSUME PatchAssumption, PatchInvariant, NEW w \in Process, InsertRow(w)
    PROVE  PatchInvariant'
<1> DEFINE rec == Step(w).record
           c == Step(w).content
<1>1. pc[w] = "insert_row" /\ pc[w] \in OfUpsert /\ rec \in Record /\ c \in Content
    BY OperationUnderWay DEF InsertRow, OfUpsert
<1>2. rows \in [Record -> Seq(Content)] /\ tags \in [Record -> Seq(Content)]
    BY DEF PatchInvariant, TypeOK
<1>3. /\ rows' = [rows EXCEPT ![rec] = Append(@, c)] /\ tags' = tags
      /\ pc' = [pc EXCEPT ![w] = "insert_tags"]
      /\ UNCHANGED <<status, manifest, metadata, patch, at, ghosts>>
    BY DEF InsertRow, Goto
<1>4. rows[rec] = << >> /\ tags[rec] = << >>
    BY <1>1 DEF PatchInvariant, RecordUnderWay
<1>5. Append(rows[rec], c) = <<c>> /\ Append(rows[rec], c) \in Seq(Content)
    BY <1>1, <1>4
<1>6. /\ rows' \in [Record -> Seq(Content)] /\ tags' \in [Record -> Seq(Content)]
      /\ rows'[rec] = <<c>> /\ tags'[rec] = << >>
      /\ \A r \in Record \ {rec} : rows'[r] = rows[r] /\ tags'[r] = tags[r]
    BY <1>1, <1>2, <1>3, <1>4, <1>5
<1> QED
    BY <1>1, <1>3, <1>6, RecordStatement

-----------------------------------------------------------------------------
(* The statements that end an operation.                                   *)

\* What was last before n + 1 is n, or was last before n, which is not of S.
LEMMA LastBeforeNext ==
    ASSUME NEW S \in SUBSET Nat, NEW i \in S, NEW n \in Nat, LastBefore(i, S, n + 1)
    PROVE  i = n \/ (LastBefore(i, S, n) /\ n \notin S)
<1>1. i \in Nat /\ \A j \in S : j \in Nat
    OBVIOUS
<1> QED
    BY <1>1 DEF LastBefore

LEMMA OperationEnds ==
    ASSUME PatchAssumption, PatchInvariant, NEW w \in Process,
           pc[w] \in {"insert_tags", "status"}, Begin(w, at[w] + 1),
           UNCHANGED <<rows, manifest, metadata, patch, ghosts>>,
           tags' \in [Record -> Seq(Content)], status' \in [Domain -> Statuses]
    PROVE  /\ TypeOK' /\ OneWriter' /\ AtItsOperation' /\ RecordUnderWay' /\ EndUnderWay'
           /\ AppliedPatchIsWhole' /\ BirthmarkDescribesAtlas' /\ BirthmarkIsOfTheLast'
           /\ RecordsWritten(w)' /\ StatusesSet(w)' => WrittenSoFar'
<1> DEFINE p == patch[w]
<1>1. /\ Writing(w) /\ p \in Patches /\ p \in attempted /\ last = NoPatch
      /\ at[w] \in Nat /\ at[w] \in DOMAIN p.steps /\ Len(p.steps) \in Nat
    BY OperationUnderWay DEF OfUpsert
<1>2. at[w] + 1 \in 1..(Len(p.steps) + 1)
    BY <1>1, EachPatch
<1>3. patch' = patch /\ base' = base /\ attempted' = attempted /\ last' = last
    BY DEF ghosts
<1>4. /\ pc' \in [Process -> Statements] /\ at' \in [Process -> Nat]
      /\ at'[w] = at[w] + 1
      /\ pc'[w] \in {"delete_row", "status", "bad_member", "refresh"}
      /\ at[w] + 1 = Len(p.steps) + 1 <=> pc'[w] = "refresh"
      /\ pc'[w] = "delete_row" <=> pc'[w] # "refresh" /\ Step(w)'.kind = "upsert"
      /\ pc'[w] = "status" <=> pc'[w] # "refresh" /\ Step(w)'.kind = "status"
    BY <1>1, <1>2, <1>3, BeginsAt DEF PatchInvariant
<1>5. \A v \in Process \ {w} : pc'[v] = pc[v] /\ pc[v] \in {"idle", "checked"}
    BY <1>1, NobodyElse DEF PatchInvariant, Begin, Goto
<1>6. TypeOK'
    BY <1>3, <1>4 DEF PatchInvariant, TypeOK
<1>7. OneWriter'
    BY <1>5 DEF OneWriter, Writing
<1>8. AtItsOperation'
  <2>1. /\ pc'[w] # "idle" => patch'[w] \in Patches
        /\ patch'[w] \in attempted' /\ last' = NoPatch
        /\ at'[w] \in 1..(Len(patch'[w].steps) + 1)
        /\ at'[w] = Len(patch'[w].steps) + 1 <=> pc'[w] \in OfEnd
        /\ pc'[w] \in OfUpsert <=> pc'[w] \notin OfEnd /\ Step(w)'.kind = "upsert"
        /\ pc'[w] = "status" <=> pc'[w] \notin OfEnd /\ Step(w)'.kind = "status"
    BY <1>1, <1>2, <1>3, <1>4 DEF OfEnd, OfUpsert
  <2>2. \A v \in Process \ {w} : pc'[v] # "idle" => patch'[v] \in Patches
    BY <1>3, <1>5 DEF PatchInvariant, AtItsOperation
  <2> QED
    BY <1>5, <2>1, <2>2 DEF AtItsOperation, Writing
<1>9. RecordUnderWay' /\ EndUnderWay'
    BY <1>4, <1>5 DEF RecordUnderWay, EndUnderWay
<1>10. AppliedPatchIsWhole' /\ BirthmarkDescribesAtlas' /\ BirthmarkIsOfTheLast'
    BY <1>1, <1>3 DEF PatchInvariant, AppliedPatchIsWhole, BirthmarkDescribesAtlas,
                      BirthmarkIsOfTheLast
<1>11. RecordsWritten(w)' /\ StatusesSet(w)' => WrittenSoFar'
    BY <1>5 DEF WrittenSoFar, Writing
<1> QED
    BY <1>6, <1>7, <1>8, <1>9, <1>10, <1>11

LEMMA InsertTagsKeeps ==
    ASSUME PatchAssumption, PatchInvariant, NEW w \in Process, InsertTags(w)
    PROVE  PatchInvariant'
<1> DEFINE p == patch[w]
           rec == Step(w).record
           c == Step(w).content
<1>1. /\ pc[w] = "insert_tags" /\ Writing(w)
      /\ p \in Patches /\ p \in attempted /\ at[w] \in Nat /\ Step(w).kind = "upsert"
      /\ rec \in Record /\ c \in Content /\ at[w] \in Upserts(p, rec)
    BY OperationUnderWay DEF InsertTags, OfUpsert
<1>2. /\ tags' = [tags EXCEPT ![rec] = Append(@, c)]
      /\ UNCHANGED <<rows, status, manifest, metadata, patch, ghosts>>
      /\ Begin(w, at[w] + 1)
    BY DEF InsertTags
<1>3. tags[rec] = << >> /\ rows[rec] = <<c>>
    BY <1>1 DEF PatchInvariant, RecordUnderWay
<1>4. Append(tags[rec], c) = <<c>> /\ Append(tags[rec], c) \in Seq(Content)
    BY <1>1, <1>3
<1>5. tags \in [Record -> Seq(Content)] /\ status \in [Domain -> Statuses]
    BY DEF PatchInvariant, TypeOK
<1>6. /\ tags' \in [Record -> Seq(Content)] /\ tags'[rec] = <<c>>
      /\ \A r \in Record \ {rec} : tags'[r] = tags[r]
    BY <1>1, <1>2, <1>4, <1>5
<1>7. /\ TypeOK' /\ OneWriter' /\ AtItsOperation' /\ RecordUnderWay' /\ EndUnderWay'
      /\ AppliedPatchIsWhole' /\ BirthmarkDescribesAtlas' /\ BirthmarkIsOfTheLast'
      /\ RecordsWritten(w)' /\ StatusesSet(w)' => WrittenSoFar'
    BY <1>1, <1>2, <1>5, <1>6, OperationEnds
<1>8. at'[w] = at[w] + 1 /\ patch'[w] = p
    BY <1>2 DEF Begin, PatchInvariant, TypeOK
<1>9. RecordsWritten(w) /\ StatusesSet(w)
    BY <1>1 DEF PatchInvariant, WrittenSoFar
<1>10. /\ \A r \in Record : Upserts(p, r) \in SUBSET Nat
       /\ \A d \in Domain : Settings(p, d) \in SUBSET Nat
    BY <1>1, EachPatch DEF Upserts, Settings
<1>11. RecordsWritten(w)'
  <2>1. ASSUME NEW r \in Record, NEW i \in Upserts(p, r),
               LastBefore(i, Upserts(p, r), at[w] + 1)
        PROVE  rows[r] = <<p.steps[i].content>> /\ tags'[r] = <<p.steps[i].content>>
    <3>1. i = at[w] \/ (LastBefore(i, Upserts(p, r), at[w]) /\ at[w] \notin Upserts(p, r))
      BY <1>1, <1>10, <2>1, LastBeforeNext
    <3>2. CASE i = at[w]
      BY <1>3, <1>6, <3>2 DEF Upserts, Step
    <3>3. CASE LastBefore(i, Upserts(p, r), at[w]) /\ at[w] \notin Upserts(p, r)
      BY <1>1, <1>6, <1>9, <3>3 DEF RecordsWritten
    <3> QED
      BY <3>1, <3>2, <3>3
  <2> QED
    BY <1>2, <1>8, <2>1 DEF RecordsWritten
<1>12. StatusesSet(w)'
  <2>1. ASSUME NEW d \in Domain, NEW i \in Settings(p, d),
               LastBefore(i, Settings(p, d), at[w] + 1)
        PROVE  status[d] = p.steps[i].status
    <3>1. i = at[w] \/ LastBefore(i, Settings(p, d), at[w])
      BY <1>1, <1>10, <2>1, LastBeforeNext
    <3>2. i # at[w]
      BY <1>1 DEF Settings, Step
    <3> QED
      BY <1>9, <3>1, <3>2 DEF StatusesSet
  <2> QED
    BY <1>2, <1>8, <2>1 DEF StatusesSet
<1>13. NoMixedRecord'
  <2>1. Len(<<c>>) <= 1
    OBVIOUS
  <2>2. Len(rows[rec]) <= 1 /\ Len(tags'[rec]) <= 1
    BY <1>3, <1>6, <2>1, Zenon
  <2> QED
    BY <1>2, <1>3, <1>6, <2>2 DEF PatchInvariant, NoMixedRecord
<1>14. OnlyAttemptedPatchesShow'
  <2>1. \A r \in Record :
          (\A q \in attempted : Upserts(q, r) = {}) => tags'[r] = tags[r]
    BY <1>1, <1>6
  <2>2. base' = base /\ attempted' = attempted
    BY <1>2 DEF ghosts
  <2> QED
    BY <1>2, <2>1, <2>2 DEF PatchInvariant, OnlyAttemptedPatchesShow
<1> QED
    BY <1>7, <1>11, <1>12, <1>13, <1>14 DEF PatchInvariant

LEMMA SetStatusKeeps ==
    ASSUME PatchAssumption, PatchInvariant, NEW w \in Process, SetStatus(w)
    PROVE  PatchInvariant'
<1> DEFINE p == patch[w]
           dom == Step(w).domain
<1>1. /\ pc[w] = "status" /\ Writing(w)
      /\ p \in Patches /\ p \in attempted /\ at[w] \in Nat /\ Step(w).kind = "status"
      /\ dom \in Domain /\ Step(w).status \in Statuses /\ at[w] \in Settings(p, dom)
    BY OperationUnderWay DEF SetStatus, OfUpsert
<1>2. /\ status' = [status EXCEPT ![dom] = Step(w).status]
      /\ UNCHANGED <<rows, tags, manifest, metadata, patch, ghosts>>
      /\ Begin(w, at[w] + 1)
    BY DEF SetStatus
<1>3. tags \in [Record -> Seq(Content)] /\ status \in [Domain -> Statuses]
    BY DEF PatchInvariant, TypeOK
<1>4. /\ status' \in [Domain -> Statuses] /\ status'[dom] = Step(w).status
      /\ \A d \in Domain \ {dom} : status'[d] = status[d]
    BY <1>1, <1>2, <1>3
<1>5. /\ TypeOK' /\ OneWriter' /\ AtItsOperation' /\ RecordUnderWay' /\ EndUnderWay'
      /\ AppliedPatchIsWhole' /\ BirthmarkDescribesAtlas' /\ BirthmarkIsOfTheLast'
      /\ RecordsWritten(w)' /\ StatusesSet(w)' => WrittenSoFar'
    BY <1>1, <1>2, <1>3, <1>4, OperationEnds
<1>6. at'[w] = at[w] + 1 /\ patch'[w] = p
    BY <1>2 DEF Begin, PatchInvariant, TypeOK
<1>7. RecordsWritten(w) /\ StatusesSet(w)
    BY <1>1 DEF PatchInvariant, WrittenSoFar
<1>8. /\ \A r \in Record : Upserts(p, r) \in SUBSET Nat
      /\ \A d \in Domain : Settings(p, d) \in SUBSET Nat
    BY <1>1, EachPatch DEF Upserts, Settings
<1>9. RecordsWritten(w)'
  <2>1. ASSUME NEW r \in Record, NEW i \in Upserts(p, r),
               LastBefore(i, Upserts(p, r), at[w] + 1)
        PROVE  rows[r] = <<p.steps[i].content>> /\ tags[r] = <<p.steps[i].content>>
    <3>1. i = at[w] \/ LastBefore(i, Upserts(p, r), at[w])
      BY <1>1, <1>8, <2>1, LastBeforeNext
    <3>2. i # at[w]
      BY <1>1 DEF Upserts, Step
    <3> QED
      BY <1>7, <3>1, <3>2 DEF RecordsWritten
  <2> QED
    BY <1>2, <1>6, <2>1 DEF RecordsWritten
<1>10. StatusesSet(w)'
  <2>1. ASSUME NEW d \in Domain, NEW i \in Settings(p, d),
               LastBefore(i, Settings(p, d), at[w] + 1)
        PROVE  status'[d] = p.steps[i].status
    <3>1. i = at[w] \/ (LastBefore(i, Settings(p, d), at[w]) /\ at[w] \notin Settings(p, d))
      BY <1>1, <1>8, <2>1, LastBeforeNext
    <3>2. CASE i = at[w]
      BY <1>4, <3>2 DEF Settings, Step
    <3>3. CASE LastBefore(i, Settings(p, d), at[w]) /\ at[w] \notin Settings(p, d)
      BY <1>1, <1>4, <1>7, <3>3 DEF StatusesSet
    <3> QED
      BY <3>1, <3>2, <3>3
  <2> QED
    BY <1>2, <1>6, <2>1 DEF StatusesSet
<1>11. NoMixedRecord'
    BY <1>2 DEF PatchInvariant, NoMixedRecord
<1>12. OnlyAttemptedPatchesShow'
  <2>1. \A d \in Domain :
          \/ status'[d] = base.status[d]
          \/ \E q \in attempted : \E i \in Settings(q, d) : status'[d] = q.steps[i].status
    <3> TAKE d \in Domain
    <3>1. CASE d = dom
      BY <1>1, <1>4, <3>1 DEF Step
    <3>2. CASE d # dom
      BY <1>4, <3>2 DEF PatchInvariant, OnlyAttemptedPatchesShow
    <3> QED
      BY <3>1, <3>2
  <2>2. base' = base /\ attempted' = attempted
    BY <1>2 DEF ghosts
  <2>3. \A q : /\ \A r \in Record : Upserts(q, r)' = Upserts(q, r)
               /\ \A d \in Domain : Settings(q, d)' = Settings(q, d)
    BY DEF Upserts, Settings
  <2> QED
    BY <1>2, <2>1, <2>2, <2>3 DEF PatchInvariant, OnlyAttemptedPatchesShow
<1> QED
    BY <1>5, <1>9, <1>10, <1>11, <1>12 DEF PatchInvariant

-----------------------------------------------------------------------------
(* The end of a patch.                                                     *)

LEMMA EndOfPatch ==
    ASSUME PatchAssumption, PatchInvariant, NEW w \in Process, pc[w] \in OfEnd
    PROVE  /\ Writing(w) /\ patch[w] \in Patches /\ patch[w] \in attempted
           /\ last = NoPatch
           /\ Len(patch[w].steps) \in Nat /\ at[w] = Len(patch[w].steps) + 1
           /\ DOMAIN patch[w].steps = 1..Len(patch[w].steps)
<1>1. Writing(w) /\ pc[w] # "idle"
    BY DEF Writing, OfEnd
<1> QED
    BY <1>1, EachPatch DEF PatchInvariant, AtItsOperation

\* The first two statements of the end, which change no record and no status.
LEMMA EndStatement ==
    ASSUME PatchAssumption, PatchInvariant, NEW w \in Process, pc[w] \in OfEnd,
           NEW s \in {"delete_metadata", "insert_metadata"},
           pc' = [pc EXCEPT ![w] = s],
           UNCHANGED <<rows, tags, status, patch, at, ghosts>>,
           manifest' = Fingerprint,
           s = "delete_metadata" => metadata' = metadata,
           s = "insert_metadata" => metadata' = << >>
    PROVE  PatchInvariant'
<1>1. /\ Writing(w) /\ patch[w] \in Patches /\ patch[w] \in attempted /\ last = NoPatch
      /\ at[w] \in 1..(Len(patch[w].steps) + 1)
      /\ at[w] = Len(patch[w].steps) + 1
    BY EndOfPatch
<1>2. /\ pc'[w] = s
      /\ \A v \in Process \ {w} : pc'[v] = pc[v] /\ pc[v] \in {"idle", "checked"}
    BY <1>1, NobodyElse DEF PatchInvariant
<1>3. base' = base /\ attempted' = attempted /\ last' = last
    BY DEF ghosts
<1>4. TypeOK'
  <2>1. metadata = << >> \/ metadata = <<metadata[1]>>
    BY DEF PatchInvariant, TypeOK
  <2>2. metadata' = << >> \/ metadata' = <<metadata'[1]>>
    BY <2>1
  <2> QED
    BY <1>3, <2>2 DEF PatchInvariant, TypeOK, Statements
<1>5. OneWriter'
    BY <1>2 DEF OneWriter, Writing
<1>6. AtItsOperation'
  <2>1. pc'[w] \in OfEnd /\ pc'[w] \notin OfUpsert /\ pc'[w] # "status"
    BY <1>2 DEF OfEnd, OfUpsert
  <2>2. /\ patch'[w] \in Patches /\ patch'[w] \in attempted' /\ last' = NoPatch
        /\ at'[w] \in 1..(Len(patch'[w].steps) + 1)
        /\ at'[w] = Len(patch'[w].steps) + 1
    BY <1>1, <1>3
  <2>3. \A v \in Process \ {w} : pc'[v] # "idle" => patch'[v] \in Patches
    BY <1>2 DEF PatchInvariant, AtItsOperation
  <2> QED
    BY <1>2, <2>1, <2>2, <2>3 DEF AtItsOperation, Writing
<1>7. RecordUnderWay'
    BY <1>2 DEF RecordUnderWay
<1>8. EndUnderWay'
  <2>1. Fingerprint' = Fingerprint
    BY SameFingerprint
  <2> QED
    BY <1>2, <2>1 DEF EndUnderWay
<1>9. WrittenSoFar'
  <2>1. RecordsWritten(w) /\ StatusesSet(w)
    BY <1>1 DEF PatchInvariant, WrittenSoFar
  <2>2. RecordsWritten(w)' /\ StatusesSet(w)'
    BY <2>1 DEF RecordsWritten, StatusesSet
  <2> QED
    BY <1>2, <2>2 DEF WrittenSoFar, Writing
<1>10. NoMixedRecord' /\ OnlyAttemptedPatchesShow'
    BY <1>3 DEF PatchInvariant, NoMixedRecord, OnlyAttemptedPatchesShow
<1>11. AppliedPatchIsWhole' /\ BirthmarkDescribesAtlas'
    BY <1>1, <1>3 DEF AppliedPatchIsWhole, BirthmarkDescribesAtlas
<1>12. BirthmarkIsOfTheLast'
    BY <1>3 DEF PatchInvariant, BirthmarkIsOfTheLast
<1> QED
    BY <1>4, <1>5, <1>6, <1>7, <1>8, <1>9, <1>10, <1>11, <1>12 DEF PatchInvariant

LEMMA RefreshKeeps ==
    ASSUME PatchAssumption, PatchInvariant, NEW w \in Process, Refresh(w)
    PROVE  PatchInvariant'
BY EndStatement DEF Refresh, Goto, OfEnd

LEMMA DeleteMetadataKeeps ==
    ASSUME PatchAssumption, PatchInvariant, NEW w \in Process, DeleteMetadata(w)
    PROVE  PatchInvariant'
<1>1. pc[w] = "delete_metadata" /\ pc[w] \in OfEnd
    BY DEF DeleteMetadata, OfEnd
<1>2. manifest = Fingerprint
    BY <1>1 DEF PatchInvariant, EndUnderWay
<1>3. /\ manifest' = Fingerprint /\ metadata' = << >>
      /\ pc' = [pc EXCEPT ![w] = "insert_metadata"]
      /\ UNCHANGED <<rows, tags, status, patch, at, ghosts>>
    BY <1>2 DEF DeleteMetadata, Goto
<1> QED
    BY <1>1, <1>3, EndStatement

\* What was written before the end of a patch is its last word.
LEMMA EndIsWhole ==
    ASSUME PatchAssumption, NEW p \in Patches
    PROVE  /\ \A r \in Record : Upserts(p, r) \in SUBSET (1..Len(p.steps))
           /\ \A d \in Domain : Settings(p, d) \in SUBSET (1..Len(p.steps))
BY EachPatch DEF Upserts, Settings

\* A set of places that is not empty has a last one.
LEMMA GreatestOf ==
    ASSUME NEW n \in Nat, NEW S \in SUBSET (1..n), S # {}
    PROVE  \E m \in S : \A j \in S : j <= m
<1> DEFINE T == {n - k : k \in S}
<1>1. T \in SUBSET Nat /\ T # {}
  <2>1. \A k \in 1..n : n - k \in Nat
    OBVIOUS
  <2> QED
    BY <2>1
<1>2. PICK t \in T : \A u \in T : ~(<<u, t>> \in OpToRel(<, Nat))
    BY <1>1, NatLessThanWellFounded, WFMin
<1>3. ASSUME NEW i \in Nat, NEW k \in Nat, k < i PROVE <<k, i>> \in OpToRel(<, Nat)
    BY <1>3 DEF OpToRel
<1>4. \A u \in T : ~(u < t)
    BY <1>1, <1>2, <1>3
<1>5. PICK m \in S : t = n - m
    OBVIOUS
<1>6. \A j \in S : ~(n - j < n - m)
    BY <1>4, <1>5
<1> QED
    BY <1>6

LEMMA LatestIsBeforeTheEnd ==
    ASSUME NEW n \in Nat, NEW S \in SUBSET (1..n), S # {}
    PROVE  Latest(S) \in S /\ LastBefore(Latest(S), S, n + 1)
<1>1. PICK m \in S : \A j \in S : j <= m
    BY GreatestOf
<1>2. Latest(S) = m
    BY <1>1, LatestOf
<1> QED
    BY <1>1, <1>2 DEF LastBefore

LEMMA InsertMetadataKeeps ==
    ASSUME PatchAssumption, PatchInvariant, NEW w \in Process, InsertMetadata(w)
    PROVE  PatchInvariant'
<1> DEFINE p == patch[w]
           birthmark == [tag |-> p.tag, build |-> manifest]
<1>1. /\ pc[w] = "insert_metadata" /\ Writing(w) /\ p \in Patches
      /\ Len(p.steps) \in Nat /\ at[w] = Len(p.steps) + 1
    BY EndOfPatch DEF InsertMetadata, OfEnd
<1>2. /\ metadata' = Append(metadata, birthmark)
      /\ base' = [rows |-> rows, tags |-> tags, status |-> status, tag |-> p.tag]
      /\ attempted' = {} /\ last' = p
      /\ UNCHANGED <<rows, tags, status, manifest>>
      /\ pc' = [pc EXCEPT ![w] = "idle"]
      /\ patch' = [patch EXCEPT ![w] = NoPatch] /\ at' = [at EXCEPT ![w] = 0]
    BY DEF InsertMetadata, Exit, Goto
<1>3. manifest = Fingerprint /\ metadata = << >>
    BY <1>1 DEF PatchInvariant, EndUnderWay
<1>4. metadata' = <<birthmark>> /\ metadata'[1] = birthmark
    BY <1>2, <1>3
<1>5. Fingerprint' = Fingerprint
    BY <1>2, SameFingerprint
<1>6. /\ pc'[w] = "idle"
      /\ \A v \in Process \ {w} : pc'[v] = pc[v] /\ pc[v] \in {"idle", "checked"}
    BY <1>1, <1>2, NobodyElse DEF PatchInvariant
<1>7. TypeOK'
  <2>1. base'.tag \in Tag
    BY <1>1, <1>2 DEF PatchAssumption
  <2> QED
    BY <1>1, <1>2, <1>4, <2>1 DEF PatchInvariant, TypeOK, Statements
<1>8. \A v \in Process : ~Writing(v)'
    BY <1>6 DEF Writing
<1>9. OneWriter' /\ WrittenSoFar'
    BY <1>8 DEF OneWriter, WrittenSoFar
<1>10. AtItsOperation'
  <2>1. \A v \in Process \ {w} : patch'[v] = patch[v]
    BY <1>2 DEF PatchInvariant, TypeOK
  <2> QED
    BY <1>6, <1>8, <2>1 DEF PatchInvariant, AtItsOperation
<1>11. RecordUnderWay' /\ EndUnderWay'
    BY <1>6 DEF RecordUnderWay, EndUnderWay
<1>12. NoMixedRecord'
    BY <1>2 DEF PatchInvariant, NoMixedRecord
<1>13. AppliedPatchIsWhole'
  <2>1. RecordsWritten(w) /\ StatusesSet(w)
    BY <1>1 DEF PatchInvariant, WrittenSoFar
  <2>2. ASSUME NEW r \in Record, Upserts(p, r) # {}
        PROVE  LET step == p.steps[Latest(Upserts(p, r))]
               IN  rows[r] = <<step.content>> /\ tags[r] = <<step.content>>
    <3>1. /\ Latest(Upserts(p, r)) \in Upserts(p, r)
          /\ LastBefore(Latest(Upserts(p, r)), Upserts(p, r), at[w])
      BY <1>1, <2>2, EndIsWhole, LatestIsBeforeTheEnd
    <3> QED
      BY <2>1, <3>1 DEF RecordsWritten
  <2>3. ASSUME NEW d \in Domain, Settings(p, d) # {}
        PROVE  status[d] = p.steps[Latest(Settings(p, d))].status
    <3>1. /\ Latest(Settings(p, d)) \in Settings(p, d)
          /\ LastBefore(Latest(Settings(p, d)), Settings(p, d), at[w])
      BY <1>1, <2>3, EndIsWhole, LatestIsBeforeTheEnd
    <3> QED
      BY <2>1, <3>1 DEF StatusesSet
  <2> QED
    BY <1>2, <2>2, <2>3 DEF AppliedPatchIsWhole
<1>14. OnlyAttemptedPatchesShow'
    BY <1>2 DEF OnlyAttemptedPatchesShow
<1>15. BirthmarkDescribesAtlas' /\ BirthmarkIsOfTheLast'
    BY <1>2, <1>3, <1>4, <1>5 DEF BirthmarkDescribesAtlas, BirthmarkIsOfTheLast
<1> QED
    BY <1>7, <1>9, <1>10, <1>11, <1>12, <1>13, <1>14, <1>15 DEF PatchInvariant

-----------------------------------------------------------------------------
(* The invariant.                                                          *)

LEMMA PatchInit ==
    ASSUME PatchAssumption, Init
    PROVE  PatchInvariant
<1>1. PICK seeded \in {{}, Record} :
          rows = [r \in Record |-> IF r \in seeded THEN <<SeedContent[r]>> ELSE << >>]
    BY DEF Init
<1>2. /\ tags = rows
      /\ status = [d \in Domain |-> IF d \in BuiltActive THEN "active" ELSE "registered"]
      /\ manifest = Fingerprint
      /\ metadata = <<[tag |-> BuiltTag, build |-> Fingerprint]>>
      /\ pc = [w \in Process |-> "idle"]
      /\ patch = [w \in Process |-> NoPatch]
      /\ at = [w \in Process |-> 0]
      /\ base = [rows |-> rows, tags |-> tags, status |-> status, tag |-> metadata[1].tag]
      /\ attempted = {} /\ last = NoPatch
    BY DEF Init
<1>3. \A r \in Record : SeedContent[r] \in Content
    BY DEF PatchAssumption
<1>4. \A r \in Record : rows[r] = << >> \/ rows[r] = <<SeedContent[r]>>
    BY <1>1
<1>5. rows \in [Record -> Seq(Content)]
  <2>1. << >> \in Seq(Content) /\ \A r \in Record : <<SeedContent[r]>> \in Seq(Content)
    BY <1>3
  <2> QED
    BY <1>1, <2>1
<1>6. metadata = <<metadata[1]>>
    BY <1>2
<1>7. TypeOK
  <2>1. metadata[1].tag = BuiltTag /\ base.tag = BuiltTag
    BY <1>2
  <2> QED
    BY <1>2, <1>5, <1>6, <2>1 DEF PatchAssumption, TypeOK, Statuses, Statements
<1>8. \A w \in Process : pc[w] = "idle" /\ ~Writing(w)
    BY <1>2 DEF Writing
<1>9. OneWriter /\ WrittenSoFar /\ AtItsOperation /\ RecordUnderWay /\ EndUnderWay
    BY <1>8 DEF OneWriter, WrittenSoFar, AtItsOperation, RecordUnderWay, EndUnderWay
<1>10. NoMixedRecord
  <2>1. Len(<< >>) <= 1 /\ \A r \in Record : Len(<<SeedContent[r]>>) <= 1
    OBVIOUS
  <2>2. \A r \in Record : Len(rows[r]) <= 1
    BY <1>4, <2>1, Zenon
  <2> QED
    BY <1>2, <2>2 DEF NoMixedRecord
<1>11. AppliedPatchIsWhole /\ OnlyAttemptedPatchesShow
    BY <1>2 DEF AppliedPatchIsWhole, OnlyAttemptedPatchesShow
<1>12. BirthmarkDescribesAtlas /\ BirthmarkIsOfTheLast
    BY <1>2 DEF BirthmarkDescribesAtlas, BirthmarkIsOfTheLast
<1> QED
    BY <1>7, <1>9, <1>10, <1>11, <1>12 DEF PatchInvariant

LEMMA PatchStep ==
    ASSUME PatchAssumption, PatchInvariant, Next
    PROVE  PatchInvariant'
<1> SUFFICES ASSUME NEW w \in Process,
                    \/ \E p \in Patches : Check(w, p)
                    \/ Connect(w) \/ ConnectRaises(w)
                    \/ DeleteRow(w) \/ DeleteTags(w) \/ InsertRow(w) \/ InsertTags(w)
                    \/ SetStatus(w) \/ MemberRaises(w)
                    \/ Refresh(w) \/ DeleteMetadata(w) \/ InsertMetadata(w)
                    \/ Die(w)
             PROVE  PatchInvariant'
    BY DEF Next
<1>1. CASE \E p \in Patches : Check(w, p)
    BY <1>1, CheckKeeps
<1>2. CASE Connect(w)
    BY <1>2, ConnectKeeps
<1>3. CASE ConnectRaises(w) \/ MemberRaises(w) \/ Die(w)
    BY <1>3, LeavingKeeps DEF ConnectRaises, MemberRaises, Die
<1>4. CASE DeleteRow(w)
    BY <1>4, DeleteRowKeeps
<1>5. CASE DeleteTags(w)
    BY <1>5, DeleteTagsKeeps
<1>6. CASE InsertRow(w)
    BY <1>6, InsertRowKeeps
<1>7. CASE InsertTags(w)
    BY <1>7, InsertTagsKeeps
<1>8. CASE SetStatus(w)
    BY <1>8, SetStatusKeeps
<1>9. CASE Refresh(w)
    BY <1>9, RefreshKeeps
<1>10. CASE DeleteMetadata(w)
    BY <1>10, DeleteMetadataKeeps
<1>11. CASE InsertMetadata(w)
    BY <1>11, InsertMetadataKeeps
<1> QED
    BY <1>1, <1>2, <1>3, <1>4, <1>5, <1>6, <1>7, <1>8, <1>9, <1>10, <1>11

-----------------------------------------------------------------------------
(* The readers.                                                            *)

\* A patcher's step that leaves nobody writing, when nobody was, is of a
\* process that does not touch the Atlas.
LEMMA QuietStep ==
    ASSUME PatchAssumption, PatchInvariant, Next,
           \A w \in Process : ~Writing(w), \A w \in Process : ~Writing(w)'
    PROVE  UNCHANGED <<data, ghosts>>
<1>1. PICK w \in Process :
          \/ \E p \in Patches : Check(w, p)
          \/ Connect(w) \/ ConnectRaises(w)
          \/ DeleteRow(w) \/ DeleteTags(w) \/ InsertRow(w) \/ InsertTags(w)
          \/ SetStatus(w) \/ MemberRaises(w)
          \/ Refresh(w) \/ DeleteMetadata(w) \/ InsertMetadata(w)
          \/ Die(w)
    BY DEF Next
<1>2. pc[w] \in {"idle", "checked"} /\ pc'[w] \in {"idle", "checked"}
    BY DEF Writing
<1>3. ~Connect(w)
  <2> SUFFICES ASSUME Connect(w) PROVE FALSE
    OBVIOUS
  <2>1. /\ patch[w] \in Patches /\ Begin(w, 1) /\ patch' = patch
        /\ Len(patch[w].steps) \in Nat
    BY EachPatch DEF Connect, PatchInvariant, AtItsOperation
  <2>2. pc'[w] \in {"delete_row", "status", "bad_member", "refresh"}
    BY <2>1, BeginsAt DEF PatchInvariant
  <2> QED
    BY <1>2, <2>2
<1>4. /\ ~DeleteRow(w) /\ ~DeleteTags(w) /\ ~InsertRow(w) /\ ~InsertTags(w)
      /\ ~SetStatus(w) /\ ~MemberRaises(w)
      /\ ~Refresh(w) /\ ~DeleteMetadata(w) /\ ~InsertMetadata(w)
    BY <1>2 DEF DeleteRow, DeleteTags, InsertRow, InsertTags, SetStatus, MemberRaises,
                Refresh, DeleteMetadata, InsertMetadata
<1> QED
    BY <1>1, <1>3, <1>4 DEF Check, ConnectRaises, Die

\* The domains wanted are domains, if the request does not raise.
LEMMA WantedAreDomains ==
    ASSUME ReaderAssumption, NEW r \in Requests, ~Raises(r)
    PROVE  Wanted(r) \subseteq Domain
<1>1. /\ r.asked \in Seq(Domain \cup {NoDomain})
      /\ r.named \in Seq(Domain \cup {NoDomain})
    BY DEF ReaderAssumption, RequestsOf
<1>2. \A i \in DOMAIN r.asked : r.asked[i] \in Domain
    BY <1>1 DEF Raises, Parses
<1>3. \A i \in DOMAIN r.named : Parses(r.named[i]) => r.named[i] \in Domain
    BY <1>1 DEF Parses
<1> QED
    BY <1>2, <1>3 DEF Wanted, Inferred

LEMMA NothingIsNoResult ==
    /\ DOMAIN NoResult = {"enabled", "skipped", "hash"}
    /\ NoResult.enabled = {} /\ NoResult.skipped = {} /\ NoResult.hash = NoHash
    /\ NoReport.tag = "unknown" /\ Wanted(NoRequest) = {}
BY DEF NoResult, NoReport, NoRequest, Wanted

\* The domains that are chosen at the first read of the shield or the blueprint.
LEMMA ChoiceKeeps ==
    ASSUME ReaderInvariant, UNCHANGED <<vars, request, lifecycle>>,
           \A w \in Process : ~Writing(w),
           stage' \in {"shield_hash", "patterns"},
           result' = Selection(request), overtaken' = FALSE
    PROVE  ReaderInvariant'
<1>1. /\ DOMAIN result' = {"enabled", "skipped", "hash"}
      /\ result'.enabled = {d \in Wanted(request) : IsActive(d)}
      /\ result'.skipped = {d \in Wanted(request) : ~IsActive(d)}
      /\ result'.hash = NoHash
    BY DEF Selection
<1>2. \A w \in Process : ~Writing(w)'
    BY DEF Writing, vars
<1>3. ReaderTypeOK' /\ NothingYet'
    BY <1>1, NothingIsNoResult DEF ReaderInvariant, ReaderTypeOK, NothingYet
<1>4. Wanted(request)' \subseteq Domain
    BY DEF ReaderInvariant, Wanted, Inferred
<1>5. ChoiceIsOfTheAtlas'
  <2>1. Wanted(request)' = Wanted(request) /\ \A d : IsActive(d)' = IsActive(d)
    BY DEF Wanted, Inferred, IsActive, vars
  <2> QED
    BY <1>1, <1>2, <2>1 DEF ChoiceIsOfTheAtlas
<1>6. HashTellsTheDomains'
    BY <1>1 DEF HashTellsTheDomains
<1>7. ReportIsOfTheAtlas' /\ LifecycleIsOfAWholePatch'
    BY DEF ReportIsOfTheAtlas, LifecycleIsOfAWholePatch
<1> QED
    BY <1>3, <1>4, <1>5, <1>6, <1>7 DEF ReaderInvariant

\* The stamp.
LEMMA HashKeeps ==
    ASSUME ReaderInvariant, UNCHANGED <<vars, request, lifecycle, overtaken>>,
           stage \in {"shield_hash", "blueprint_hash"},
           stage' \in {"blueprint_statuses", "summary"},
           result' = IF overtaken THEN NoResult ELSE [result EXCEPT !.hash = AtlasHash]
    PROVE  ReaderInvariant'
<1>1. CASE overtaken
  <2>1. result' = NoResult
    BY <1>1
  <2> QED
    BY <2>1, NothingIsNoResult
       DEF ReaderInvariant, ReaderTypeOK, ChoiceIsOfTheAtlas, Chosen, HashTellsTheDomains,
           ReportIsOfTheAtlas, LifecycleIsOfAWholePatch, Wanted, Inferred, NothingYet
<1>2. CASE ~overtaken
  <2>1. DOMAIN result = {"enabled", "skipped", "hash"}
    BY NothingIsNoResult DEF ReaderInvariant, ReaderTypeOK
  <2>2. /\ DOMAIN result' = {"enabled", "skipped", "hash"}
        /\ result'.enabled = result.enabled /\ result'.skipped = result.skipped
        /\ result'.hash = AtlasHash
    BY <1>2, <2>1
  <2>3. ReaderTypeOK'
    BY <2>2, NothingIsNoResult DEF ReaderInvariant, ReaderTypeOK
  <2>4. Wanted(request)' = Wanted(request)
    BY DEF Wanted, Inferred
  <2>5. HashTellsTheDomains'
    <3>1. result.enabled = {d \in Wanted(request) : IsActive(d)}
      BY <1>2 DEF ReaderInvariant, ChoiceIsOfTheAtlas, Chosen
    <3>2. AtlasHash.runtime.active = {d \in Domain : IsActive(d)}
      BY DEF AtlasHash, Fingerprint, IsActive
    <3>3. Wanted(request) \subseteq Domain
      BY DEF ReaderInvariant
    <3> QED
      BY <2>2, <2>4, <3>1, <3>2, <3>3 DEF HashTellsTheDomains
  <2> QED
    BY <2>3, <2>4, <2>5
       DEF ReaderInvariant, ChoiceIsOfTheAtlas, Chosen, ReportIsOfTheAtlas,
           LifecycleIsOfAWholePatch, NothingYet
<1> QED
    BY <1>1, <1>2

LEMMA AskKeeps ==
    ASSUME ReaderAssumption, ReaderInvariant, NEW r \in Requests, Ask(r)
    PROVE  ReaderInvariant'
<1>1. /\ request' = r /\ result' = result /\ lifecycle' = lifecycle
      /\ overtaken' = overtaken /\ stage = "idle" /\ stage' = "shield_statuses"
      /\ ~Raises(r)
    BY DEF Ask
<1>2. Wanted(r) \subseteq Domain
    BY <1>1, WantedAreDomains
<1>3. Wanted(request)' = Wanted(r)
    BY <1>1 DEF Wanted, Inferred
<1>4. result.hash = NoHash
    BY <1>1, NothingIsNoResult DEF ReaderInvariant, NothingYet
<1> QED
    BY <1>1, <1>2, <1>3, <1>4
       DEF ReaderInvariant, ReaderTypeOK, ChoiceIsOfTheAtlas, Chosen, HashTellsTheDomains,
           ReportIsOfTheAtlas, LifecycleIsOfAWholePatch, NothingYet

\* A read whose answer is not kept, and the one that drops the blueprint.
LEMMA ReadKeeps ==
    ASSUME ReaderInvariant, UNCHANGED <<vars, request, lifecycle, overtaken>>,
           \/ stage = "patterns" /\ stage' = "blueprint_hash" /\ result' = result
           \/ stage = "summary" /\ stage' = "lifecycle" /\ result' = NoResult
    PROVE  ReaderInvariant'
<1>1. Wanted(request)' = Wanted(request)
    BY DEF Wanted, Inferred
<1>2. ReaderTypeOK' /\ HashTellsTheDomains'
    BY <1>1, NothingIsNoResult DEF ReaderInvariant, ReaderTypeOK, HashTellsTheDomains
<1>3. ChoiceIsOfTheAtlas'
  <2>1. \A w \in Process : Writing(w)' <=> Writing(w)
    BY DEF Writing, vars
  <2>2. \A d : IsActive(d)' <=> IsActive(d)
    BY DEF IsActive, vars
  <2> QED
    BY <1>1, <2>1, <2>2 DEF ReaderInvariant, ChoiceIsOfTheAtlas, Chosen
<1>4. ReportIsOfTheAtlas' /\ LifecycleIsOfAWholePatch'
    BY DEF ReportIsOfTheAtlas, LifecycleIsOfAWholePatch
<1> QED
    BY <1>1, <1>2, <1>3, <1>4 DEF ReaderInvariant, NothingYet

LEMMA ReadLifecycleKeeps ==
    ASSUME PatchInvariant, ReaderInvariant, ReadLifecycle
    PROVE  ReaderInvariant'
<1>1. /\ UNCHANGED <<vars, request, result>> /\ overtaken' = FALSE
      /\ stage = "lifecycle" /\ stage' = "done"
      /\ \A w \in Process : ~Writing(w)
    BY DEF ReadLifecycle, Reading
<1>2. PICK days \in Ages : lifecycle' = Lifecycle(request, days)
    BY DEF ReadLifecycle
<1>3. /\ metadata = << >> => lifecycle'.tag = "unknown"
      /\ metadata # << >> => lifecycle'.tag = metadata[1].tag
    BY <1>2 DEF Lifecycle, NoReport
<1>4. base.tag \in Tag /\ (metadata # << >> => metadata[1].tag = base.tag)
    BY DEF PatchInvariant, TypeOK, BirthmarkIsOfTheLast
<1>5. metadata = << >> => attempted # {}
    BY DEF PatchInvariant, BirthmarkDescribesAtlas
<1>6. Wanted(request)' = Wanted(request)
    BY <1>1 DEF Wanted, Inferred
<1>7. ReaderTypeOK' /\ HashTellsTheDomains'
    BY <1>1, <1>3, <1>4, <1>6 DEF ReaderInvariant, ReaderTypeOK, HashTellsTheDomains
<1>8. ChoiceIsOfTheAtlas'
    BY <1>1 DEF ChoiceIsOfTheAtlas, Chosen
<1>9. ReportIsOfTheAtlas'
    BY <1>1 DEF ReportIsOfTheAtlas, Writing, vars
<1>10. LifecycleIsOfAWholePatch'
    BY <1>1, <1>3, <1>4, <1>5 DEF LifecycleIsOfAWholePatch, vars
<1> QED
    BY <1>1, <1>6, <1>7, <1>8, <1>9, <1>10 DEF ReaderInvariant, NothingYet

LEMMA LeaveKeeps ==
    ASSUME ReaderInvariant, Leave
    PROVE  ReaderInvariant'
<1>1. /\ stage' = "idle" /\ request' = NoRequest /\ result' = NoResult
      /\ lifecycle' = NoReport /\ overtaken' = FALSE
    BY DEF Leave
<1>2. Wanted(request)' = {}
    BY <1>1, NothingIsNoResult DEF Wanted, Inferred
<1> QED
    BY <1>1, <1>2, NothingIsNoResult
       DEF ReaderInvariant, ReaderTypeOK, ChoiceIsOfTheAtlas, Chosen, HashTellsTheDomains,
           ReportIsOfTheAtlas, LifecycleIsOfAWholePatch, NothingYet

LEMMA PatcherKeeps ==
    ASSUME PatchAssumption, PatchInvariant, ReaderInvariant, Patcher
    PROVE  ReaderInvariant'
<1>1. /\ Next /\ UNCHANGED <<stage, request, lifecycle>>
      /\ overtaken' = (stage # "idle" /\ (overtaken \/ \E w \in Process : Writing(w)'))
      /\ result' = IF overtaken' THEN NoResult ELSE result
    BY DEF Patcher
<1>2. overtaken' \in BOOLEAN /\ (result' = NoResult \/ result' = result)
    BY <1>1
<1>3. Wanted(request)' = Wanted(request)
    BY <1>1 DEF Wanted, Inferred
<1>4. ReaderTypeOK' /\ HashTellsTheDomains'
    BY <1>1, <1>2, <1>3, NothingIsNoResult
       DEF ReaderInvariant, ReaderTypeOK, HashTellsTheDomains
<1>5. ASSUME stage # "idle", ~overtaken', \A w \in Process : ~Writing(w)
      PROVE  /\ ~overtaken /\ result' = result /\ \A w \in Process : ~Writing(w)'
             /\ UNCHANGED <<data, ghosts>>
    BY <1>1, <1>5, QuietStep
<1>6. stage # "idle" /\ ~overtaken' => ~overtaken
    BY <1>1
<1>7. ChoiceIsOfTheAtlas'
  <2> SUFFICES ASSUME Chosen', ~overtaken'
               PROVE  /\ \A w \in Process : ~Writing(w)'
                      /\ result'.enabled = {d \in Wanted(request)' : IsActive(d)'}
    BY DEF ChoiceIsOfTheAtlas
  <2>1. Chosen /\ stage # "idle"
    BY <1>1 DEF Chosen
  <2>2. /\ \A w \in Process : ~Writing(w)
        /\ result.enabled = {d \in Wanted(request) : IsActive(d)}
    BY <1>6, <2>1 DEF ReaderInvariant, ChoiceIsOfTheAtlas
  <2>3. result' = result /\ (\A w \in Process : ~Writing(w)') /\ status' = status
    BY <1>5, <2>1, <2>2 DEF data
  <2> QED
    BY <1>3, <2>2, <2>3 DEF IsActive
<1>8. ReportIsOfTheAtlas' /\ LifecycleIsOfAWholePatch'
  <2> SUFFICES ASSUME stage = "done", ~overtaken'
               PROVE  /\ \A w \in Process : ~Writing(w)'
                      /\ \/ lifecycle.tag = base'.tag
                         \/ lifecycle.tag = "unknown" /\ attempted' # {}
    BY <1>1 DEF ReportIsOfTheAtlas, LifecycleIsOfAWholePatch
  <2>1. /\ \A w \in Process : ~Writing(w)
        /\ \/ lifecycle.tag = base.tag
           \/ lifecycle.tag = "unknown" /\ attempted # {}
    BY <1>6 DEF ReaderInvariant, ReportIsOfTheAtlas, LifecycleIsOfAWholePatch
  <2> QED
    BY <1>5, <2>1 DEF ghosts
<1>9. NothingYet'
    BY <1>1, <1>2, NothingIsNoResult DEF ReaderInvariant, NothingYet
<1> QED
    BY <1>3, <1>4, <1>7, <1>8, <1>9 DEF ReaderInvariant

LEMMA ReaderStep ==
    ASSUME PatchAssumption, ReaderAssumption, PatchInvariant, ReaderInvariant, ReaderNext
    PROVE  ReaderInvariant'
<1>1. CASE Patcher
    BY <1>1, PatcherKeeps
<1>2. CASE \E r \in Requests : Ask(r)
    BY <1>2, AskKeeps
<1>3. CASE ShieldStatuses \/ BlueprintStatuses
    BY <1>3, ChoiceKeeps DEF ShieldStatuses, BlueprintStatuses, Reading
<1>4. CASE ShieldHash \/ BlueprintHash
    BY <1>4, HashKeeps DEF ShieldHash, BlueprintHash, Reading
<1>5. CASE ReadPatterns \/ ReadSummary
    BY <1>5, ReadKeeps DEF ReadPatterns, ReadSummary, Reading
<1>6. CASE ReadLifecycle
    BY <1>6, ReadLifecycleKeeps
<1>7. CASE Leave
    BY <1>7, LeaveKeeps
<1> QED
    BY <1>1, <1>2, <1>3, <1>4, <1>5, <1>6, <1>7 DEF ReaderNext, Reader

LEMMA ReaderStutter ==
    ASSUME ReaderInvariant, UNCHANGED allVars
    PROVE  ReaderInvariant'
<1>1. UNCHANGED <<vars, stage, request, result, lifecycle, overtaken>>
    BY DEF allVars, readerVars
<1>2. /\ Wanted(request)' = Wanted(request)
      /\ \A d : IsActive(d)' <=> IsActive(d)
      /\ \A w \in Process : Writing(w)' <=> Writing(w)
      /\ base' = base /\ attempted' = attempted
    BY <1>1 DEF Wanted, Inferred, IsActive, Writing, vars
<1>3. ReaderTypeOK' /\ HashTellsTheDomains' /\ NothingYet'
    BY <1>1, <1>2 DEF ReaderInvariant, ReaderTypeOK, HashTellsTheDomains, NothingYet
<1>4. ChoiceIsOfTheAtlas'
    BY <1>1, <1>2 DEF ReaderInvariant, ChoiceIsOfTheAtlas, Chosen
<1>5. ReportIsOfTheAtlas' /\ LifecycleIsOfAWholePatch'
    BY <1>1, <1>2 DEF ReaderInvariant, ReportIsOfTheAtlas, LifecycleIsOfAWholePatch
<1> QED
    BY <1>2, <1>3, <1>4, <1>5 DEF ReaderInvariant

LEMMA PatchStutter ==
    ASSUME PatchInvariant, UNCHANGED vars
    PROVE  PatchInvariant'
<1>1. UNCHANGED <<data, ghosts>> /\ pc' = pc /\ patch' = patch /\ at' = at
    BY DEF vars, data, ghosts
<1>2. \A w \in Process : Step(w)' = Step(w) /\ (Writing(w)' <=> Writing(w))
    BY <1>1 DEF Step, Writing
<1>3. TypeOK' /\ OneWriter'
    BY <1>1, <1>2 DEF PatchInvariant, TypeOK, OneWriter, data, ghosts
<1>4. AtItsOperation' /\ RecordUnderWay'
    BY <1>1, <1>2 DEF PatchInvariant, AtItsOperation, RecordUnderWay, data, ghosts
<1>5. EndUnderWay'
  <2>1. Fingerprint' = Fingerprint
    BY <1>1, SameFingerprint DEF data
  <2> QED
    BY <1>1, <2>1 DEF PatchInvariant, EndUnderWay, data
<1>6. WrittenSoFar'
    BY <1>1, <1>2, WrittenKept DEF PatchInvariant, WrittenSoFar
<1> QED
    BY <1>1, <1>3, <1>4, <1>5, <1>6, DataKept DEF PatchInvariant

-----------------------------------------------------------------------------
(* The theorems.                                                           *)

\* Whatever patches are applied, cut short, repeated or raced, the invariant of
\* the patching processes holds (apply_patch).
THEOREM PatchInvariance == Spec => []PatchInvariant
<1>1. Init => PatchInvariant
    BY PatchInit, PatchAssumption
<1>2. PatchInvariant /\ [Next]_vars => PatchInvariant'
    BY PatchStep, PatchStutter, PatchAssumption
<1> QED
    BY <1>1, <1>2, PTL DEF Spec

\* The readers only read: with them the patching processes do what they do
\* without (the connections of _EclInternalCore).
THEOREM ReadersOnlyRead == ReaderSpec => Spec
<1>1. ReaderInit => Init
    BY DEF ReaderInit
<1>2. [ReaderNext]_allVars => [Next]_vars
    BY DEF ReaderNext, Patcher, Reader, Ask, Reading, ShieldStatuses, ShieldHash,
           BlueprintStatuses, ReadPatterns, BlueprintHash, ReadSummary, ReadLifecycle,
           Leave, allVars
<1> QED
    BY <1>1, <1>2, PTL DEF ReaderSpec, Spec

\* The invariant of a run that reads the Atlas while patches are applied to it.
THEOREM ReaderInvariance == ReaderSpec => []ReaderInvariant
<1>1. ReaderInit => ReaderInvariant
    BY NothingIsNoResult
       DEF ReaderInit, ReaderInvariant, ReaderTypeOK, ChoiceIsOfTheAtlas, Chosen,
           HashTellsTheDomains, ReportIsOfTheAtlas, LifecycleIsOfAWholePatch, NothingYet
<1>2. PatchInvariant /\ ReaderInvariant /\ [ReaderNext]_allVars => ReaderInvariant'
    BY ReaderStep, ReaderStutter, PatchAssumption, ReaderAssumption
<1>3. ReaderSpec => []PatchInvariant
    BY PatchInvariance, ReadersOnlyRead, PTL
<1> QED
    BY <1>1, <1>2, <1>3, PTL DEF ReaderSpec

\* No record is ever there twice or with the tags of another version of it, at
\* whatever statement an application stops (_upsert_source_records).
THEOREM RecordsAreNeverMixed == ReaderSpec => []NoMixedRecord
<1>1. PatchInvariant => NoMixedRecord
    BY DEF PatchInvariant
<1> QED
    BY <1>1, PatchInvariance, ReadersOnlyRead, PTL

\* A patch reported as applied is there as a whole, whatever attempts were cut
\* before it (apply_patch).
THEOREM AppliedIsWhole == ReaderSpec => []AppliedPatchIsWhole
<1>1. PatchInvariant => AppliedPatchIsWhole
    BY DEF PatchInvariant
<1> QED
    BY <1>1, PatchInvariance, ReadersOnlyRead, PTL

\* Nothing shows that neither the last applied patch nor an attempt since is
\* about (apply_patch).
THEOREM NothingElseShows == ReaderSpec => []OnlyAttemptedPatchesShow
<1>1. PatchInvariant => OnlyAttemptedPatchesShow
    BY DEF PatchInvariant
<1> QED
    BY <1>1, PatchInvariance, ReadersOnlyRead, PTL

\* Between applications that ended well the birthmark agrees with the Atlas in its
\* version, its active domains and its sources (refresh_atlas_manifest,
\* _write_lifecycle_metadata).
THEOREM BirthmarkIsTrue == ReaderSpec => []BirthmarkDescribesAtlas
<1>1. PatchInvariant => BirthmarkDescribesAtlas
    BY DEF PatchInvariant
<1> QED
    BY <1>1, PatchInvariance, ReadersOnlyRead, PTL

\* A result's hash tells which of the domains asked for it was computed with,
\* unless a patch connected between its reads (validate_run_manifest).
THEOREM HashIsOfTheDomains == ReaderSpec => []HashTellsTheDomains
<1>1. ReaderInvariant => HashTellsTheDomains
    BY DEF ReaderInvariant
<1> QED
    BY <1>1, ReaderInvariance, PTL

\* The version reported is of the last patch applied as a whole, or unknown
\* after one that was cut (evaluate_atlas_lifecycle).
THEOREM LifecycleIsTrue == ReaderSpec => []LifecycleIsOfAWholePatch
<1>1. ReaderInvariant => LifecycleIsOfAWholePatch
    BY DEF ReaderInvariant
<1> QED
    BY <1>1, ReaderInvariance, PTL
=============================================================================
