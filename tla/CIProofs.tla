------------------------------ MODULE CIProofs ------------------------------
(* Proofs of the safety properties of CIRun, for any set of jobs, any      *)
(* number of runs and disturbances, and kills at every step.               *)
EXTENDS CIRun, FiniteSetTheorems, SequenceTheorems, WellFoundedInduction, TLAPS

-----------------------------------------------------------------------------
(* Sequences that grow.                                                    *)

LEMMA SequenceOfItsElements ==
    ASSUME NEW S, NEW s \in Seq(S)
    PROVE  IsSequence(s)
<1> DEFINE own == {s[i] : i \in DOMAIN s}
<1>1. s \in [1..Len(s) -> S] /\ Len(s) \in Nat /\ DOMAIN s = 1..Len(s)
    OBVIOUS
<1>2. s \in [1..Len(s) -> own]
    BY <1>1
<1>3. s \in Seq(own)
    <2> HIDE DEF own
    <2> QED
        BY <1>1, <1>2, SeqDef
<1> QED
    BY <1>3 DEF IsSequence

LEMMA Grows ==
    ASSUME NEW s, IsSequence(s), NEW e
    PROVE  /\ IsSequence(Append(s, e))
           /\ Len(s) \in Nat /\ DOMAIN s = 1..Len(s)
           /\ DOMAIN Append(s, e) = 1..(Len(s) + 1) /\ Len(Append(s, e)) = Len(s) + 1
           /\ \A i \in DOMAIN s : Append(s, e)[i] = s[i]
           /\ Append(s, e)[Len(s) + 1] = e
<1> DEFINE T == {s[i] : i \in DOMAIN s} \cup {e}
<1>1. s \in Seq({s[i] : i \in DOMAIN s})
    BY DEF IsSequence
<1>2. s \in Seq(T) /\ e \in T
    BY <1>1, SeqMonotonic
<1> HIDE DEF T
<1>3. /\ Append(s, e) \in Seq(T) /\ Len(Append(s, e)) = Len(s) + 1
      /\ \A i \in 1..Len(s) : Append(s, e)[i] = s[i]
      /\ Append(s, e)[Len(s) + 1] = e
    BY <1>2, AppendProperties
<1>4. Len(s) \in Nat /\ DOMAIN s = 1..Len(s) /\ DOMAIN Append(s, e) = 1..Len(Append(s, e))
    BY <1>2, <1>3
<1> QED
    BY <1>3, <1>4, SequenceOfItsElements

-----------------------------------------------------------------------------
(* What the steps have in common.                                          *)

\* The step that ends a run.
RunEnds ==
    /\ stage # "idle" /\ stage' = "idle" /\ UNCHANGED <<job, runs, disturbed>>
    /\ local' = NoLocals
    /\ \E code \in {-1, 0, 1}, completed \in BOOLEAN :
          /\ history' = Append(history, [run |-> runs, job |-> job, gate |-> local.gate,
                                         code |-> code, completed |-> completed])
          /\ completed => WriteManifest /\ code = ExitCode(ManifestReport)
    /\ UNCHANGED reports \/ WriteManifest

LEMMA EndsAre ==
    /\ ScanAlone => RunEnds
    /\ InputRaises => RunEnds
    /\ LedgerRaises => RunEnds
    /\ WriteManifest => RunEnds
    /\ Kill => RunEnds
    /\ AppendPassport /\ ~local.sound => RunEnds
<1>1. ScanAlone => RunEnds
    BY DEF ScanAlone, RunEnds, At, End, ExitCode
<1>2. InputRaises => RunEnds
    BY DEF InputRaises, Raise, RunEnds, At, End
<1>3. LedgerRaises => RunEnds
    BY DEF LedgerRaises, Raise, RunEnds, At, End
<1>4. WriteManifest => RunEnds
    <2> SUFFICES ASSUME WriteManifest PROVE RunEnds
        OBVIOUS
    <2>1. ExitCode(ManifestReport) \in {-1, 0, 1}
        BY DEF ExitCode
    <2> QED
        BY <2>1 DEF WriteManifest, RunEnds, At, End
<1>5. Kill => RunEnds
    BY DEF Kill, RunEnds, At, End
<1>6. AppendPassport /\ ~local.sound => RunEnds
    BY DEF AppendPassport, Raise, RunEnds, At, End, GoTo
<1> QED
    BY <1>1, <1>2, <1>3, <1>4, <1>5, <1>6

\* The kind of the event a run appends when it is at stage s.
KindAt(s) ==
    CASE s \in {"scan", "report"} -> "ci_scan"
      [] s = "blueprint" -> "curriculum_blueprint_generated"
      [] s = "oracle" -> "oracle_shield_run"
      [] s = "passport" -> "compliance_passport_generated"
      [] s = "gate" -> "risk_gate_decision"
      [] s = "diff" -> "diff_free_pr_evidence"
      [] s = "export" -> "local_artifact_export"

AppendingStages == {"scan", "report", "blueprint", "oracle", "passport", "gate", "diff", "export"}

\* The event a run appends, and what it says.
RunAppends(e) ==
    /\ stage \in AppendingStages /\ Readable
    /\ ledger' = Append(ledger, e) /\ UNCHANGED <<job, runs, disturbed>>
    /\ e.run = runs /\ e.line = "sound" /\ e.kind = KindAt(stage)
    /\ stage = "oracle" => e.counts = Counts(Shield(job.manifest))
    /\ stage = "passport" =>
          /\ e.count = local.count /\ e.chain_valid = local.valid
          /\ (stage' = "score" /\ local.sound) \/ stage' = "idle"
    /\ stage = "gate" => e.gate = local.gate
    /\ stage = "export" => e.hashes = [f \in Exported |-> reports[f]]

\* The event somebody else appends.
OtherAppends(e) ==
    /\ Disturb /\ ledger' = Append(ledger, e)
    /\ e.run = 0 /\ e.line \in {"sound", "unlinked", "malformed"}
    /\ e.kind \in {"human_approval_recorded", "oracle_shield_run", "data_ingest", "none"}

\* Whatever disturbs the ledger adds a line that is of no run.
LEMMA DisturbancesAppend ==
    ASSUME Disturb
    PROVE  \E e : OtherAppends(e)
<1>1. ASSUME NEW e, ledger' = Append(ledger, e), e.run = 0,
             e.line \in {"sound", "unlinked", "malformed"},
             e.kind \in {"human_approval_recorded", "oracle_shield_run", "data_ingest", "none"}
      PROVE  \E f : OtherAppends(f)
    BY <1>1 DEF OtherAppends
<1>2. CASE ledger' = Append(ledger, [kind |-> "human_approval_recorded", run |-> 0,
                                     line |-> "sound"])
    <2> DEFINE e == [kind |-> "human_approval_recorded", run |-> 0, line |-> "sound"]
    <2>1. e.run = 0 /\ e.kind = "human_approval_recorded" /\ e.line = "sound"
        OBVIOUS
    <2> HIDE DEF e
    <2> QED
        BY <1>1, <1>2, <2>1 DEF e
<1>3. ASSUME NEW j \in Jobs,
             ledger' = Append(ledger, [kind |-> "oracle_shield_run", run |-> 0, line |-> "sound",
                                       counts |-> CommandCounts(Shield(j.manifest))])
      PROVE  \E f : OtherAppends(f)
    BY <1>1, <1>3
<1>4. CASE ledger' = Append(ledger, [kind |-> "data_ingest", run |-> 0, line |-> "unlinked"])
    BY <1>1, <1>4
<1>5. CASE ledger' = Append(ledger, [kind |-> "none", run |-> 0, line |-> "malformed"])
    BY <1>1, <1>5
<1> QED
    BY <1>2, <1>3, <1>4, <1>5 DEF Disturb

LEMMA LedgerSteps ==
    ASSUME Next
    PROVE  \/ UNCHANGED ledger
           \/ \E e : RunAppends(e)
           \/ \E e : OtherAppends(e)
<1>1. ASSUME ScanAlone PROVE UNCHANGED ledger \/ \E e : RunAppends(e)
    <2>1. CASE UNCHANGED ledger
        BY <2>1
    <2>2. CASE ~UNCHANGED ledger
        <3>1. At("scan") /\ AppendEvent(Event("ci_scan")) /\ UNCHANGED <<job, runs, disturbed>>
            BY <1>1, <2>2 DEF ScanAlone
        <3>2. RunAppends(Event("ci_scan"))
            BY <3>1 DEF At, AppendEvent, Event, RunAppends, AppendingStages, KindAt
        <3> QED
            BY <3>2
    <2> QED
        BY <2>1, <2>2
<1>2. ASSUME Scan PROVE RunAppends(Event("ci_scan"))
    BY <1>2 DEF Scan, At, AppendEvent, Event, RunAppends, AppendingStages, KindAt, GoTo
<1>3. ASSUME Blueprint PROVE RunAppends(Event("curriculum_blueprint_generated"))
    BY <1>3 DEF Blueprint, At, AppendEvent, Event, RunAppends, AppendingStages, KindAt, GoTo
<1>4. ASSUME Oracle PROVE RunAppends(OracleEvent(Counts(Shield(job.manifest))))
    BY <1>4 DEF Oracle, At, AppendEvent, OracleEvent, RunAppends, AppendingStages, KindAt, GoTo
<1>5. ASSUME AppendPassport PROVE RunAppends(PassportEvent(local.count, local.valid))
    BY <1>5 DEF AppendPassport, At, AppendEvent, PassportEvent, RunAppends, AppendingStages,
                KindAt, GoTo, Raise, End
<1>6. ASSUME RecordGate PROVE RunAppends(GateEvent(local.gate))
    BY <1>6 DEF RecordGate, At, AppendEvent, GateEvent, RunAppends, AppendingStages, KindAt, GoTo
<1>7. ASSUME AppendDiffProof PROVE RunAppends(Event("diff_free_pr_evidence"))
    BY <1>7 DEF AppendDiffProof, At, AppendEvent, Event, RunAppends, AppendingStages, KindAt, GoTo
<1>8. ASSUME AppendExport PROVE RunAppends(ExportEvent([f \in Exported |-> reports[f]]))
    BY <1>8 DEF AppendExport, At, AppendEvent, ExportEvent, RunAppends, AppendingStages, KindAt,
                GoTo
<1>9. ASSUME Disturb PROVE \E e : OtherAppends(e)
    BY <1>9, DisturbancesAppend
<1>10. ASSUME InputRaises \/ CountEvents \/ VerifyForPassport \/ VerifyForEvent
                  \/ ScoreEvents \/ WriteReports \/ VerifyForPack \/ BuildPack \/ WriteComment \/ FinalVerify \/ WriteManifest
                  \/ LedgerRaises \/ BuildPackAlone \/ Kill \/ \E j \in Jobs : Start(j)
       PROVE  UNCHANGED ledger
    BY <1>10 DEF InputRaises, CountEvents, VerifyForPassport, VerifyForEvent, ScoreEvents,
                 WriteReports, VerifyForPack, BuildPack, WriteComment, FinalVerify, WriteManifest, LedgerRaises,
                 BuildPackAlone, Kill, Start
<1> QED
    BY <1>1, <1>2, <1>3, <1>4, <1>5, <1>6, <1>7, <1>8, <1>9, <1>10 DEF Next, Generate

\* The step of a run that goes on.
RunMoves ==
    /\ stage # "idle" /\ stage' # "idle" /\ UNCHANGED <<job, runs, disturbed, history>>
    /\ \/ stage = "report" /\ stage' = (IF job.has_manifest = "no" THEN "compile" ELSE "blueprint")
       \/ stage = "blueprint" /\ stage' = "oracle"
       \/ stage = "oracle" /\ stage' = "compile"
       \/ stage = "compile" /\ stage' = "compile_verify"
       \/ stage = "compile_verify" /\ stage' = "recheck"
       \/ stage = "recheck" /\ stage' = "passport"
       \/ stage = "passport" /\ stage' = "score"
       \/ stage = "score" /\ stage' = "gate"
       \/ stage = "gate" /\ stage' = "write"
       \/ stage = "write" /\ stage' = "diff"
       \/ stage = "diff" /\ stage' = "verify"
       \/ stage = "verify" /\ stage' = (IF job.generate_pack THEN "pack" ELSE "comment")
       \/ stage = "pack" /\ stage' = "comment"
       \/ stage = "comment" /\ stage' = "export"
       \/ stage = "export" /\ stage' = "final_verify"
       \/ stage = "final_verify" /\ stage' = "manifest"

LEMMA StageSteps ==
    ASSUME Next
    PROVE  \/ \E j \in Jobs : Start(j)
           \/ RunEnds
           \/ RunMoves
           \/ (Disturb \/ BuildPackAlone) /\ UNCHANGED <<stage, job, local, runs, history>>
<1>1. ASSUME Scan \/ Blueprint \/ Oracle \/ CountEvents \/ VerifyForPassport \/ VerifyForEvent
      PROVE  RunMoves
    BY <1>1 DEF Scan, Blueprint, Oracle, CountEvents, VerifyForPassport, VerifyForEvent, GoTo,
                At, RunMoves
<1>2. ASSUME AppendPassport PROVE RunMoves \/ RunEnds
    <2>1. ~local.sound => RunEnds
        BY <1>2, EndsAre
    <2>2. local.sound => RunMoves
        BY <1>2 DEF AppendPassport, GoTo, At, RunMoves
    <2> QED
        BY <2>1, <2>2
<1>3. ASSUME ScoreEvents \/ RecordGate \/ WriteReports \/ AppendDiffProof PROVE RunMoves
    BY <1>3 DEF ScoreEvents, RecordGate, WriteReports, AppendDiffProof, GoTo, At, RunMoves
<1>4. ASSUME VerifyForPack \/ BuildPack \/ WriteComment \/ AppendExport \/ FinalVerify PROVE RunMoves
    BY <1>4 DEF VerifyForPack, BuildPack, WriteComment, AppendExport, FinalVerify, GoTo, At,
                RunMoves
<1>5. ASSUME Disturb \/ BuildPackAlone PROVE UNCHANGED <<stage, job, local, runs, history>>
    BY <1>5 DEF Disturb, BuildPackAlone
<1> QED
    BY <1>1, <1>2, <1>3, <1>4, <1>5, EndsAre DEF Next, Generate

\* The steps that write reports.
Writes == WriteReports \/ AppendDiffProof \/ VerifyForPack \/ BuildPack \/ WriteComment
             \/ FinalVerify \/ WriteManifest \/ BuildPackAlone

LEMMA OthersWriteNothing ==
    ASSUME Next, ~Writes
    PROVE  UNCHANGED reports
BY DEF Next, Generate, Writes, ScanAlone, Scan, InputRaises, Blueprint, Oracle, CountEvents,
       VerifyForPassport, VerifyForEvent, AppendPassport, ScoreEvents, RecordGate, AppendExport,
       LedgerRaises,
       Disturb, Kill, Start, Raise, GoTo

-----------------------------------------------------------------------------
(* The types.                                                              *)

LEMMA CITypeInit == Init => TypeOK
<1> SUFFICES ASSUME Init PROVE TypeOK
    OBVIOUS
<1>1. IsSequence(<< >>)
    <2>1. << >> \in Seq({})
        OBVIOUS
    <2> QED
        BY <2>1, SequenceOfItsElements
<1>2. ledger = << >> /\ history = << >> /\ DOMAIN ledger = {}
    BY DEF Init
<1>3. /\ DOMAIN reports = ReportFiles
      /\ \A f \in ReportFiles : reports[f] = Absent /\ reports[f].run = 0
    BY DEF Init, Absent
<1>4. ~Present("verification") /\ ~Present("pack")
    BY <1>3 DEF Present, ReportFiles
<1>5. /\ stage \in Stages /\ job \in Jobs
      /\ local \in [count : Nat, valid : BOOLEAN, sound : BOOLEAN, gate : Gates,
                    readiness : Statuses]
      /\ runs \in 0..MaxRuns /\ disturbed \in 0..MaxDisturb /\ 0 \in 0..runs
    BY CIAssumption DEF Init, Stages, NoLocals, Gates, Statuses
<1> QED
    BY <1>1, <1>2, <1>3, <1>4, <1>5 DEF TypeOK

\* What is known of each line.
LineOK(e) ==
    /\ e.run \in 0..runs
    /\ e.line \in {"sound", "unlinked", "malformed"}
    /\ e.kind = "compliance_passport_generated" =>
          e.run > 0 /\ e.chain_valid \in BOOLEAN /\ e.count \in Nat
    /\ e.kind = "risk_gate_decision" => e.run > 0
    /\ e.kind = "local_artifact_export" =>
          DOMAIN e.hashes \subseteq ReportFiles \ {"verification", "manifest"}

LEMMA LinesTyped ==
    ASSUME TypeOK, RunsAreNumbered, Next
    PROVE  /\ IsSequence(ledger')
           /\ \A i \in DOMAIN ledger' :
                 /\ ledger'[i].run \in 0..runs'
                 /\ ledger'[i].line \in {"sound", "unlinked", "malformed"}
                 /\ ledger'[i].kind = "compliance_passport_generated" =>
                       /\ ledger'[i].run > 0
                       /\ ledger'[i].chain_valid \in BOOLEAN /\ ledger'[i].count \in Nat
                 /\ ledger'[i].kind = "risk_gate_decision" => ledger'[i].run > 0
                 /\ ledger'[i].kind = "local_artifact_export" =>
                       DOMAIN ledger'[i].hashes \subseteq ReportFiles \ {"verification", "manifest"}
<1>1. /\ IsSequence(ledger) /\ runs \in Nat
      /\ \A i \in DOMAIN ledger : LineOK(ledger[i])
    BY CIAssumption DEF TypeOK, LineOK
<1>2. runs' \in {runs, runs + 1}
    BY StageSteps DEF Start, RunEnds, RunMoves
<1>3. ASSUME NEW e, LineOK(e), ledger' = Append(ledger, e)
      PROVE  IsSequence(ledger') /\ \A i \in DOMAIN ledger' : LineOK(ledger'[i])
    <2>1. /\ IsSequence(ledger') /\ DOMAIN ledger' = DOMAIN ledger \cup {Len(ledger) + 1}
          /\ \A i \in DOMAIN ledger : ledger'[i] = ledger[i]
          /\ ledger'[Len(ledger) + 1] = e
        BY <1>1, <1>3, Grows
    <2> QED
        BY <1>1, <1>3, <2>1
<1>4. ASSUME NEW e, RunAppends(e) PROVE LineOK(e)
    <2>1. /\ e.run = runs /\ e.kind = KindAt(stage) /\ stage \in AppendingStages
          /\ e.line = "sound"
        BY <1>4 DEF RunAppends
    <2>2. runs > 0 /\ runs \in 0..runs
        BY <1>1, <2>1 DEF RunsAreNumbered, AppendingStages
    <2>3. e.kind = "compliance_passport_generated" =>
              e.chain_valid \in BOOLEAN /\ e.count \in Nat
        <3>1. e.kind = "compliance_passport_generated" => stage = "passport"
            BY <2>1 DEF KindAt, AppendingStages
        <3>2. local.valid \in BOOLEAN /\ local.count \in Nat
            BY DEF TypeOK
        <3> QED
            BY <1>4, <3>1, <3>2 DEF RunAppends
    <2>4. e.kind = "local_artifact_export" =>
              DOMAIN e.hashes \subseteq ReportFiles \ {"verification", "manifest"}
        <3>1. e.kind = "local_artifact_export" => stage = "export"
            BY <2>1 DEF KindAt, AppendingStages
        <3>2. Exported \subseteq ReportFiles \ {"verification", "manifest"}
            BY DEF Exported, ReportFiles
        <3> QED
            BY <1>4, <3>1, <3>2 DEF RunAppends
    <2> QED
        BY <2>1, <2>2, <2>3, <2>4 DEF LineOK
<1>5. ASSUME NEW e, OtherAppends(e) PROVE LineOK(e)
    BY <1>1, <1>5 DEF OtherAppends, LineOK
<1>6. IsSequence(ledger') /\ \A i \in DOMAIN ledger' : LineOK(ledger'[i])
    <2>1. CASE UNCHANGED ledger
        BY <1>1, <2>1
    <2>2. CASE \E e : RunAppends(e) \/ OtherAppends(e)
        <3>1. PICK e : RunAppends(e) \/ OtherAppends(e)
            BY <2>2
        <3>2. ledger' = Append(ledger, e) /\ LineOK(e)
            BY <1>4, <1>5, <3>1 DEF RunAppends, OtherAppends
        <3> QED
            BY <1>3, <3>2
    <2> QED
        BY <2>1, <2>2, LedgerSteps
<1>7. \A i \in DOMAIN ledger' : ledger'[i].run \in 0..runs'
    BY <1>1, <1>2, <1>6 DEF LineOK
<1> QED
    BY <1>6, <1>7 DEF LineOK

LEMMA GatesAre == \A n, certified : RiskGate(n, certified) \in Gates
BY DEF RiskGate, Gates

LEMMA StatusesAre == \A e : Status(e) \in Statuses
BY DEF Status, Statuses

LEMMA LocalTyped ==
    ASSUME TypeOK, Next
    PROVE  local' \in [count : Nat, valid : BOOLEAN, sound : BOOLEAN, gate : Gates,
                       readiness : Statuses]
<1> DEFINE Locals == [count : Nat, valid : BOOLEAN, sound : BOOLEAN, gate : Gates,
                      readiness : Statuses]
<1>1. local \in Locals /\ NoLocals \in Locals
    BY DEF TypeOK, NoLocals, Gates, Statuses
<1>2. CASE RunEnds
    BY <1>1, <1>2 DEF RunEnds
<1>3. CASE UNCHANGED local
    BY <1>1, <1>3
<1>4. CASE CountEvents
    <2>1. Len(ledger) \in Nat
        BY Grows DEF TypeOK
    <2> QED
        BY <1>1, <1>4, <2>1 DEF CountEvents
<1>5. CASE VerifyForPassport
    BY <1>1, <1>5 DEF VerifyForPassport
<1>9. CASE VerifyForEvent
    BY <1>1, <1>9 DEF VerifyForEvent
<1>6. CASE ScoreEvents
    <2>1. GateOf(ledger) \in Gates
        BY GatesAre DEF GateOf
    <2> QED
        BY <1>1, <1>6, <2>1 DEF ScoreEvents
<1>7. CASE BuildPack
    BY <1>1, <1>7, StatusesAre DEF BuildPack
<1>8. ~(RunEnds \/ CountEvents \/ VerifyForPassport \/ VerifyForEvent \/ ScoreEvents \/ BuildPack)
      => UNCHANGED local
    BY EndsAre DEF Next, Generate, Scan, Blueprint, Oracle, AppendPassport, RecordGate,
           WriteReports, AppendDiffProof, VerifyForPack, WriteComment, AppendExport, FinalVerify,
           BuildPackAlone, Disturb, Start
<1> QED
    BY <1>2, <1>3, <1>4, <1>5, <1>6, <1>7, <1>8, <1>9

LEMMA LeastOf ==
    ASSUME NEW S \in SUBSET Nat, S # {}
    PROVE  \E n \in S : \A m \in S : n <= m
<1>1. PICK n \in S : \A m \in S : ~(<<m, n>> \in OpToRel(<, Nat))
    BY NatLessThanWellFounded, WFMin
<1>2. ASSUME NEW i \in Nat, NEW k \in Nat, k < i PROVE <<k, i>> \in OpToRel(<, Nat)
    BY <1>2 DEF OpToRel
<1>3. \A m \in S : n \in Nat /\ m \in Nat /\ ~(m < n)
    BY <1>1, <1>2
<1> QED
    BY <1>3

\* verify says valid only if no line is unlinked or malformed.
LEMMA VerifiedIs ==
    ASSUME TypeOK
    PROVE  /\ Verified = "valid" <=> Defects = {}
           /\ Defects = {} => \A i \in DOMAIN ledger : ledger[i].line = "sound"
<1>1. CASE Defects = {}
    BY <1>1 DEF Verified, Defects
<1>2. CASE Defects # {}
    <2> DEFINE P(i) == i \in Defects /\ \A k \in Defects : i <= k
    <2>1. Defects \in SUBSET Nat
        BY Grows DEF Defects, TypeOK
    <2>2. \E i : P(i)
        BY <1>2, <2>1, LeastOf
    <2>3. P(CHOOSE i : P(i))
        <3> HIDE DEF P
        <3> QED
            BY <2>2
    <2>4. Verified = ledger[CHOOSE i : P(i)].line
        BY <1>2 DEF Verified
    <2>5. (CHOOSE i : P(i)) \in DOMAIN ledger
        BY <2>3 DEF Defects
    <2> HIDE DEF P
    <2>6. Verified \in {"sound", "unlinked", "malformed"}
        BY <2>4, <2>5 DEF TypeOK
    <2> QED
        BY <1>2, <2>6
<1> QED
    BY <1>1, <1>2

\* The lines verify calls sound, if it finds no defect: all of them.
LEMMA SoundEventsAre ==
    ASSUME TypeOK
    PROVE  /\ SoundEvents \in Nat
           /\ Verified = "valid" => SoundEvents = Len(ledger)
<1> DEFINE S == {i \in DOMAIN ledger : \A d \in Defects : i < d}
<1>1. Len(ledger) \in Nat /\ DOMAIN ledger = 1..Len(ledger)
    BY Grows DEF TypeOK
<1>2. IsFiniteSet(1..Len(ledger)) /\ Cardinality(1..Len(ledger)) = Len(ledger)
    <2>1. /\ IsFiniteSet(1..Len(ledger))
          /\ Cardinality(1..Len(ledger)) = IF 1 > Len(ledger) THEN 0 ELSE Len(ledger) - 1 + 1
        BY <1>1, FS_Interval
    <2> QED
        BY <1>1, <2>1
<1>3. IsFiniteSet(S)
    BY <1>1, <1>2, FS_Subset
<1>4. Cardinality(S) \in Nat
    <2> HIDE DEF S
    <2> QED
        BY <1>3, FS_CardinalityType
<1>5. Verified = "valid" => S = 1..Len(ledger)
    <2> SUFFICES ASSUME Verified = "valid" PROVE S = 1..Len(ledger)
        OBVIOUS
    <2>1. Defects = {}
        BY VerifiedIs
    <2> QED
        BY <1>1, <2>1
<1> QED
    BY <1>2, <1>4, <1>5 DEF SoundEvents

\* The pack and the verification, as they are written.
LEMMA PackWritten ==
    ASSUME TypeOK, NEW run, NEW gaps, WritePack(run, gaps)
    PROVE  /\ DOMAIN reports' = ReportFiles
           /\ \A f \in ReportFiles \ {"pack"} : reports'[f] = reports[f]
           /\ reports'["pack"].run = run /\ reports'["pack"].evidence = PackEvidence(gaps)
           /\ reports'["pack"].event_count = VerifiedEvents
<1> DEFINE p == [run |-> run, evidence |-> PackEvidence(gaps), event_count |-> VerifiedEvents]
<1>1. reports' = [reports EXCEPT !["pack"] = p] /\ DOMAIN reports = ReportFiles
    BY DEF WritePack, TypeOK
<1>2. p.run = run /\ p.evidence = PackEvidence(gaps) /\ p.event_count = VerifiedEvents
    OBVIOUS
<1>3. "pack" \in ReportFiles
    BY DEF ReportFiles
<1> HIDE DEF p
<1> QED
    BY <1>1, <1>2, <1>3

LEMMA VerificationWritten ==
    ASSUME TypeOK, WriteVerification
    PROVE  /\ DOMAIN reports' = ReportFiles
           /\ \A f \in ReportFiles \ {"verification"} : reports'[f] = reports[f]
           /\ reports'["verification"].run = runs
           /\ reports'["verification"].valid \in BOOLEAN
           /\ reports'["verification"].valid <=> Verified = "valid"
           /\ reports'["verification"].event_count = SoundEvents
<1> DEFINE v == [run |-> runs, valid |-> (Verified = "valid"), event_count |-> SoundEvents]
<1>1. reports' = [reports EXCEPT !["verification"] = v] /\ DOMAIN reports = ReportFiles
    BY DEF WriteVerification, TypeOK
<1>2. v.run = runs /\ v.valid = (Verified = "valid") /\ v.event_count = SoundEvents
    OBVIOUS
<1>4. v.valid \in BOOLEAN
    OBVIOUS
<1>3. "verification" \in ReportFiles
    BY DEF ReportFiles
<1> HIDE DEF v
<1>5. reports'["verification"] = v
    BY <1>1, <1>3
<1> QED
    BY <1>1, <1>2, <1>4, <1>5

LEMMA ManifestWritten ==
    ASSUME TypeOK, WriteManifest
    PROVE  /\ DOMAIN reports' = ReportFiles
           /\ \A f \in ReportFiles \ {"manifest"} : reports'[f] = reports[f]
           /\ reports'["manifest"].run = runs /\ reports'["manifest"].gate = local.gate
<1> DEFINE m == [run |-> runs, gate |-> local.gate, payload |-> "passed"]
<1>1. reports' = [reports EXCEPT !["manifest"] = m] /\ DOMAIN reports = ReportFiles
    BY DEF WriteManifest, TypeOK
<1>2. m.run = runs /\ m.gate = local.gate
    OBVIOUS
<1>3. "manifest" \in ReportFiles
    BY DEF ReportFiles
<1> HIDE DEF m
<1> QED
    BY <1>1, <1>2, <1>3

\* Which step writes which report.
LEMMA ReportsStay ==
    ASSUME TypeOK, Next
    PROVE  /\ VerifyForPack \/ FinalVerify \/ reports'["verification"] = reports["verification"]
           /\ WriteManifest \/ reports'["manifest"] = reports["manifest"]
           /\ BuildPack \/ BuildPackAlone \/ reports'["pack"] = reports["pack"]
           /\ AppendDiffProof \/ reports'["oracle"] = reports["oracle"]
           /\ WriteComment \/ reports'["pr_comment"] = reports["pr_comment"]
           /\ \/ WriteReports
              \/ \A f \in {"risk_report", "passport", "lifecycle", "diff_proof", "supply_chain"} :
                    reports'[f] = reports[f]
<1> DEFINE Same(S) == \A f \in ReportFiles \ S : reports'[f] = reports[f]
<1>1. ReportFiles = {"risk_report", "passport", "lifecycle", "diff_proof", "oracle",
                     "supply_chain", "verification", "pack", "pr_comment", "manifest"}
    BY DEF ReportFiles
<1>2. DOMAIN reports = ReportFiles
    BY DEF TypeOK
<1>3. CASE UNCHANGED reports
    BY <1>3
<1>4. WriteReports => Same({"risk_report", "passport", "lifecycle", "diff_proof", "supply_chain"})
    BY <1>1, <1>2 DEF WriteReports
<1>5. AppendDiffProof => Same({"oracle"})
    BY <1>1, <1>2 DEF AppendDiffProof
<1>6. VerifyForPack \/ FinalVerify => Same({"verification"})
    BY VerificationWritten DEF VerifyForPack, FinalVerify
<1>7. BuildPack \/ BuildPackAlone => Same({"pack"})
    BY PackWritten DEF BuildPack, BuildPackAlone
<1>8. WriteComment => Same({"pr_comment"})
    BY <1>1, <1>2 DEF WriteComment
<1>9. WriteManifest => Same({"manifest"})
    BY ManifestWritten
<1> QED
    BY <1>1, <1>3, <1>4, <1>5, <1>6, <1>7, <1>8, <1>9, OthersWriteNothing DEF Writes

LEMMA ReportsTyped ==
    ASSUME TypeOK, RunsAreNumbered, Next
    PROVE  /\ DOMAIN reports' = ReportFiles
           /\ \A f \in ReportFiles : reports'[f].run \in 0..runs'
           /\ Present("verification")' =>
                 /\ reports'["verification"].valid \in BOOLEAN
                 /\ reports'["verification"].event_count \in Nat
           /\ Present("pack")' => reports'["pack"].event_count \in Nat
<1>0. ~BuildPack /\ ~BuildPackAlone => reports'["pack"] = reports["pack"]
    BY ReportsStay
<1>8. Present("pack")' => reports'["pack"].event_count \in Nat
    <2>1. CASE BuildPack \/ BuildPackAlone
        <3>1. reports'["pack"].event_count = VerifiedEvents
            BY <2>1, PackWritten DEF BuildPack, BuildPackAlone
        <3>2. VerifiedEvents \in Nat
            BY SoundEventsAre DEF VerifiedEvents, TypeOK
        <3> QED
            BY <3>1, <3>2
    <2>2. CASE reports'["pack"] = reports["pack"]
        BY <2>2 DEF Present, TypeOK
    <2> QED
        BY <2>1, <2>2, <1>0
<1>1. /\ DOMAIN reports = ReportFiles /\ runs \in Nat
      /\ \A f \in ReportFiles : reports[f].run \in 0..runs
      /\ runs' \in {runs, runs + 1}
    BY StageSteps, CIAssumption DEF TypeOK, Start, RunEnds, RunMoves
<1> DEFINE OK(x) == x.valid \in BOOLEAN /\ x.event_count \in Nat
<1>2. Present("verification") => OK(reports["verification"])
    BY DEF TypeOK
<1>3. CASE UNCHANGED reports
    BY <1>1, <1>2, <1>3, <1>8 DEF Present
<1>4. ASSUME WriteVerification, runs' = runs
      PROVE  /\ DOMAIN reports' = ReportFiles
             /\ \A f \in ReportFiles : reports'[f].run \in 0..runs
             /\ OK(reports'["verification"])
    <2>1. OK(reports'["verification"]) /\ reports'["verification"].run = runs
        BY <1>4, VerificationWritten, SoundEventsAre
    <2>2. /\ DOMAIN reports' = ReportFiles
          /\ \A f \in ReportFiles \ {"verification"} : reports'[f] = reports[f]
        BY <1>4, VerificationWritten
    <2> QED
        BY <1>1, <2>1, <2>2
<1>5. ASSUME WriteReports \/ AppendDiffProof \/ BuildPack \/ WriteComment \/ WriteManifest
                \/ BuildPackAlone
      PROVE  /\ DOMAIN reports' = ReportFiles
             /\ \A f \in ReportFiles : reports'[f] = reports[f] \/ reports'[f].run \in {0, runs}
             /\ reports'["verification"] = reports["verification"]
    <2>1. ReportFiles = {"risk_report", "passport", "lifecycle", "diff_proof", "oracle",
                         "supply_chain", "verification", "pack", "pr_comment", "manifest"}
        BY DEF ReportFiles
    <2>2. CASE WriteReports
        BY <1>1, <2>1, <2>2 DEF WriteReports
    <2>3. CASE AppendDiffProof
        BY <1>1, <2>1, <2>3 DEF AppendDiffProof
    <2>4. CASE BuildPack \/ BuildPackAlone
        <3>1. PICK run, gaps : run \in {0, runs} /\ WritePack(run, gaps)
            BY <2>4 DEF BuildPack, BuildPackAlone
        <3>2. /\ DOMAIN reports' = ReportFiles
              /\ \A f \in ReportFiles \ {"pack"} : reports'[f] = reports[f]
              /\ reports'["pack"].run = run
            BY <3>1, PackWritten
        <3>3. "verification" \in ReportFiles \ {"pack"}
            BY <2>1
        <3> QED
            BY <3>1, <3>2, <3>3
    <2>5. CASE WriteComment
        BY <1>1, <2>1, <2>5 DEF WriteComment
    <2>6. CASE WriteManifest
        BY <2>1, <2>6, ManifestWritten
    <2> QED
        BY <1>5, <2>2, <2>3, <2>4, <2>5, <2>6
<1>6. CASE VerifyForPack \/ FinalVerify
    <2>1. WriteVerification /\ runs' = runs
        BY <1>6 DEF VerifyForPack, FinalVerify, GoTo
    <2> QED
        BY <1>1, <1>4, <1>8, <2>1
<1>7. CASE WriteReports \/ AppendDiffProof \/ BuildPack \/ WriteComment \/ WriteManifest
             \/ BuildPackAlone
    BY <1>1, <1>2, <1>5, <1>7, <1>8 DEF Present
<1> QED
    BY <1>3, <1>6, <1>7, <1>8, OthersWriteNothing DEF Writes

LEMMA CITypeKept ==
    ASSUME TypeOK, RunsAreNumbered, Next
    PROVE  TypeOK'
<1>1. IsSequence(history')
    <2>1. CASE RunEnds
        <3>1. \E h : history' = Append(history, h)
            BY <2>1 DEF RunEnds
        <3> QED
            BY <3>1, Grows DEF TypeOK
    <2>2. CASE UNCHANGED history
        BY <2>2 DEF TypeOK
    <2> QED
        BY <2>1, <2>2, StageSteps DEF Start, RunMoves
<1>2. stage' \in Stages /\ job' \in Jobs
    <2>1. ASSUME NEW j \in Jobs, Start(j) PROVE stage' \in Stages /\ job' \in Jobs
        BY <2>1, CIAssumption DEF Start, JobInputs, Stages
    <2> QED
        BY <2>1, StageSteps DEF TypeOK, RunEnds, RunMoves, Stages
<1>3. runs' \in 0..MaxRuns
    BY StageSteps, CIAssumption DEF TypeOK, Start, RunEnds, RunMoves
<1>4. disturbed' \in 0..MaxDisturb
    <2>1. CASE Disturb
        BY <2>1, CIAssumption DEF Disturb, TypeOK
    <2>2. CASE ~Disturb
        BY <2>2, StageSteps DEF TypeOK, Start, RunEnds, RunMoves, BuildPackAlone
    <2> QED
        BY <2>1, <2>2
<1> QED
    BY <1>1, <1>2, <1>3, <1>4, LinesTyped, LocalTyped, ReportsTyped DEF TypeOK

-----------------------------------------------------------------------------
(* The runs.                                                               *)

\* The record of the run that ends is added to those of the runs before it.
LEMMA EndingAdds ==
    ASSUME TypeOK, NEW code, NEW completed,
           history' = Append(history, [run |-> runs, job |-> job, gate |-> local.gate,
                                       code |-> code, completed |-> completed])
    PROVE  \E h : /\ Ended' = Ended \cup {h}
                  /\ h.run = runs /\ h.job = job /\ h.gate = local.gate
                  /\ h.code = code /\ h.completed = completed
<1> DEFINE h == [run |-> runs, job |-> job, gate |-> local.gate, code |-> code,
                 completed |-> completed]
<1>2. /\ h.run = runs /\ h.job = job /\ h.gate = local.gate /\ h.code = code
      /\ h.completed = completed
    OBVIOUS
<1>3. history' = Append(history, h)
    OBVIOUS
<1> HIDE DEF h
<1>4. /\ DOMAIN history' = DOMAIN history \cup {Len(history) + 1}
      /\ \A i \in DOMAIN history : history'[i] = history[i]
      /\ history'[Len(history) + 1] = h
    BY <1>3, Grows DEF TypeOK
<1>5. Ended' = Ended \cup {h}
    BY <1>4 DEF Ended
<1> QED
    BY <1>2, <1>5

LEMMA EndedGrows ==
    ASSUME TypeOK, RunEnds
    PROVE  \E h : /\ Ended' = Ended \cup {h}
                  /\ h.run = runs /\ h.job = job /\ h.gate = local.gate
                  /\ h.completed \in BOOLEAN
                  /\ h.completed => WriteManifest /\ h.code = ExitCode(ManifestReport)
                  /\ Completed' = IF h.completed THEN Completed \cup {h} ELSE Completed
<1>1. PICK code \in {-1, 0, 1}, completed \in BOOLEAN :
          /\ history' = Append(history, [run |-> runs, job |-> job, gate |-> local.gate,
                                         code |-> code, completed |-> completed])
          /\ completed => WriteManifest /\ code = ExitCode(ManifestReport)
    BY DEF RunEnds
<1>2. PICK h : /\ Ended' = Ended \cup {h}
               /\ h.run = runs /\ h.job = job /\ h.gate = local.gate
               /\ h.code = code /\ h.completed = completed
    BY <1>1, EndingAdds
<1>5. Ended' = Ended \cup {h}
    BY <1>2
<1>6. Completed' = IF h.completed THEN Completed \cup {h} ELSE Completed
    <2>1. CASE h.completed
        BY <1>5, <2>1 DEF Completed
    <2>2. CASE ~h.completed
        BY <1>5, <2>2 DEF Completed
    <2> QED
        BY <2>1, <2>2
<1>7. h.completed \in BOOLEAN /\ (h.completed => WriteManifest /\ h.code = ExitCode(ManifestReport))
    BY <1>1, <1>2
<1> QED
    BY <1>2, <1>5, <1>6, <1>7

LEMMA EndedStays ==
    ASSUME UNCHANGED history
    PROVE  Ended' = Ended /\ Completed' = Completed
BY DEF Ended, Completed

LEMMA NumberingKept ==
    ASSUME TypeOK, RunsAreNumbered, Next
    PROVE  RunsAreNumbered'
<1>1. runs \in Nat /\ MaxRuns \in Nat
    BY CIAssumption DEF TypeOK
<1>2. ASSUME NEW j \in Jobs, Start(j) PROVE RunsAreNumbered'
    <2>1. /\ stage = "idle" /\ runs' = runs + 1 /\ UNCHANGED history
          /\ stage' # "idle"
        BY <1>2, CIAssumption DEF Start, At, JobInputs
    <2>2. Ended' = Ended
        BY <2>1, EndedStays
    <2> QED
        BY <1>1, <2>1, <2>2 DEF RunsAreNumbered
<1>3. CASE RunEnds
    <2>1. stage # "idle" /\ stage' = "idle" /\ UNCHANGED <<runs, job>> /\ job \in Jobs
        BY <1>3 DEF RunEnds, TypeOK
    <2>2. PICK h : Ended' = Ended \cup {h} /\ h.run = runs /\ h.job = job
        BY <1>3, EndedGrows
    <2>3. \A k \in Ended : k.run < runs /\ k.run # runs
        BY <1>1, <2>1 DEF RunsAreNumbered
    <2>4. \A k \in Ended' : k.run \in 1..runs /\ k.job \in Jobs
        BY <1>1, <2>1, <2>2 DEF RunsAreNumbered
    <2>5. \A k, l \in Ended' : k.run = l.run => k = l
        BY <2>2, <2>3 DEF RunsAreNumbered
    <2>6. \A r \in 1..runs : \E k \in Ended' : k.run = r
        BY <2>1, <2>2 DEF RunsAreNumbered
    <2> QED
        BY <2>1, <2>4, <2>5, <2>6 DEF RunsAreNumbered
<1>4. CASE RunMoves
    BY <1>4, EndedStays DEF RunMoves, RunsAreNumbered
<1>5. CASE UNCHANGED <<stage, job, local, runs, history>>
    BY <1>5, EndedStays DEF RunsAreNumbered
<1> QED
    BY <1>2, <1>3, <1>4, <1>5, StageSteps

\* The job of a run does not change, and the job of the run under way is job.
LEMMA JobOfRun ==
    ASSUME TypeOK, RunsAreNumbered, Next
    PROVE  /\ stage # "idle" => JobOf(runs) = job
           /\ \A r \in 1..runs : JobOf(r)' = JobOf(r)
           /\ \A h \in Ended : JobOf(h.run) = h.job
<1>1. \A h \in Ended : JobOf(h.run) = h.job
    <2> SUFFICES ASSUME NEW h \in Ended PROVE JobOf(h.run) = h.job
        OBVIOUS
    <2>1. (CHOOSE k \in Ended : k.run = h.run) = h
        BY DEF RunsAreNumbered
    <2> QED
        BY <2>1 DEF JobOf
<1>2. stage # "idle" => JobOf(runs) = job
    <2> SUFFICES ASSUME stage # "idle" PROVE JobOf(runs) = job
        OBVIOUS
    <2>1. \A h \in Ended : h.run < runs /\ runs \in Nat /\ h.run \in Nat
        BY CIAssumption DEF RunsAreNumbered, TypeOK
    <2>2. ~\E h \in Ended : h.run = runs
        BY <2>1
    <2> QED
        BY <2>2 DEF JobOf
<1>3. RunsAreNumbered'
    BY NumberingKept
<1>4. \A h \in Ended' : JobOf(h.run)' = h.job
    <2> SUFFICES ASSUME NEW h \in Ended' PROVE JobOf(h.run)' = h.job
        OBVIOUS
    <2>1. (CHOOSE k \in Ended' : k.run = h.run) = h
        BY <1>3 DEF RunsAreNumbered
    <2> QED
        BY <2>1 DEF JobOf
<1>5. \A h \in Ended : h \in Ended'
    BY StageSteps, EndedGrows, EndedStays DEF Start, RunMoves
<1>6. ASSUME NEW r \in 1..runs PROVE JobOf(r)' = JobOf(r)
    <2>1. CASE \E h \in Ended : h.run = r
        <3>1. PICK h \in Ended : h.run = r
            BY <2>1
        <3> QED
            BY <1>1, <1>4, <1>5, <3>1
    <2>2. CASE ~\E h \in Ended : h.run = r
        <3>1. stage # "idle" /\ r = runs
            BY <2>2 DEF RunsAreNumbered
        <3>2. JobOf(r) = job
            BY <1>2, <3>1
        <3>3. CASE RunEnds
            <4>1. PICK h : Ended' = Ended \cup {h} /\ h.run = runs /\ h.job = job
                BY <3>3, EndedGrows
            <4> QED
                BY <1>4, <3>1, <3>2, <4>1
        <3>4. CASE ~RunEnds
            <4>1. UNCHANGED <<job, history>>
                BY <3>1, <3>4, StageSteps DEF Start, At, RunMoves
            <4>2. Ended' = Ended
                BY <4>1, EndedStays
            <4> QED
                BY <2>2, <3>2, <4>1, <4>2 DEF JobOf
        <3> QED
            BY <3>3, <3>4
    <2> QED
        BY <2>1, <2>2
<1> QED
    BY <1>1, <1>2, <1>6

-----------------------------------------------------------------------------
(* The passport.                                                           *)

LEMMA LineAdded ==
    ASSUME TypeOK, NEW e, ledger' = Append(ledger, e)
    PROVE  /\ Len(ledger) \in Nat /\ DOMAIN ledger = 1..Len(ledger)
           /\ DOMAIN ledger' = 1..(Len(ledger) + 1) /\ Len(ledger') = Len(ledger) + 1
           /\ \A i \in DOMAIN ledger : ledger'[i] = ledger[i]
           /\ ledger'[Len(ledger) + 1] = e
BY Grows DEF TypeOK

\* Which action moves a run on from a stage.
LEMMA MovesAre ==
    ASSUME Next, RunMoves
    PROVE  /\ stage = "report" => Scan
           /\ stage = "blueprint" => Blueprint
           /\ stage = "oracle" => Oracle
           /\ stage = "compile" => CountEvents
           /\ stage = "compile_verify" => VerifyForPassport
           /\ stage = "recheck" => VerifyForEvent
           /\ stage = "passport" => AppendPassport /\ local.sound
           /\ stage = "score" => ScoreEvents
           /\ stage = "gate" => RecordGate
           /\ stage = "write" => WriteReports
           /\ stage = "diff" => AppendDiffProof
           /\ stage = "verify" => VerifyForPack
           /\ stage = "pack" => BuildPack
           /\ stage = "comment" => WriteComment
           /\ stage = "export" => AppendExport
           /\ stage = "final_verify" => FinalVerify
<1>1. /\ stage # "idle" /\ stage' # "idle" /\ stage' # stage
      BY DEF RunMoves
<1>2. ~(ScanAlone \/ InputRaises \/ WriteManifest \/ LedgerRaises \/ Kill)
    BY <1>1, EndsAre DEF RunEnds
<1>3. ~(BuildPackAlone \/ Disturb \/ \E j \in Jobs : Start(j))
    BY <1>1 DEF BuildPackAlone, Disturb, Start, At
<1>4. AppendPassport => local.sound
    BY <1>1, EndsAre DEF RunEnds
<1>5. /\ Scan => stage = "report"
      /\ Blueprint => stage = "blueprint"
      /\ Oracle => stage = "oracle"
      /\ CountEvents => stage = "compile"
      /\ VerifyForPassport => stage = "compile_verify"
      /\ VerifyForEvent => stage = "recheck"
      /\ AppendPassport => stage = "passport"
      /\ ScoreEvents => stage = "score"
      /\ RecordGate => stage = "gate"
      /\ WriteReports => stage = "write"
      /\ AppendDiffProof => stage = "diff"
      /\ VerifyForPack => stage = "verify"
      /\ BuildPack => stage = "pack"
      /\ WriteComment => stage = "comment"
      /\ AppendExport => stage = "export"
      /\ FinalVerify => stage = "final_verify"
    BY DEF Scan, Blueprint, Oracle, CountEvents, VerifyForPassport, VerifyForEvent,
           AppendPassport, ScoreEvents, RecordGate, WriteReports, AppendDiffProof, VerifyForPack, BuildPack, WriteComment,
           AppendExport, FinalVerify, At
<1>6. \/ Scan \/ Blueprint \/ Oracle \/ CountEvents \/ VerifyForPassport
      \/ VerifyForEvent \/ AppendPassport \/ ScoreEvents \/ RecordGate \/ WriteReports \/ AppendDiffProof
      \/ VerifyForPack \/ BuildPack \/ WriteComment \/ AppendExport \/ FinalVerify
    BY <1>2, <1>3 DEF Next, Generate
<1>7. /\ stage = "report" => Scan
      /\ stage = "blueprint" => Blueprint
      /\ stage = "oracle" => Oracle
      /\ stage = "compile" => CountEvents
    BY <1>5, <1>6
<1>8. /\ stage = "compile_verify" => VerifyForPassport
      /\ stage = "recheck" => VerifyForEvent
      /\ stage = "passport" => AppendPassport /\ local.sound
      /\ stage = "score" => ScoreEvents
      /\ stage = "gate" => RecordGate
    BY <1>4, <1>5, <1>6
<1>9. /\ stage = "write" => WriteReports
      /\ stage = "diff" => AppendDiffProof
      /\ stage = "verify" => VerifyForPack
      /\ stage = "pack" => BuildPack
    BY <1>5, <1>6
<1>10. /\ stage = "comment" => WriteComment
       /\ stage = "export" => AppendExport
       /\ stage = "final_verify" => FinalVerify
    BY <1>5, <1>6
<1> QED
    BY <1>7, <1>8, <1>9, <1>10

LEMMA StartsAre ==
    ASSUME NEW j \in Jobs, Start(j)
    PROVE  /\ stage = "idle" /\ stage' \in {"scan", "report"} /\ job' = j
           /\ stage' = "scan" <=> j.command = "scan"
           /\ runs' = runs + 1 /\ UNCHANGED <<ledger, reports, local, history>>
BY CIAssumption DEF Start, At, JobInputs

LEMMA ReadingKept ==
    ASSUME TypeOK, RunsAreNumbered, PassportWasRead, Next
    PROVE  PassportWasRead'
<1>1. Len(ledger) \in Nat /\ DOMAIN ledger = 1..Len(ledger)
    BY Grows DEF TypeOK
<1>2. CASE stage' \notin {"compile_verify", "recheck", "passport"}
    BY <1>2 DEF PassportWasRead
<1>3. CASE CountEvents
    <2>1. local'.count = Len(ledger) /\ ledger' = ledger /\ stage' = "compile_verify"
        BY <1>3 DEF CountEvents, GoTo, TypeOK
    <2> QED
        BY <1>1, <2>1 DEF PassportWasRead
<1>4. CASE VerifyForPassport
    <2>1. /\ local'.count = local.count /\ local'.valid \in BOOLEAN
          /\ local'.valid <=> Verified = "valid"
          /\ ledger' = ledger /\ runs' = runs /\ stage = "compile_verify" /\ stage' = "recheck"
        BY <1>4 DEF VerifyForPassport, GoTo, At, TypeOK
    <2>2. local'.valid => \A i \in DOMAIN ledger : ledger[i].line = "sound"
        BY <2>1, VerifiedIs
    <2>3. ~local'.valid => \E i \in DOMAIN ledger : ledger[i].line # "sound"
        BY <2>1, VerifiedIs DEF Defects
    <2>4. local.count \in Nat
        BY DEF TypeOK
    <2> QED
        BY <1>1, <2>1, <2>2, <2>3, <2>4 DEF PassportWasRead
<1>9. CASE VerifyForEvent
    <2>1. /\ local'.count = local.count /\ local'.valid = local.valid
          /\ ledger' = ledger /\ runs' = runs /\ stage = "recheck" /\ stage' = "passport"
        BY <1>9 DEF VerifyForEvent, GoTo, At, TypeOK
    <2> QED
        BY <2>1 DEF PassportWasRead
<1>5. CASE /\ Disturb \/ BuildPackAlone
           /\ UNCHANGED <<stage, job, local, runs, history>>
           /\ stage \in {"compile_verify", "recheck", "passport"}
    <2>1. CASE UNCHANGED ledger
        BY <1>5, <2>1 DEF PassportWasRead
    <2>2. CASE ~UNCHANGED ledger
        <3>1. PICK e : ledger' = Append(ledger, e) /\ e.run = 0
            BY <1>5, <2>2, DisturbancesAppend DEF OtherAppends, BuildPackAlone
        <3>2. runs > 0 /\ runs \in Nat /\ local.count \in Nat
            BY <1>5, CIAssumption DEF RunsAreNumbered, TypeOK
        <3>3. /\ DOMAIN ledger' = 1..(Len(ledger) + 1) /\ Len(ledger') = Len(ledger) + 1
              /\ \A i \in DOMAIN ledger : ledger'[i] = ledger[i]
              /\ ledger'[Len(ledger) + 1] = e
            BY <3>1, LineAdded
        <3>4. /\ local.count <= Len(ledger)
              /\ \A i \in (local.count + 1)..Len(ledger) : ledger[i].run # runs
            BY <1>5 DEF PassportWasRead
        <3>5. \A i \in (local.count + 1)..Len(ledger') : ledger'[i].run # runs
            BY <1>1, <3>1, <3>2, <3>3, <3>4
        <3>6. stage \in {"recheck", "passport"} =>
                  /\ local.valid => \A i \in 1..local.count : ledger'[i].line = "sound"
                  /\ ~local.valid => \E i \in DOMAIN ledger' : ledger'[i].line # "sound"
            BY <1>1, <3>2, <3>3, <3>4 DEF PassportWasRead
        <3>7. UNCHANGED <<stage, local, runs>> /\ local.count <= Len(ledger')
            BY <1>1, <1>5, <3>2, <3>3, <3>4
        <3> HIDE <1>1, <1>5, <3>3
        <3> QED
            BY <3>5, <3>6, <3>7 DEF PassportWasRead
    <2> QED
        BY <2>1, <2>2
<1>6. CASE RunMoves
    <2>1. stage' = "compile_verify" => CountEvents
        BY <1>6, MovesAre DEF RunMoves
    <2>2. stage' = "recheck" => VerifyForPassport
        BY <1>6, MovesAre DEF RunMoves
    <2>3. stage' = "passport" => VerifyForEvent
        BY <1>6, MovesAre DEF RunMoves
    <2> QED
        BY <1>2, <1>3, <1>4, <1>9, <2>1, <2>2, <2>3
<1>7. CASE RunEnds
    BY <1>2, <1>7 DEF RunEnds
<1>8. CASE \E j \in Jobs : Start(j)
    BY <1>2, <1>8, StartsAre
<1> QED
    BY <1>2, <1>5, <1>6, <1>7, <1>8, StageSteps
LEMMA PassportsKept ==
    ASSUME TypeOK, RunsAreNumbered, PassportWasRead, PassportCountsWhatItVouchesFor, Next
    PROVE  PassportCountsWhatItVouchesFor'
<1> DEFINE OK(l, p) ==
        /\ l[p].count < p
        /\ \A i \in (l[p].count + 1)..(p - 1) : l[i].run # l[p].run
        /\ l[p].chain_valid => \A i \in 1..l[p].count : l[i].line = "sound"
        /\ ~l[p].chain_valid => \E i \in 1..(p - 1) : l[i].line # "sound"
           IsPassport(l, p) == l[p].kind = "compliance_passport_generated"
<1>1. \A p \in DOMAIN ledger : IsPassport(ledger, p) => OK(ledger, p)
    BY DEF PassportCountsWhatItVouchesFor
<1>2. SUFFICES \A p \in DOMAIN ledger' : IsPassport(ledger', p) => OK(ledger', p)
    BY DEF PassportCountsWhatItVouchesFor
<1>3. CASE UNCHANGED ledger
    BY <1>1, <1>3
<1>4. ASSUME NEW e, ledger' = Append(ledger, e),
             e.kind = "compliance_passport_generated" => OK(ledger', Len(ledger) + 1)
      PROVE  \A p \in DOMAIN ledger' : IsPassport(ledger', p) => OK(ledger', p)
    <2>1. /\ Len(ledger) \in Nat /\ DOMAIN ledger = 1..Len(ledger)
          /\ DOMAIN ledger' = 1..(Len(ledger) + 1)
          /\ \A i \in DOMAIN ledger : ledger'[i] = ledger[i]
          /\ ledger'[Len(ledger) + 1] = e
        BY <1>4, LineAdded
    <2>2. ASSUME NEW p \in 1..Len(ledger), IsPassport(ledger', p) PROVE OK(ledger', p)
        <3>1. ledger'[p] = ledger[p] /\ OK(ledger, p) /\ ledger[p].count \in Nat
            BY <1>1, <2>1, <2>2 DEF TypeOK
        <3>2. \A i \in 1..(p - 1) : ledger'[i] = ledger[i]
            BY <2>1
        <3>3. /\ \A i \in 1..ledger[p].count : i \in 1..(p - 1)
              /\ \A i \in (ledger[p].count + 1)..(p - 1) : i \in 1..(p - 1)
            BY <3>1
        <3>4. \A i \in (ledger'[p].count + 1)..(p - 1) : ledger'[i].run # ledger'[p].run
            BY <3>1, <3>2, <3>3
        <3>5. ledger'[p].chain_valid => \A i \in 1..ledger'[p].count : ledger'[i].line = "sound"
            BY <3>1, <3>2, <3>3
        <3>6. ~ledger'[p].chain_valid => \E i \in 1..(p - 1) : ledger'[i].line # "sound"
            BY <3>1, <3>2
        <3> QED
            BY <3>1, <3>4, <3>5, <3>6
    <2>3. IsPassport(ledger', Len(ledger) + 1) => OK(ledger', Len(ledger) + 1)
        BY <1>4, <2>1
    <2> HIDE DEF OK, IsPassport
    <2> QED
        BY <2>1, <2>2, <2>3
<1>5. ASSUME NEW e, RunAppends(e)
      PROVE  \A p \in DOMAIN ledger' : IsPassport(ledger', p) => OK(ledger', p)
    <2>1. /\ ledger' = Append(ledger, e) /\ e.run = runs /\ e.kind = KindAt(stage)
          /\ stage \in AppendingStages
        BY <1>5 DEF RunAppends
    <2>2. /\ Len(ledger) \in Nat /\ DOMAIN ledger = 1..Len(ledger)
          /\ \A i \in DOMAIN ledger : ledger'[i] = ledger[i]
          /\ ledger'[Len(ledger) + 1] = e
        BY <2>1, LineAdded
    <2>3. ASSUME e.kind = "compliance_passport_generated" PROVE OK(ledger', Len(ledger) + 1)
        <3>1. stage = "passport"
            BY <2>1, <2>3 DEF KindAt, AppendingStages
        <3>2. e.count = local.count /\ e.chain_valid = local.valid /\ local.count \in Nat
            BY <1>5, <3>1 DEF RunAppends, TypeOK
        <3>3. /\ local.count <= Len(ledger)
              /\ \A i \in (local.count + 1)..Len(ledger) : ledger[i].run # runs
              /\ local.valid => \A i \in 1..local.count : ledger[i].line = "sound"
              /\ ~local.valid => \E i \in DOMAIN ledger : ledger[i].line # "sound"
            BY <3>1 DEF PassportWasRead
        <3>4. Len(ledger) + 1 - 1 = Len(ledger)
            BY <2>2
        <3> QED
            BY <2>1, <2>2, <3>2, <3>3, <3>4
    <2> QED
        BY <1>4, <2>1, <2>3
<1>6. ASSUME NEW e, OtherAppends(e)
      PROVE  \A p \in DOMAIN ledger' : IsPassport(ledger', p) => OK(ledger', p)
    <2>1. ledger' = Append(ledger, e) /\ e.kind # "compliance_passport_generated"
        BY <1>6 DEF OtherAppends
    <2> QED
        BY <1>4, <2>1
<1> QED
    BY <1>3, <1>5, <1>6, LedgerSteps

-----------------------------------------------------------------------------
(* Broken chains.                                                          *)

LEMMA SoundPassportKept ==
    ASSUME TypeOK, RunsAreNumbered, PassportWasRead, PassportWasOnASoundChain, Next
    PROVE  PassportWasOnASoundChain'
<1> DEFINE Says(l, s, r) ==
        \A p \in DOMAIN l :
            l[p].run = r /\ l[p].kind = "compliance_passport_generated" =>
                s \in FromScore /\ l[p].chain_valid
<1>0. stage # "idle" => Says(ledger, stage, runs)
    BY DEF PassportWasOnASoundChain, LinesOf
<1>1. stage' = "passport" /\ local'.sound => local'.valid
    <2>1. CASE UNCHANGED <<stage, local>>
        BY <2>1 DEF PassportWasOnASoundChain
    <2>2. CASE RunMoves /\ stage' = "passport"
        <3>1. VerifyForEvent /\ stage = "recheck"
            BY <2>2, MovesAre DEF RunMoves
        <3>2. local'.sound <=> Verified = "valid"
            BY <3>1 DEF VerifyForEvent, TypeOK
        <3>3. local'.valid = local.valid /\ local.valid \in BOOLEAN
            BY <3>1 DEF VerifyForEvent, TypeOK
        <3>4. Verified = "valid" => local.valid
            BY <3>1, <3>3, VerifiedIs DEF PassportWasRead
        <3> QED
            BY <3>2, <3>3, <3>4
    <2> QED
        BY <2>1, <2>2, StageSteps, StartsAre DEF RunEnds
<1>2. ASSUME stage' # "idle" PROVE Says(ledger', stage', runs')
    <2>1. ASSUME NEW j \in Jobs, Start(j) PROVE Says(ledger', stage', runs')
        <3>1. runs' = runs + 1 /\ ledger' = ledger /\ runs \in Nat
            BY <2>1, StartsAre, CIAssumption DEF TypeOK
        <3>2. \A i \in DOMAIN ledger : ledger[i].run \in 0..runs
            BY DEF TypeOK
        <3> QED
            BY <3>1, <3>2
    <2>2. CASE stage # "idle" /\ runs' = runs
        <3>1. stage \in FromScore => stage' \in FromScore
            BY <1>2, <2>2, StageSteps, StartsAre
                DEF RunEnds, RunMoves, FromScore, FromDiff, FromVerify, FromComment, FromExport,
                    FromFinalVerify
        <3>2. CASE UNCHANGED ledger
            BY <1>0, <2>2, <3>1, <3>2
        <3>3. ASSUME NEW e, ledger' = Append(ledger, e),
                     e.run = runs /\ e.kind = "compliance_passport_generated" =>
                         stage' \in FromScore /\ e.chain_valid
              PROVE  Says(ledger', stage', runs')
            <4>1. /\ DOMAIN ledger = 1..Len(ledger) /\ Len(ledger) \in Nat
                  /\ DOMAIN ledger' = 1..(Len(ledger) + 1)
                  /\ \A k \in DOMAIN ledger : ledger'[k] = ledger[k]
                  /\ ledger'[Len(ledger) + 1] = e
                BY <3>3, LineAdded
            <4>2. \A k \in DOMAIN ledger' : k \in DOMAIN ledger \/ k = Len(ledger) + 1
                BY <4>1
            <4> QED
                BY <1>0, <2>2, <3>1, <3>3, <4>1, <4>2
        <3>4. ASSUME NEW e, RunAppends(e) PROVE Says(ledger', stage', runs')
            <4>1. ledger' = Append(ledger, e) /\ e.kind = KindAt(stage)
                  /\ stage \in AppendingStages
                BY <3>4 DEF RunAppends
            <4>2. ASSUME e.kind = "compliance_passport_generated"
                  PROVE  stage' \in FromScore /\ e.chain_valid
                <5>1. stage = "passport"
                    BY <4>1, <4>2 DEF KindAt, AppendingStages
                <5>2. stage' = "score" /\ local.sound /\ e.chain_valid = local.valid
                    BY <1>2, <3>4, <5>1 DEF RunAppends
                <5> QED
                    BY <5>1, <5>2 DEF PassportWasOnASoundChain, FromScore
            <4> QED
                BY <3>3, <4>1, <4>2
        <3>5. ASSUME NEW e, OtherAppends(e) PROVE Says(ledger', stage', runs')
            BY <3>3, <3>5 DEF OtherAppends
        <3> QED
            BY <3>2, <3>4, <3>5, LedgerSteps
    <2> QED
        BY <1>2, <2>1, <2>2, StageSteps DEF RunEnds, RunMoves, Disturb, BuildPackAlone, At
<1> QED
    BY <1>1, <1>2 DEF PassportWasOnASoundChain, LinesOf
-----------------------------------------------------------------------------
(* The reports.                                                            *)

LEMMA LinesStay ==
    ASSUME TypeOK, Next
    PROVE  \A i \in DOMAIN ledger : i \in DOMAIN ledger' /\ ledger'[i] = ledger[i]
<1>1. CASE UNCHANGED ledger
    BY <1>1
<1>2. CASE \E e : ledger' = Append(ledger, e)
    <2>1. PICK e : ledger' = Append(ledger, e)
        BY <1>2
    <2>2. /\ Len(ledger) \in Nat /\ DOMAIN ledger = 1..Len(ledger)
          /\ DOMAIN ledger' = 1..(Len(ledger) + 1)
          /\ \A i \in DOMAIN ledger : ledger'[i] = ledger[i]
        BY <2>1, LineAdded
    <2> QED
        BY <2>2
<1> QED
    BY <1>1, <1>2, LedgerSteps DEF RunAppends, OtherAppends

LEMMA VerificationKept ==
    ASSUME TypeOK, RunsAreNumbered, VerificationHolds, Next
    PROVE  VerificationHolds'
<1> DEFINE ver == reports["verification"]
           Sound(n, l) == \A i \in 1..n : i \in DOMAIN l /\ l[i].line = "sound"
<1>1. Len(ledger) \in Nat /\ DOMAIN ledger = 1..Len(ledger)
    BY Grows DEF TypeOK
<1>2. ASSUME WriteVerification, UNCHANGED ledger, UNCHANGED runs, ver'.valid
      PROVE  /\ Sound(ver'.event_count, ledger')
             /\ \A i \in LinesOf(runs, "diff_free_pr_evidence")' : i <= ver'.event_count
    <2>1. Verified = "valid" /\ ver'.event_count = SoundEvents
        BY <1>2, VerificationWritten
    <2>2. SoundEvents = Len(ledger) /\ \A i \in DOMAIN ledger : ledger[i].line = "sound"
        BY <2>1, SoundEventsAre, VerifiedIs
    <2> QED
        BY <1>1, <1>2, <2>1, <2>2 DEF LinesOf
<1>3. Present("verification")' /\ ver'.valid => Sound(ver'.event_count, ledger')
    <2>1. CASE VerifyForPack \/ FinalVerify
        BY <1>2, <2>1 DEF VerifyForPack, FinalVerify, GoTo
    <2>2. CASE ver' = ver
        <3>1. Present("verification")' /\ ver'.valid => Sound(ver.event_count, ledger)
            BY <2>2 DEF Present, VerificationHolds
        <3> QED
            BY <2>2, <3>1, LinesStay
    <2> QED
        BY <2>1, <2>2, ReportsStay
<1>4. ASSUME stage' = "pack"
      PROVE  /\ ver'.run = runs'
             /\ ver'.valid =>
                   \A i \in LinesOf(runs, "diff_free_pr_evidence")' : i <= ver'.event_count
    <2>1. CASE RunMoves
        <3>1. VerifyForPack
            BY <1>4, <2>1, MovesAre DEF RunMoves
        <3>2. WriteVerification /\ UNCHANGED ledger /\ UNCHANGED runs
            BY <3>1 DEF VerifyForPack, GoTo
        <3> QED
            BY <1>2, <3>2, VerificationWritten
    <2>2. CASE (Disturb \/ BuildPackAlone) /\ UNCHANGED <<stage, job, local, runs, history>>
        <3>1. Disturb /\ ver' = ver /\ stage = "pack" /\ runs > 0 /\ runs' = runs
            BY <1>4, <2>2 DEF BuildPackAlone, Disturb, At, RunsAreNumbered
        <3>2. PICK e : ledger' = Append(ledger, e) /\ e.run = 0
            BY <3>1, DisturbancesAppend DEF OtherAppends
        <3>3. /\ DOMAIN ledger' = 1..(Len(ledger) + 1)
              /\ \A i \in DOMAIN ledger : ledger'[i] = ledger[i]
              /\ ledger'[Len(ledger) + 1] = e
            BY <3>2, LineAdded
        <3>4. \A i \in LinesOf(runs, "diff_free_pr_evidence")' :
                  i \in LinesOf(runs, "diff_free_pr_evidence")
            BY <1>1, <3>1, <3>2, <3>3 DEF LinesOf
        <3> QED
            BY <3>1, <3>4 DEF VerificationHolds
    <2> QED
        BY <1>4, <2>1, <2>2, StageSteps, StartsAre DEF RunEnds
<1> QED
    BY <1>3, <1>4 DEF VerificationHolds

LEMMA PackKept ==
    ASSUME TypeOK, RunsAreNumbered, VerificationHolds, ReportsOfThisRun, PackVouchesForAPrefix,
           Next
    PROVE  PackVouchesForAPrefix'
<1> DEFINE pack == reports["pack"]
           ver == reports["verification"]
           Sound(n, l) == \A i \in 1..n : i \in DOMAIN l /\ l[i].line = "sound"
<1>1. Len(ledger) \in Nat /\ DOMAIN ledger = 1..Len(ledger)
    BY Grows DEF TypeOK
<1>2. CASE BuildPack
    <2>1. WritePack(runs, job.gaps) /\ stage = "pack" /\ UNCHANGED ledger
        BY <1>2 DEF BuildPack, At
    <2>2. /\ pack'.evidence = PackEvidence(job.gaps) /\ pack'.event_count = VerifiedEvents
          /\ pack'.run = runs
        BY <2>1, PackWritten
    <2>3. ver.run = runs /\ runs > 0
        BY <2>1 DEF VerificationHolds, RunsAreNumbered
    <2>4. Present("verification")
        BY <2>3 DEF Present, Absent
    <2>5. PackEvidence(job.gaps).chain_valid = ver.valid /\ VerifiedEvents = ver.event_count
        BY <2>4 DEF PackEvidence, VerifiedEvents
    <2>6. ver.valid => /\ Sound(ver.event_count, ledger)
                       /\ \A i \in LinesOf(runs, "diff_free_pr_evidence") : i <= ver.event_count
        BY <2>1, <2>4 DEF VerificationHolds
    <2> QED
        BY <2>1, <2>2, <2>5, <2>6 DEF PackVouchesForAPrefix, LinesOf
<1>3. CASE BuildPackAlone
    <2>1. WritePack(0, {}) /\ UNCHANGED ledger
        BY <1>3 DEF BuildPackAlone
    <2>2. /\ pack'.evidence = PackEvidence({}) /\ pack'.event_count = VerifiedEvents
          /\ pack'.run = 0
        BY <2>1, PackWritten
    <2>3. PackEvidence({}).chain_valid => Sound(VerifiedEvents, ledger)
        <3>1. CASE Present("verification")
            BY <3>1 DEF PackEvidence, VerifiedEvents, VerificationHolds
        <3>2. CASE ~Present("verification")
            BY <1>1, <3>2, VerifiedIs, SoundEventsAre DEF PackEvidence, VerifiedEvents
        <3> QED
            BY <3>1, <3>2
    <2> QED
        BY <2>1, <2>2, <2>3 DEF PackVouchesForAPrefix
<1>4. CASE pack' = pack
    <2> SUFFICES ASSUME Present("pack")', pack.evidence.chain_valid
                 PROVE  /\ Sound(pack.event_count, ledger')
                        /\ pack.run > 0 =>
                              \A i \in DOMAIN ledger' :
                                  ledger'[i].run = pack.run
                                  /\ ledger'[i].kind = "diff_free_pr_evidence"
                                  => i <= pack.event_count
        BY <1>4 DEF PackVouchesForAPrefix, LinesOf
    <2>1. /\ Sound(pack.event_count, ledger)
          /\ pack.run > 0 => \A i \in DOMAIN ledger :
                                 ledger[i].run = pack.run
                                 /\ ledger[i].kind = "diff_free_pr_evidence"
                                 => i <= pack.event_count
        BY <1>4 DEF Present, PackVouchesForAPrefix, LinesOf
    <2>2. Sound(pack.event_count, ledger')
        BY <2>1, LinesStay
    <2>3. ASSUME pack.run > 0, NEW i \in DOMAIN ledger', ledger'[i].run = pack.run,
                 ledger'[i].kind = "diff_free_pr_evidence"
          PROVE  i \in DOMAIN ledger /\ ledger'[i] = ledger[i]
        <3>1. CASE UNCHANGED ledger
            BY <3>1
        <3>2. ASSUME NEW e, RunAppends(e) PROVE i \in DOMAIN ledger /\ ledger'[i] = ledger[i]
            <4>1. /\ ledger' = Append(ledger, e) /\ e.run = runs /\ e.kind = KindAt(stage)
                  /\ stage \in AppendingStages
                BY <3>2 DEF RunAppends
            <4>2. e.kind = "diff_free_pr_evidence" => stage = "diff"
                BY <4>1 DEF KindAt, AppendingStages
            <4>3. stage = "diff" => pack.run # runs
                <5>1. runs \in Nat
                    BY CIAssumption DEF TypeOK
                <5> QED
                    BY <5>1 DEF ReportsOfThisRun, FromComment, FromExport, FromFinalVerify
            <4> QED
                BY <1>1, <2>3, <4>1, <4>2, <4>3, LineAdded
        <3>3. ASSUME NEW e, OtherAppends(e) PROVE i \in DOMAIN ledger /\ ledger'[i] = ledger[i]
            <4>1. ledger' = Append(ledger, e) /\ e.run = 0
                BY <3>3 DEF OtherAppends
            <4>2. /\ DOMAIN ledger' = 1..(Len(ledger) + 1)
                  /\ \A k \in DOMAIN ledger : ledger'[k] = ledger[k]
                  /\ ledger'[Len(ledger) + 1] = e
                BY <4>1, LineAdded
            <4>3. i # Len(ledger) + 1
                BY <2>3, <4>1, <4>2
            <4> QED
                BY <1>1, <2>3, <4>2, <4>3
        <3> QED
            BY <3>1, <3>2, <3>3, LedgerSteps
    <2> QED
        BY <2>1, <2>2, <2>3
<1> QED
    BY <1>2, <1>3, <1>4, ReportsStay
\* The stages come in their order.
LEMMA StagesAre ==
    ASSUME Next, TypeOK
    PROVE  /\ stage' \in FromDiff => stage \in FromDiff \/ (RunMoves /\ stage = "write")
           /\ stage' \in FromVerify => stage \in FromVerify \/ (RunMoves /\ stage = "diff")
           /\ stage' \in FromComment =>
                 \/ stage \in FromComment
                 \/ RunMoves /\ stage = "verify" /\ ~job.generate_pack
                 \/ RunMoves /\ stage = "pack"
           /\ stage' \in FromExport => stage \in FromExport \/ (RunMoves /\ stage = "comment")
           /\ stage' \in FromFinalVerify =>
                 stage \in FromFinalVerify \/ (RunMoves /\ stage = "export")
           /\ stage' \notin FromComment \cup {"idle"} =>
                 \/ stage \notin FromComment \cup {"idle"}
                 \/ \E j \in Jobs : Start(j)
           /\ stage' \in FromDiff => UNCHANGED <<job, runs, history>> /\ stage # "idle"
<1> USE DEF FromDiff, FromVerify, FromComment, FromExport, FromFinalVerify
<1>1. CASE RunMoves
    BY <1>1 DEF RunMoves
<1>2. CASE RunEnds
    BY <1>2 DEF RunEnds
<1>3. CASE \E j \in Jobs : Start(j)
    BY <1>3, StartsAre
<1>4. CASE UNCHANGED <<stage, job, local, runs, history>>
    BY <1>4
<1> QED
    BY <1>1, <1>2, <1>3, <1>4, StageSteps

LEMMA ReportsOfRunKept ==
    ASSUME TypeOK, RunsAreNumbered, VerificationHolds, ReportsOfThisRun, Next
    PROVE  ReportsOfThisRun'
<1>0. runs \in Nat /\ DOMAIN reports = ReportFiles
    BY CIAssumption DEF TypeOK
<1>1. ASSUME stage' \in FromDiff,
             NEW f \in {"risk_report", "passport", "lifecycle", "diff_proof", "supply_chain"}
      PROVE  reports'[f].run = runs'
    <2>1. UNCHANGED runs
        BY <1>1, StagesAre
    <2>2. CASE stage \in FromDiff
        <3>1. ~WriteReports
            BY <2>2 DEF WriteReports, At, FromDiff, FromVerify, FromComment, FromExport,
                        FromFinalVerify
        <3> QED
            BY <1>1, <2>1, <2>2, <3>1, ReportsStay DEF ReportsOfThisRun
    <2>3. CASE RunMoves /\ stage = "write"
        <3>1. WriteReports
            BY <2>3, MovesAre
        <3> QED
            BY <1>0, <1>1, <2>1, <3>1 DEF WriteReports, ReportFiles
    <2> QED
        BY <1>1, <2>2, <2>3, StagesAre
<1>2. ASSUME stage' \in FromVerify, job'.has_manifest = "yes"
      PROVE  reports'["oracle"].run = runs'
    <2>1. UNCHANGED <<runs, job>>
        BY <1>2, StagesAre DEF FromDiff
    <2>2. CASE AppendDiffProof
        BY <1>0, <1>2, <2>1, <2>2 DEF AppendDiffProof, ReportFiles
    <2>3. CASE stage \in FromVerify /\ ~AppendDiffProof
        BY <1>2, <2>1, <2>3, ReportsStay DEF ReportsOfThisRun
    <2> QED
        BY <1>2, <2>2, <2>3, StagesAre, MovesAre
<1>3. ASSUME stage' \in FromComment, job'.generate_pack
      PROVE  /\ Present("pack")' /\ reports'["pack"].run = runs'
             /\ local'.readiness # "block" => reports'["pack"].evidence.chain_valid
    <2>1. UNCHANGED <<runs, job>> /\ stage # "idle"
        BY <1>3, StagesAre DEF FromDiff, FromVerify
    <2>2. CASE BuildPack
        <3>1. /\ WritePack(runs, job.gaps)
              /\ local'.readiness = Status(PackEvidence(job.gaps))
            BY <2>2 DEF BuildPack, TypeOK
        <3>2. reports'["pack"].run = runs /\ reports'["pack"].evidence = PackEvidence(job.gaps)
            BY <3>1, PackWritten
        <3>3. \A e : Status(e) # "block" => e.chain_valid
            BY DEF Status, HardBlock
        <3>4. runs > 0
            BY <2>1 DEF RunsAreNumbered
        <3>5. Present("pack")'
            BY <3>2, <3>4 DEF Present, Absent
        <3> QED
            BY <2>1, <3>1, <3>2, <3>3, <3>5
    <2>3. CASE stage \in FromComment /\ ~BuildPack
        <3>1. ~BuildPackAlone
            BY <2>1 DEF BuildPackAlone, At
        <3>2. UNCHANGED local
            <4>1. CASE RunMoves
                <5>1. WriteComment \/ AppendExport \/ FinalVerify
                    BY <2>3, <4>1, MovesAre DEF RunMoves, FromComment, FromExport, FromFinalVerify
                <5> QED
                    BY <5>1 DEF WriteComment, AppendExport, FinalVerify
            <4>2. CASE RunEnds
                BY <1>3, <4>2 DEF RunEnds, FromComment, FromExport, FromFinalVerify
            <4> QED
                BY <2>1, <4>1, <4>2, StageSteps, StartsAre
        <3>3. reports'["pack"] = reports["pack"]
            BY <2>3, <3>1, ReportsStay
        <3> QED
            BY <1>3, <2>1, <2>3, <3>2, <3>3 DEF ReportsOfThisRun, Present
    <2>4. stage \in FromComment \/ BuildPack
        BY <1>3, <2>1, StagesAre, MovesAre
    <2> QED
        BY <2>2, <2>3, <2>4
<1>4. ASSUME stage' \in FromExport PROVE reports'["pr_comment"].run = runs'
    <2>1. UNCHANGED runs
        BY <1>4, StagesAre DEF FromDiff, FromVerify, FromComment
    <2>2. CASE WriteComment
        BY <1>0, <2>1, <2>2 DEF WriteComment, ReportFiles
    <2>3. CASE stage \in FromExport /\ ~WriteComment
        BY <2>1, <2>3, ReportsStay DEF ReportsOfThisRun
    <2> QED
        BY <1>4, <2>2, <2>3, StagesAre, MovesAre
<1>5. ASSUME stage' \notin FromComment \cup {"idle"} PROVE reports'["pack"].run < runs'
    <2>1. CASE \E j \in Jobs : Start(j)
        <3>1. runs' = runs + 1 /\ UNCHANGED reports
            BY <2>1, StartsAre
        <3>2. reports["pack"].run \in 0..runs
            BY DEF TypeOK, ReportFiles
        <3> QED
            BY <1>0, <3>1, <3>2
    <2>2. CASE stage \notin FromComment \cup {"idle"}
        <3>1. ~BuildPackAlone
            BY <2>2 DEF BuildPackAlone, At
        <3>2. ~BuildPack
            BY <1>5 DEF BuildPack, GoTo, FromComment
        <3>3. UNCHANGED runs
            BY <2>2, StageSteps, StartsAre DEF RunEnds, RunMoves
        <3> QED
            BY <2>2, <3>1, <3>2, <3>3, ReportsStay DEF ReportsOfThisRun
    <2> QED
        BY <1>5, <2>1, <2>2, StagesAre
<1> QED
    BY <1>1, <1>2, <1>3, <1>4, <1>5 DEF ReportsOfThisRun

\* A run completes when it writes its manifest, and only then.
LEMMA CompletedGrows ==
    ASSUME TypeOK, Next
    PROVE  \/ ~WriteManifest /\ Completed' = Completed
           \/ /\ WriteManifest
              /\ \E h : /\ Completed' = Completed \cup {h}
                        /\ h.run = runs /\ h.job = job /\ h.gate = local.gate
                        /\ h.code = ExitCode(ManifestReport)
<1>1. CASE WriteManifest
    <2>1. PICK h : /\ Ended' = Ended \cup {h}
                   /\ h.run = runs /\ h.job = job /\ h.gate = local.gate
                   /\ h.code = ExitCode(ManifestReport) /\ h.completed = TRUE
        BY <1>1, EndingAdds DEF WriteManifest, End
    <2>2. Completed' = Completed \cup {h}
        BY <2>1 DEF Completed
    <2> QED
        BY <1>1, <2>1, <2>2
<1>2. CASE ~WriteManifest
    <2>1. CASE RunEnds
        BY <1>2, <2>1, EndedGrows
    <2>2. CASE UNCHANGED history
        BY <1>2, <2>2, EndedStays
    <2> QED
        BY <2>1, <2>2, StageSteps, StartsAre, <1>2 DEF RunMoves
<1> QED
    BY <1>1, <1>2

LEMMA ManifestKept ==
    ASSUME TypeOK, RunsAreNumbered, ManifestIsTheLast, Next
    PROVE  ManifestIsTheLast'
<1>1. CASE WriteManifest
    <2>1. PICK h : /\ Completed' = Completed \cup {h}
                   /\ h.run = runs /\ h.gate = local.gate
        BY <1>1, CompletedGrows
    <2>2. reports'["manifest"].run = runs /\ reports'["manifest"].gate = local.gate
        BY <1>1, ManifestWritten
    <2>3. stage # "idle" /\ runs \in Nat
        BY <1>1, CIAssumption DEF WriteManifest, At, TypeOK
    <2>4. runs > 0 /\ \A k \in Completed : k.run <= runs
        BY <2>3 DEF RunsAreNumbered, Completed
    <2>5. Present("manifest")'
        BY <2>2, <2>4 DEF Present, Absent
    <2> QED
        BY <2>1, <2>2, <2>3, <2>4, <2>5 DEF ManifestIsTheLast
<1>2. CASE ~WriteManifest
    <2>1. Completed' = Completed /\ reports'["manifest"] = reports["manifest"]
        BY <1>2, CompletedGrows, ReportsStay
    <2> QED
        BY <2>1 DEF ManifestIsTheLast, Present
<1> QED
    BY <1>1, <1>2

LEMMA PackGateKept ==
    ASSUME TypeOK, RunsAreNumbered, ReportsOfThisRun, ManifestIsTheLast, PackGateLagsOneRun, Next
    PROVE  PackGateLagsOneRun'
<1> DEFINE Before(r) == {h \in Completed : h.run < r}
           GateBefore(S) == IF S = {} THEN "UNKNOWN"
                            ELSE (CHOOSE h \in S : \A k \in S : k.run <= h.run).gate
<1>1. runs \in Nat /\ reports["pack"].run \in 0..runs
    BY CIAssumption DEF TypeOK, ReportFiles
<1>2. CASE BuildPack
    <2>1. WritePack(runs, job.gaps) /\ stage = "pack" /\ UNCHANGED history /\ runs > 0
        BY <1>2 DEF BuildPack, At, GoTo, RunsAreNumbered
    <2>2. reports'["pack"].run = runs /\ reports'["pack"].evidence = PackEvidence(job.gaps)
        BY <2>1, PackWritten
    <2>3. Completed' = Completed
        BY <2>1, EndedStays
    <2>4. Before(runs) = Completed
        BY <2>1 DEF RunsAreNumbered, Completed
    <2>5. PackEvidence(job.gaps).gate = GateBefore(Completed)
        <3>1. CASE Present("manifest")
            <4>1. PICK h \in Completed :
                      /\ reports["manifest"].gate = h.gate
                      /\ \A k \in Completed : k.run <= h.run
                BY <3>1 DEF ManifestIsTheLast
            <4>2. \A k \in Completed : k.run \in Nat
                BY <1>1 DEF Completed, RunsAreNumbered
            <4>3. \A k \in Completed : (\A l \in Completed : l.run <= k.run) => k = h
                BY <4>1, <4>2 DEF Completed, RunsAreNumbered
            <4>4. (CHOOSE k \in Completed : \A l \in Completed : l.run <= k.run) = h
                BY <4>1, <4>3
            <4> QED
                BY <3>1, <4>1, <4>4 DEF PackEvidence
        <3>2. CASE ~Present("manifest")
            BY <3>2 DEF PackEvidence, ManifestIsTheLast
        <3> QED
            BY <3>1, <3>2
    <2> QED
        BY <2>2, <2>3, <2>4, <2>5 DEF PackGateLagsOneRun
<1>3. CASE BuildPackAlone
    <2>1. reports'["pack"].run = 0
        BY <1>3, PackWritten DEF BuildPackAlone
    <2> QED
        BY <2>1 DEF PackGateLagsOneRun
<1>4. CASE reports'["pack"] = reports["pack"]
    <2>1. Before(reports["pack"].run)' = Before(reports["pack"].run)
        BY <1>1, <1>4, CompletedGrows
    <2> QED
        BY <1>4, <2>1 DEF PackGateLagsOneRun
<1> QED
    BY <1>2, <1>3, <1>4, ReportsStay
LEMMA BrokenChainKept ==
    ASSUME TypeOK, RunsAreNumbered, PassportWasOnASoundChain, PackVouchesForAPrefix,
           ReportsOfThisRun, BrokenChainStopsRelease, Next, PassportCountsWhatItVouchesFor'
    PROVE  BrokenChainStopsRelease'
<1> DEFINE Strict(h) == /\ h.job.policy = "block_on_release_risk"
                        /\ h.job.generate_pack /\ h.code = 0
           Valid(l, h) == \A p \in DOMAIN l :
              l[p].run = h.run /\ l[p].kind = "compliance_passport_generated" => l[p].chain_valid
           Linked(l, h) == \A i \in DOMAIN l, p \in DOMAIN l :
              Strict(h) /\ l[i].line = "unlinked" /\ l[p].run = h.run
                 /\ l[p].kind = "diff_free_pr_evidence" => p < i
           Stops(l, h) == Valid(l, h) /\ Linked(l, h)
<1>1. Len(ledger) \in Nat /\ DOMAIN ledger = 1..Len(ledger)
    BY Grows DEF TypeOK
<1>2. \A h \in Completed : Stops(ledger, h)
    BY DEF BrokenChainStopsRelease, LinesOf
<1>3. SUFFICES \A h \in Completed' : Stops(ledger', h)
    BY DEF BrokenChainStopsRelease, PassportCountsWhatItVouchesFor, LinesOf
<1>4. ASSUME WriteManifest, NEW h, h.run = runs, h.job = job, h.code = ExitCode(ManifestReport)
      PROVE  Stops(ledger', h)
    <2>1. stage = "manifest" /\ ledger' = ledger
        BY <1>4 DEF WriteManifest, At
    <2>2. ASSUME NEW p \in DOMAIN ledger, ledger[p].run = runs,
                 ledger[p].kind = "compliance_passport_generated"
          PROVE  ledger[p].chain_valid
        BY <2>1, <2>2 DEF PassportWasOnASoundChain, LinesOf
    <2>3. ASSUME Strict(h),
                 NEW i \in DOMAIN ledger, ledger[i].line = "unlinked",
                 NEW p \in DOMAIN ledger, ledger[p].run = runs,
                 ledger[p].kind = "diff_free_pr_evidence"
          PROVE  p < i
        <3>1. local.readiness # "block"
            BY <1>4, <2>3 DEF ExitCode, ShouldFail, ManifestReport
        <3>2. Present("pack") /\ reports["pack"].run = runs /\ reports["pack"].evidence.chain_valid
            BY <1>4, <2>1, <2>3, <3>1 DEF ReportsOfThisRun, FromComment, FromExport,
                                          FromFinalVerify
        <3>3. runs > 0
            BY <2>1 DEF RunsAreNumbered
        <3> DEFINE n == reports["pack"].event_count
        <3>4. \A k \in 1..n : ledger[k].line = "sound"
            BY <3>2 DEF PackVouchesForAPrefix
        <3>5. p <= n
            BY <2>3, <3>2, <3>3 DEF PackVouchesForAPrefix, LinesOf
        <3>6. i \notin 1..n
            BY <2>3, <3>4
        <3> HIDE DEF n
        <3>7. i \in Nat /\ p \in Nat /\ i >= 1
            BY <1>1
        <3>8. n \in Nat
            BY <3>2 DEF TypeOK, n
        <3> QED
            BY <3>5, <3>6, <3>7, <3>8
    <2> QED
        BY <1>4, <2>1, <2>2, <2>3
<1>5. ASSUME NEW h \in Completed PROVE Stops(ledger', h)
    <2>1. Stops(ledger, h)
        BY <1>2, <1>5
    <2>2. CASE UNCHANGED ledger
        BY <2>1, <2>2
    <2>3. ASSUME NEW e, ledger' = Append(ledger, e),
                 e.run = h.run => e.kind \notin {"compliance_passport_generated", "diff_free_pr_evidence"}
          PROVE  Stops(ledger', h)
        <3>1. /\ DOMAIN ledger' = 1..(Len(ledger) + 1)
              /\ \A k \in DOMAIN ledger : ledger'[k] = ledger[k]
              /\ ledger'[Len(ledger) + 1] = e
            BY <2>3, LineAdded
        <3>2. ASSUME NEW p \in DOMAIN ledger', ledger'[p].run = h.run,
                     ledger'[p].kind \in {"compliance_passport_generated", "diff_free_pr_evidence"}
              PROVE  p \in DOMAIN ledger /\ p <= Len(ledger) /\ ledger'[p] = ledger[p]
            BY <1>1, <2>3, <3>1, <3>2
        <3>3. Valid(ledger', h)
            BY <2>1, <3>2
        <3>4. ASSUME Strict(h), NEW i \in DOMAIN ledger', ledger'[i].line = "unlinked",
                     NEW p \in DOMAIN ledger', ledger'[p].run = h.run,
                     ledger'[p].kind = "diff_free_pr_evidence"
              PROVE  p < i
            <4>1. p \in DOMAIN ledger /\ p <= Len(ledger) /\ ledger'[p] = ledger[p]
                BY <3>2, <3>4
            <4>2. CASE i = Len(ledger) + 1
                BY <1>1, <4>1, <4>2
            <4>3. CASE i \in DOMAIN ledger
                BY <2>1, <3>1, <3>4, <4>1, <4>3
            <4> QED
                BY <1>1, <3>1, <4>2, <4>3
        <3>5. Linked(ledger', h)
            BY <3>4
        <3> QED
            BY <3>3, <3>5
    <2>4. ASSUME NEW e, RunAppends(e) PROVE Stops(ledger', h)
        <3>1. ledger' = Append(ledger, e) /\ e.run = runs /\ stage # "idle"
            BY <2>4 DEF RunAppends, AppendingStages
        <3>2. h.run # runs
            <4>1. h \in Ended /\ runs \in Nat
                BY CIAssumption DEF Completed, TypeOK
            <4> QED
                BY <3>1, <4>1 DEF RunsAreNumbered
        <3> QED
            BY <2>3, <3>1, <3>2
    <2>5. ASSUME NEW e, OtherAppends(e) PROVE Stops(ledger', h)
        BY <2>3, <2>5 DEF OtherAppends
    <2> QED
        BY <2>2, <2>4, <2>5, LedgerSteps
<1> QED
    BY <1>4, <1>5, CompletedGrows

-----------------------------------------------------------------------------
(* The export.                                                             *)

LEMMA ExportCurrentKept ==
    ASSUME TypeOK, RunsAreNumbered, ReportsOfThisRun, ExportIsCurrent, Next
    PROVE  ExportIsCurrent'
<1>1. Len(ledger) \in Nat /\ DOMAIN ledger = 1..Len(ledger)
    BY Grows DEF TypeOK
<1> SUFFICES ASSUME stage' \in FromFinalVerify PROVE Attested(runs)'
    BY DEF ExportIsCurrent
<1>2. UNCHANGED runs /\ stage # "idle"
    BY StagesAre DEF FromDiff, FromVerify, FromComment, FromExport
<1>3. CASE AppendExport
    <2> DEFINE hashes == [f \in Exported |-> reports[f]]
    <2>1. /\ ledger' = Append(ledger, ExportEvent(hashes)) /\ UNCHANGED reports /\ stage = "export"
        BY <1>3 DEF AppendExport, AppendEvent, At
    <2>2. /\ ExportEvent(hashes).run = runs /\ ExportEvent(hashes).kind = "local_artifact_export"
          /\ ExportEvent(hashes).hashes = hashes
        BY DEF ExportEvent
    <2>3. \A f \in Exported : reports[f].run = runs
        BY <2>1 DEF Exported, ReportsOfThisRun, FromDiff, FromVerify, FromComment, FromExport
    <2>4. /\ Len(ledger) + 1 \in DOMAIN ledger'
          /\ ledger'[Len(ledger) + 1] = ExportEvent(hashes)
        BY <1>1, <2>1, LineAdded
    <2>5. \A f \in DOMAIN hashes : reports'[f] = hashes[f] /\ reports'[f].run = runs
        BY <2>1, <2>3
    <2> HIDE DEF hashes
    <2> QED
        BY <1>2, <2>2, <2>4, <2>5 DEF Attested, LinesOf
<1>4. CASE stage \in FromFinalVerify
    <2>1. PICK i \in DOMAIN ledger :
              /\ ledger[i].run = runs /\ ledger[i].kind = "local_artifact_export"
              /\ \A f \in DOMAIN ledger[i].hashes :
                    \/ reports[f] = ledger[i].hashes[f] /\ reports[f].run = runs
                    \/ f = "pack" /\ reports[f].run = 0
        BY <1>4 DEF ExportIsCurrent, Attested, LinesOf
    <2>2. DOMAIN ledger[i].hashes \subseteq ReportFiles \ {"verification", "manifest"}
        BY <2>1 DEF TypeOK
    <2>3. \A f \in ReportFiles \ {"verification", "manifest"} : reports'[f] = reports[f]
        <3>1. ~(BuildPack \/ BuildPackAlone \/ AppendDiffProof \/ WriteComment \/ WriteReports)
            BY <1>4 DEF BuildPack, BuildPackAlone, AppendDiffProof, WriteComment, WriteReports, At,
                        FromFinalVerify
        <3> QED
            BY <3>1, ReportsStay DEF ReportFiles
    <2>4. i \in DOMAIN ledger' /\ ledger'[i] = ledger[i]
        BY <2>1, LinesStay
    <2> QED
        BY <1>2, <2>1, <2>2, <2>3, <2>4 DEF Attested, LinesOf
<1> QED
    BY <1>3, <1>4, StagesAre, MovesAre

LEMMA ExportKept ==
    ASSUME TypeOK, RunsAreNumbered, ExportIsCurrent, ExportAttestsReports, Next
    PROVE  ExportAttestsReports'
<1> SUFFICES ASSUME NEW h \in Completed', h.run = runs'
             PROVE  \E i \in DOMAIN ledger' :
                       /\ ledger'[i].run = h.run /\ ledger'[i].kind = "local_artifact_export"
                       /\ \A f \in DOMAIN ledger'[i].hashes :
                             \/ reports'[f] = ledger'[i].hashes[f] /\ reports'[f].run = h.run
                             \/ f = "pack" /\ reports'[f].run = 0
    BY DEF ExportAttestsReports, LinesOf
<1>1. runs \in Nat /\ \A k \in Completed : k.run \in 1..runs
    BY CIAssumption DEF TypeOK, RunsAreNumbered, Completed
<1>2. UNCHANGED runs
    BY <1>1, StageSteps, StartsAre, EndedStays DEF RunEnds, RunMoves
<1>3. CASE WriteManifest
    <2>1. stage = "manifest" /\ ledger' = ledger
        BY <1>3 DEF WriteManifest, At
    <2>2. PICK i \in DOMAIN ledger :
              /\ ledger[i].run = runs /\ ledger[i].kind = "local_artifact_export"
              /\ \A f \in DOMAIN ledger[i].hashes :
                    \/ reports[f] = ledger[i].hashes[f] /\ reports[f].run = runs
                    \/ f = "pack" /\ reports[f].run = 0
        BY <2>1 DEF ExportIsCurrent, Attested, LinesOf, FromFinalVerify
    <2>3. DOMAIN ledger[i].hashes \subseteq ReportFiles \ {"verification", "manifest"}
        BY <2>2 DEF TypeOK
    <2>4. \A f \in ReportFiles \ {"manifest"} : reports'[f] = reports[f]
        BY <1>3, ManifestWritten
    <2> QED
        BY <1>2, <2>1, <2>2, <2>3, <2>4
<1>4. CASE ~WriteManifest
    <2>1. h \in Completed
        BY <1>4, CompletedGrows
    <2>2. stage = "idle"
        BY <1>1, <1>2, <2>1 DEF RunsAreNumbered, Completed
    <2>3. PICK i \in DOMAIN ledger :
              /\ ledger[i].run = h.run /\ ledger[i].kind = "local_artifact_export"
              /\ \A f \in DOMAIN ledger[i].hashes :
                    \/ reports[f] = ledger[i].hashes[f] /\ reports[f].run = h.run
                    \/ f = "pack" /\ reports[f].run = 0
        BY <1>2, <2>1 DEF ExportAttestsReports, LinesOf
    <2>4. DOMAIN ledger[i].hashes \subseteq ReportFiles
        BY <2>3 DEF TypeOK
    <2>5. \A f \in ReportFiles : reports'[f] = reports[f] \/ (f = "pack" /\ reports'[f].run = 0)
        <3>1. CASE BuildPackAlone
            BY <3>1, PackWritten DEF BuildPackAlone
        <3>2. CASE ~BuildPackAlone
            <4>1. ~Writes
                BY <2>2, <3>2 DEF Writes, WriteReports, AppendDiffProof, VerifyForPack, BuildPack,
                                  WriteComment, FinalVerify, WriteManifest, At
            <4> QED
                BY <4>1, OthersWriteNothing
        <3> QED
            BY <3>1, <3>2
    <2>6. i \in DOMAIN ledger' /\ ledger'[i] = ledger[i]
        BY <2>3, LinesStay
    <2> QED
        BY <2>3, <2>4, <2>5, <2>6
<1> QED
    BY <1>3, <1>4
-----------------------------------------------------------------------------
(* The gate.                                                               *)

\* The counters of a manifest's alerts are natural numbers.
LEMMA CountsAre ==
    ASSUME NEW m
    PROVE  Counts(Shield(m)) \in [CountNames -> Nat]
<1> DEFINE Maybe(c, a) == IF c THEN {a} ELSE {}
<1>1. \A c, a : IsFiniteSet(Maybe(c, a))
    <2> TAKE c, a
    <2>1. IsFiniteSet({a}) /\ IsFiniteSet({})
        BY FS_Singleton, FS_EmptySet
    <2> QED
        BY <2>1
<1>2. IsFiniteSet(Findings(m))
    <2> DEFINE A == Maybe(m.lineage_loop, Alert("CRITICAL", "MODEL_INBREEDING", "QUARANTINE"))
               B == Maybe(m.benchmark_overlap, Alert("CRITICAL", "BENCHMARK_LEAK", "QUARANTINE"))
               C == Maybe(m.financial /\ m.tags = "unapproved",
                          Alert("CRITICAL", "PROVENANCE_GAP", "QUARANTINE"))
               D == Maybe(m.financial /\ m.tags = "none",
                          Alert("WARN", "PROVENANCE_GAP", "REVIEW"))
    <2>1. Findings(m) = A \cup B \cup C \cup D
        BY DEF Findings
    <2>2. IsFiniteSet(A) /\ IsFiniteSet(B) /\ IsFiniteSet(C) /\ IsFiniteSet(D)
        <3> HIDE DEF Maybe
        <3> QED
            BY <1>1
    <2> HIDE DEF A, B, C, D
    <2>3. IsFiniteSet(A \cup B)
        BY <2>2, FS_Union
    <2>4. IsFiniteSet((A \cup B) \cup C)
        BY <2>2, <2>3, FS_Union
    <2>5. IsFiniteSet(((A \cup B) \cup C) \cup D)
        BY <2>2, <2>4, FS_Union
    <2> QED
        BY <2>1, <2>5
<1>3. IsFiniteSet(Shield(m))
    <2>1. IsFiniteSet({AllClear})
        BY FS_Singleton
    <2> QED
        BY <1>2, <2>1 DEF Shield
<1>4. ASSUME NEW c \in CountNames PROVE Cardinality({a \in Shield(m) : c \in CountedIn(a)}) \in Nat
    <2> DEFINE S == {a \in Shield(m) : c \in CountedIn(a)}
    <2>1. IsFiniteSet(S)
        BY <1>3, FS_Subset
    <2> HIDE DEF S
    <2>2. Cardinality(S) \in Nat
        BY <2>1, FS_CardinalityType
    <2> QED
        BY <2>2 DEF S
<1> QED
    BY <1>4 DEF Counts

\* The passport's bonus never moves the gate: 80 separates no alert from one,
\* with the bonus and without it.
LEMMA BonusNeverMovesTheGate ==
    ASSUME NEW n \in [CountNames -> Nat], NEW certified
    PROVE  RiskGate(n, certified) = RiskGate(n, FALSE)
<1>1. /\ n.critical \in Nat /\ n.review \in Nat /\ n.quarantine \in Nat
      /\ n.provenance \in Nat
    BY DEF CountNames
<1>2. ASSUME n.critical = 0, n.review = 0, NEW c
      PROVE  ComplianceReadiness(n, c) < 80 <=> n.provenance > 0
    BY <1>1, <1>2 DEF ComplianceReadiness, ProvenanceCompleteness, AtMost, AtLeast
<1>3. (n.critical > 0 \/ n.critical = 0) /\ (n.review > 0 \/ n.review = 0)
    BY <1>1
<1> QED
    BY <1>2, <1>3 DEF RiskGate

\* The gate of a ledger is decided by its last oracle event.
LEMMA LastOracleDecides ==
    ASSUME NEW events, NEW o \in Nat, NEW n \in Nat, DOMAIN events = 1..n, o \in 1..n,
           events[o].kind = "oracle_shield_run",
           \A i \in (o + 1)..n : events[i].kind # "oracle_shield_run",
           events[o].counts \in [CountNames -> Nat]
    PROVE  GateOf(events) = RiskGate(events[o].counts, FALSE)
<1> DEFINE Kind == OfKind(events, "oracle_shield_run")
<1>1. o \in Kind /\ \A i \in Kind : i <= o /\ i \in Nat
    BY DEF OfKind
<1>2. \A i \in Kind : (\A j \in Kind : j <= i) => i = o
    BY <1>1
<1>3. (CHOOSE i \in Kind : \A j \in Kind : j <= i) = o
    <2> HIDE DEF Kind
    <2> QED
        BY <1>1, <1>2
<1>4. LastOfKind(events, "oracle_shield_run") = events[o]
    BY <1>3 DEF LastOfKind
<1>5. \E c : GateOf(events) = RiskGate(events[o].counts, c)
    BY <1>1, <1>4 DEF GateOf
<1> QED
    BY <1>5, BonusNeverMovesTheGate

LEMMA PredictionIs ==
    ASSUME NEW m
    PROVE  PredictedGate(m) = RiskGate(Counts(Shield(m)), FALSE)
<1> DEFINE e == [kind |-> "oracle_shield_run", counts |-> Counts(Shield(m))]
<1>1. e.kind = "oracle_shield_run" /\ e.counts = Counts(Shield(m))
    OBVIOUS
<1>2. PredictedGate(m) = GateOf(<<e>>)
    BY DEF PredictedGate
<1> HIDE DEF e
<1>3. DOMAIN <<e>> = 1..1 /\ <<e>>[1] = e
    OBVIOUS
<1>4. /\ <<e>>[1].kind = "oracle_shield_run" /\ <<e>>[1].counts \in [CountNames -> Nat]
      /\ \A i \in (1 + 1)..1 : <<e>>[i].kind # "oracle_shield_run"
    BY <1>1, <1>3, CountsAre
<1>5. \A s : /\ DOMAIN s = 1..1 /\ s[1].kind = "oracle_shield_run"
             /\ s[1].counts \in [CountNames -> Nat]
             => GateOf(s) = RiskGate(s[1].counts, FALSE)
    <2> SUFFICES ASSUME NEW s, DOMAIN s = 1..1, s[1].kind = "oracle_shield_run",
                        s[1].counts \in [CountNames -> Nat]
                 PROVE  GateOf(s) = RiskGate(s[1].counts, FALSE)
        OBVIOUS
    <2>1. 1 \in Nat /\ 1 \in 1..1 /\ \A i \in (1 + 1)..1 : s[i].kind # "oracle_shield_run"
        OBVIOUS
    <2> QED
        BY <2>1, LastOracleDecides
<1> QED
    BY <1>1, <1>2, <1>3, <1>4, <1>5

LEMMA OracleEventsKept ==
    ASSUME TypeOK, RunsAreNumbered, GateIsOfThisRun, Next
    PROVE  \A i \in DOMAIN ledger' : \A e :
              e = ledger'[i] /\ e.kind = "oracle_shield_run" /\ e.run > 0 =>
                  e.counts = Counts(Shield(JobOf(e.run)'.manifest))
<1> DEFINE OK(e) == e.kind = "oracle_shield_run" /\ e.run > 0 =>
                        e.counts = Counts(Shield(JobOf(e.run)'.manifest))
<1>1. ASSUME NEW i \in DOMAIN ledger, NEW e, e = ledger[i] PROVE OK(e)
    <2> SUFFICES ASSUME e.kind = "oracle_shield_run", e.run > 0
                 PROVE  e.counts = Counts(Shield(JobOf(e.run)'.manifest))
        OBVIOUS
    <2>1. e.counts = Counts(Shield(JobOf(e.run).manifest))
        BY <1>1 DEF GateIsOfThisRun
    <2>2. e.run \in 1..runs
        BY <1>1, CIAssumption DEF TypeOK
    <2>3. JobOf(e.run)' = JobOf(e.run)
        BY <2>2, JobOfRun
    <2> QED
        BY <2>1, <2>3
<1>2. ASSUME NEW e, RunAppends(e) PROVE OK(e)
    <2> SUFFICES ASSUME e.kind = "oracle_shield_run"
                 PROVE  e.counts = Counts(Shield(JobOf(e.run)'.manifest))
        OBVIOUS
    <2>1. e.run = runs /\ e.kind = KindAt(stage) /\ stage \in AppendingStages
        BY <1>2 DEF RunAppends
    <2>2. stage = "oracle"
        BY <2>1 DEF KindAt, AppendingStages
    <2>3. e.counts = Counts(Shield(job.manifest))
        BY <1>2, <2>2 DEF RunAppends
    <2>4. e.run \in 1..runs
        BY <2>1, <2>2, CIAssumption DEF RunsAreNumbered, TypeOK
    <2>5. JobOf(e.run)' = JobOf(e.run)
        BY <2>4, JobOfRun
    <2>6. JobOf(e.run) = job
        BY <2>1, <2>2, JobOfRun
    <2> QED
        BY <2>3, <2>5, <2>6
<1>3. ASSUME NEW e, OtherAppends(e) PROVE OK(e)
    BY <1>3 DEF OtherAppends
<1> HIDE DEF OK
<1>4. ASSUME NEW f, ledger' = Append(ledger, f), OK(f),
             NEW i \in DOMAIN ledger', NEW e, e = ledger'[i]
      PROVE  OK(e)
    <2>1. /\ DOMAIN ledger' = 1..(Len(ledger) + 1)
          /\ DOMAIN ledger = 1..Len(ledger) /\ Len(ledger) \in Nat
          /\ \A k \in DOMAIN ledger : ledger'[k] = ledger[k]
          /\ ledger'[Len(ledger) + 1] = f
        BY <1>4, LineAdded
    <2>2. CASE i = Len(ledger) + 1
        <3>1. e = f
            BY <1>4, <2>1, <2>2
        <3> QED
            BY <1>4, <3>1
    <2>3. CASE i \in DOMAIN ledger
        <3>1. e = ledger[i]
            BY <1>4, <2>1, <2>3
        <3> QED
            BY <1>1, <2>3, <3>1
    <2> QED
        BY <1>4, <2>1, <2>2, <2>3
<1>5. ASSUME NEW i \in DOMAIN ledger', NEW e, e = ledger'[i] PROVE OK(e)
    <2>1. CASE UNCHANGED ledger
        <3>1. i \in DOMAIN ledger /\ e = ledger[i]
            BY <1>5, <2>1
        <3> QED
            BY <1>1, <3>1
    <2>2. ASSUME NEW f, RunAppends(f) PROVE OK(e)
        <3>1. ledger' = Append(ledger, f) /\ OK(f)
            BY <1>2, <2>2 DEF RunAppends
        <3> QED
            BY <1>4, <1>5, <3>1
    <2>3. ASSUME NEW f, OtherAppends(f) PROVE OK(e)
        <3>1. ledger' = Append(ledger, f) /\ OK(f)
            BY <1>3, <2>3 DEF OtherAppends
        <3> QED
            BY <1>4, <1>5, <3>1
    <2> QED
        BY <2>1, <2>2, <2>3, LedgerSteps
<1> QED
    BY <1>5 DEF OK

LEMMA GateOfRunKept ==
    ASSUME TypeOK, RunsAreNumbered, GateIsOfThisRun, Next
    PROVE  GateIsOfThisRun'
<1>1. Len(ledger) \in Nat /\ DOMAIN ledger = 1..Len(ledger)
    BY Grows DEF TypeOK
<1>2. ASSUME stage' = "gate",
             NEW o \in DOMAIN ledger', ledger'[o].run = runs',
             ledger'[o].kind = "oracle_shield_run",
             \A i \in (o + 1)..Len(ledger') : ledger'[i].kind # "oracle_shield_run"
      PROVE  local'.gate = PredictedGate(job'.manifest)
    <2>1. CASE RunMoves
        <3>1. ScoreEvents
            BY <1>2, <2>1, MovesAre DEF RunMoves
        <3>2. /\ UNCHANGED <<ledger, runs, job>> /\ local'.gate = GateOf(ledger)
              /\ stage # "idle"
            BY <2>1, <3>1 DEF ScoreEvents, GoTo, TypeOK, RunMoves
        <3>3. ledger[o].counts = Counts(Shield(job.manifest))
            <4>1. runs > 0 /\ JobOf(runs) = job
                BY <3>2, JobOfRun DEF RunsAreNumbered
            <4> QED
                BY <1>2, <3>2, <4>1 DEF GateIsOfThisRun
        <3>4. ledger[o].counts \in [CountNames -> Nat]
            BY <3>3, CountsAre
        <3>5. /\ o \in Nat /\ o \in 1..Len(ledger) /\ ledger[o].kind = "oracle_shield_run"
              /\ \A i \in (o + 1)..Len(ledger) : ledger[i].kind # "oracle_shield_run"
            BY <1>1, <1>2, <3>2
        <3>6. GateOf(ledger) = RiskGate(ledger[o].counts, FALSE)
            BY <1>1, <3>4, <3>5, LastOracleDecides
        <3> QED
            BY <3>2, <3>3, <3>6, PredictionIs
    <2>2. CASE (Disturb \/ BuildPackAlone) /\ UNCHANGED <<stage, job, local, runs, history>>
        <3>1. stage = "gate" /\ runs > 0 /\ Disturb
            BY <1>2, <2>2 DEF RunsAreNumbered, BuildPackAlone, At
        <3>2. PICK e : ledger' = Append(ledger, e) /\ e.run = 0
            BY <3>1, DisturbancesAppend DEF OtherAppends
        <3>3. /\ DOMAIN ledger' = 1..(Len(ledger) + 1) /\ Len(ledger') = Len(ledger) + 1
              /\ \A i \in DOMAIN ledger : ledger'[i] = ledger[i]
              /\ ledger'[Len(ledger) + 1] = e
            BY <3>2, LineAdded
        <3>4. o # Len(ledger) + 1
            BY <1>2, <2>2, <3>1, <3>2, <3>3
        <3>5. o \in DOMAIN ledger /\ ledger'[o] = ledger[o]
            BY <1>1, <1>2, <3>3, <3>4
        <3>6. \A i \in (o + 1)..Len(ledger) : ledger[i].kind # "oracle_shield_run"
            BY <1>1, <1>2, <3>3, <3>5
        <3> QED
            BY <1>2, <2>2, <3>1, <3>5, <3>6 DEF GateIsOfThisRun, LinesOf
    <2> QED
        BY <1>2, <2>1, <2>2, StageSteps, StartsAre DEF RunEnds
<1> QED
    BY <1>2, OracleEventsKept DEF GateIsOfThisRun, LinesOf

LEMMA SimulationKept ==
    ASSUME TypeOK, RunsAreNumbered, GateIsOfThisRun, GateMatchesSimulation, Next
    PROVE  GateMatchesSimulation'
<1> DEFINE Decides(l, g, o) ==
        /\ l[g].kind = "risk_gate_decision"
        /\ l[o].kind = "oracle_shield_run" /\ l[o].run = l[g].run
        /\ \A i \in (o + 1)..(g - 1) : l[i].kind # "oracle_shield_run"
<1>1. Len(ledger) \in Nat /\ DOMAIN ledger = 1..Len(ledger)
    BY Grows DEF TypeOK
<1> SUFFICES ASSUME NEW g \in DOMAIN ledger', NEW o \in 1..(g - 1), Decides(ledger', g, o)
             PROVE  (ledger[g].gate = PredictedGate(JobOf(ledger[g].run).manifest))'
    BY DEF GateMatchesSimulation
<1>2. CASE g \in DOMAIN ledger
    <2>0. PICK r : r = ledger[g].run
        OBVIOUS
    <2>1. /\ ledger'[g] = ledger[g]
          /\ \A i \in 1..(g - 1) : ledger'[i] = ledger[i]
        BY <1>1, <1>2, LinesStay
    <2>2. o \in Nat /\ o >= 1 /\ g \in Nat
        BY <1>1, <1>2
    <2>3. Decides(ledger, g, o)
        BY <2>1, <2>2
    <2>4. ledger[g].gate = PredictedGate(JobOf(ledger[g].run).manifest)
        BY <1>2, <2>3 DEF GateMatchesSimulation
    <2>5. r \in 1..runs
        BY <1>2, <2>0, <2>3, CIAssumption DEF TypeOK
    <2>6. JobOf(r)' = JobOf(r)
        BY <2>5, JobOfRun
    <2> QED
        BY <2>0, <2>1, <2>4, <2>6
<1>3. CASE g \notin DOMAIN ledger
    <2>1. PICK e : RunAppends(e) \/ OtherAppends(e)
        BY <1>3, LedgerSteps
    <2>2. /\ DOMAIN ledger' = 1..(Len(ledger) + 1)
          /\ \A i \in DOMAIN ledger : ledger'[i] = ledger[i]
          /\ ledger'[Len(ledger) + 1] = e
        BY <2>1, LineAdded DEF RunAppends, OtherAppends
    <2>3. g = Len(ledger) + 1 /\ g - 1 = Len(ledger)
        BY <1>1, <1>3, <2>2
    <2>4. RunAppends(e)
        BY <2>1, <2>2, <2>3 DEF OtherAppends
    <2>5. e.run = runs /\ stage = "gate"
        BY <2>2, <2>3, <2>4 DEF RunAppends, KindAt, AppendingStages
    <2>6. e.gate = local.gate
        BY <2>4, <2>5 DEF RunAppends
    <2>7. o \in LinesOf(runs, "oracle_shield_run")
        BY <1>1, <2>2, <2>3, <2>5 DEF LinesOf
    <2>8. \A i \in (o + 1)..Len(ledger) : ledger[i].kind # "oracle_shield_run"
        BY <1>1, <2>2, <2>3
    <2>9. local.gate = PredictedGate(job.manifest)
        BY <2>5, <2>7, <2>8 DEF GateIsOfThisRun
    <2>10. e.run \in 1..runs
        BY <2>5, CIAssumption DEF RunsAreNumbered, TypeOK
    <2>11. JobOf(e.run)' = JobOf(e.run) /\ JobOf(e.run) = job
        BY <2>5, <2>10, JobOfRun
    <2>12. ledger'[g] = e
        BY <2>2, <2>3
    <2> QED
        BY <2>6, <2>9, <2>11, <2>12
<1> QED
    BY <1>2, <1>3
-----------------------------------------------------------------------------
(* The evidence.                                                           *)

LEMMA LinesOfRunAre ==
    ASSUME TypeOK, NEW r
    PROVE  /\ IsFiniteSet(LinesOfRun(r)) /\ Cardinality(LinesOfRun(r)) \in Nat
           /\ \A i \in LinesOfRun(r) : i \in 1..Len(ledger)
           /\ LinesOfRun(r) = {} => Cardinality(LinesOfRun(r)) = 0
<1>1. Len(ledger) \in Nat /\ DOMAIN ledger = 1..Len(ledger)
    BY Grows DEF TypeOK
<1>2. IsFiniteSet(1..Len(ledger))
    BY <1>1, FS_Interval
<1>3. IsFiniteSet(LinesOfRun(r)) /\ \A i \in LinesOfRun(r) : i \in 1..Len(ledger)
    BY <1>1, <1>2, FS_Subset DEF LinesOfRun
<1>4. Cardinality(LinesOfRun(r)) \in Nat
    BY <1>3, FS_CardinalityType
<1> QED
    BY <1>3, <1>4, FS_EmptySet

\* One more line is one more of its run, and of no other.
LEMMA OneMoreLine ==
    ASSUME TypeOK, NEW e, ledger' = Append(ledger, e), NEW r
    PROVE  IF e.run = r
           THEN /\ LinesOfRun(r)' = LinesOfRun(r) \cup {Len(ledger) + 1}
                /\ Cardinality(LinesOfRun(r)') = Cardinality(LinesOfRun(r)) + 1
           ELSE LinesOfRun(r)' = LinesOfRun(r)
<1>1. /\ Len(ledger) \in Nat /\ DOMAIN ledger = 1..Len(ledger)
      /\ DOMAIN ledger' = DOMAIN ledger \cup {Len(ledger) + 1}
      /\ \A i \in DOMAIN ledger : ledger'[i] = ledger[i]
      /\ ledger'[Len(ledger) + 1] = e
    BY LineAdded
<1>2. CASE e.run # r
    BY <1>1, <1>2 DEF LinesOfRun
<1>3. CASE e.run = r
    <2>1. LinesOfRun(r)' = LinesOfRun(r) \cup {Len(ledger) + 1}
        BY <1>1, <1>3 DEF LinesOfRun
    <2> DEFINE S == LinesOfRun(r)
               n == Len(ledger) + 1
    <2>2. IsFiniteSet(S) /\ n \notin S
        BY <1>1, LinesOfRunAre
    <2> HIDE DEF S, n
    <2>3. Cardinality(S \cup {n}) = Cardinality(S) + 1
        BY <2>2, FS_AddElement
    <2> QED
        BY <1>3, <2>1, <2>3 DEF S, n
<1> QED
    BY <1>2, <1>3

\* Which steps append: those at a stage that appends.
LEMMA MovesAppend ==
    ASSUME TypeOK, Next, RunMoves
    PROVE  IF stage \in AppendingStages THEN \E e : RunAppends(e) ELSE UNCHANGED ledger
<1>1. CASE stage \in AppendingStages
    <2>1. \E e : ledger' = Append(ledger, e)
        BY <1>1, MovesAre DEF RunMoves, AppendingStages, Scan, Blueprint, Oracle, AppendPassport,
                              RecordGate, AppendDiffProof, AppendExport, AppendEvent
    <2>2. ledger' # ledger
        <3>1. Len(ledger) \in Nat /\ Len(ledger') = Len(ledger) + 1
            BY <2>1, LineAdded
        <3> QED
            BY <3>1
    <2>3. ~Disturb
        BY DEF Disturb, RunMoves
    <2> QED
        BY <1>1, <2>2, <2>3, LedgerSteps DEF OtherAppends
<1>2. CASE stage \notin AppendingStages
    BY <1>2, MovesAre
        DEF RunMoves, AppendingStages, CountEvents, VerifyForPassport, VerifyForEvent,
            ScoreEvents, WriteReports, VerifyForPack, BuildPack, WriteComment, FinalVerify
<1> QED
    BY <1>1, <1>2

LEMMA CountedKept ==
    ASSUME TypeOK, RunsAreNumbered, EvidenceIsCounted, Next
    PROVE  EvidenceIsCounted'
<1>0. runs \in Nat
    BY CIAssumption DEF TypeOK
<1>1. CASE RunEnds
    BY <1>1 DEF RunEnds, EvidenceIsCounted
<1>2. ASSUME NEW j \in Jobs, Start(j) PROVE EvidenceIsCounted'
    <2>1. /\ stage' \in {"scan", "report"} /\ job' = j /\ (stage' = "scan" <=> j.command = "scan")
          /\ runs' = runs + 1 /\ UNCHANGED ledger
        BY <1>2, StartsAre
    <2>2. PICK r : r = runs + 1
        OBVIOUS
    <2>3. LinesOfRun(r) = {}
        BY <1>0, <2>2 DEF LinesOfRun, TypeOK
    <2>4. Cardinality(LinesOfRun(r)) = 0
        BY <2>3, LinesOfRunAre
    <2>5. LinesOfRun(runs)' = LinesOfRun(r)
        BY <2>1, <2>2 DEF LinesOfRun
    <2>6. Appended(stage, job)' = 0
        BY <2>1 DEF Appended
    <2> QED
        BY <2>1, <2>4, <2>5, <2>6 DEF EvidenceIsCounted
<1>3. CASE RunMoves
    <2>1. stage # "idle" /\ stage' # "idle" /\ UNCHANGED <<job, runs>>
        BY <1>3 DEF RunMoves
    <2>2. PICK r : r = runs
        OBVIOUS
    <2>3. Cardinality(LinesOfRun(r)) = Appended(stage, job) /\ Cardinality(LinesOfRun(r)) \in Nat
        BY <2>1, <2>2, LinesOfRunAre DEF EvidenceIsCounted
    <2>4. Cardinality(LinesOfRun(r)') = Cardinality(LinesOfRun(r))
                                          + (IF stage \in AppendingStages THEN 1 ELSE 0)
        <3>1. CASE stage \in AppendingStages
            <4>1. PICK e : RunAppends(e)
                BY <1>3, <3>1, MovesAppend
            <4>2. ledger' = Append(ledger, e) /\ e.run = r
                BY <2>2, <4>1 DEF RunAppends
            <4> QED
                BY <3>1, <4>2, OneMoreLine
        <3>2. CASE stage \notin AppendingStages
            <4>1. UNCHANGED ledger
                BY <1>3, <3>2, MovesAppend
            <4>2. LinesOfRun(r)' = LinesOfRun(r)
                BY <4>1 DEF LinesOfRun
            <4> QED
                BY <2>3, <3>2, <4>2
        <3> QED
            BY <3>1, <3>2
    <2>5. LinesOfRun(runs)' = LinesOfRun(r)'
        BY <2>1, <2>2 DEF LinesOfRun
    <2>6. Appended(stage', job) = Appended(stage, job)
                                    + (IF stage \in AppendingStages THEN 1 ELSE 0)
        BY <1>3, <2>1 DEF RunMoves, Appended, AppendingStages, EvidenceIsCounted
    <2>7. /\ stage' = "scan" <=> job'.command = "scan"
          /\ stage' \in {"blueprint", "oracle"} => job'.has_manifest # "no"
        BY <1>3, <2>1 DEF RunMoves, EvidenceIsCounted
    <2>8. Appended(stage, job)' = Appended(stage', job)
        BY <2>1
    <2> QED
        BY <2>3, <2>4, <2>5, <2>6, <2>7, <2>8 DEF EvidenceIsCounted
<1>4. CASE (Disturb \/ BuildPackAlone) /\ UNCHANGED <<stage, job, local, runs, history>>
    <2> SUFFICES ASSUME stage # "idle" PROVE LinesOfRun(runs)' = LinesOfRun(runs)
        BY <1>4 DEF EvidenceIsCounted
    <2>1. CASE UNCHANGED ledger
        BY <1>4, <2>1 DEF LinesOfRun
    <2>2. CASE ~UNCHANGED ledger
        <3>1. PICK e : ledger' = Append(ledger, e) /\ e.run = 0
            BY <1>4, <2>2, DisturbancesAppend DEF OtherAppends, BuildPackAlone
        <3>2. PICK r : r = runs
            OBVIOUS
        <3>3. e.run # r
            BY <1>0, <3>1, <3>2 DEF RunsAreNumbered
        <3>4. LinesOfRun(r)' = LinesOfRun(r)
            BY <3>1, <3>3, OneMoreLine
        <3> QED
            BY <1>4, <3>2, <3>4 DEF LinesOfRun
    <2> QED
        BY <2>1, <2>2
<1> QED
    BY <1>1, <1>2, <1>3, <1>4, StageSteps

EventKinds ==
    {"ci_scan", "curriculum_blueprint_generated", "oracle_shield_run",
     "compliance_passport_generated", "risk_gate_decision", "diff_free_pr_evidence",
     "local_artifact_export"}

\* The events of a run, in order.
LEMMA PipelineIs ==
    ASSUME NEW j
    PROVE  LET p == Pipeline(j)
               n == IF j.has_manifest = "no" THEN 1 ELSE 3
           IN  IF j.command = "scan"
               THEN DOMAIN p = 1..1 /\ Len(p) = 1 /\ p[1] = "ci_scan"
               ELSE /\ DOMAIN p = 1..(n + 4) /\ Len(p) = n + 4
                    /\ p[1] = "ci_scan"
                    /\ n = 3 => p[2] = "curriculum_blueprint_generated" /\ p[3] = "oracle_shield_run"
                    /\ p[n + 1] = "compliance_passport_generated" /\ p[n + 2] = "risk_gate_decision"
                    /\ p[n + 3] = "diff_free_pr_evidence" /\ p[n + 4] = "local_artifact_export"
<1>1. CASE j.command = "scan"
    BY <1>1 DEF Pipeline
<1>2. CASE j.command # "scan"
    <2> DEFINE a == <<"ci_scan">>
               b == IF j.has_manifest = "no" THEN << >>
                    ELSE <<"curriculum_blueprint_generated", "oracle_shield_run">>
               c == <<"compliance_passport_generated", "risk_gate_decision",
                      "diff_free_pr_evidence", "local_artifact_export">>
               n == IF j.has_manifest = "no" THEN 1 ELSE 3
    <2> USE DEF EventKinds
    <2>1. a \in Seq(EventKinds) /\ Len(a) = 1 /\ a[1] = "ci_scan"
        OBVIOUS
    <2>2. /\ b \in Seq(EventKinds) /\ Len(b) = n - 1
          /\ n = 3 => b[1] = "curriculum_blueprint_generated" /\ b[2] = "oracle_shield_run"
        <3>1. CASE j.has_manifest = "no"
            <4>1. b = << >> /\ n = 1
                BY <3>1
            <4>2. << >> \in Seq(EventKinds) /\ Len(<< >>) = 0
                OBVIOUS
            <4> HIDE DEF b, n
            <4> QED
                BY <4>1, <4>2
        <3>2. CASE j.has_manifest # "no"
            <4>1. b = <<"curriculum_blueprint_generated", "oracle_shield_run">> /\ n = 3
                BY <3>2
            <4> HIDE DEF b, n
            <4>2. b \in Seq(EventKinds)
                BY <4>1
            <4>3. Len(b) = 2 /\ b[1] = "curriculum_blueprint_generated" /\ b[2] = "oracle_shield_run"
                BY <4>1
            <4> QED
                BY <4>1, <4>2, <4>3
        <3> QED
            BY <3>1, <3>2
    <2>3. /\ c \in Seq(EventKinds) /\ Len(c) = 4
          /\ c[1] = "compliance_passport_generated" /\ c[2] = "risk_gate_decision"
          /\ c[3] = "diff_free_pr_evidence" /\ c[4] = "local_artifact_export"
        OBVIOUS
    <2>4. Pipeline(j) = (a \o b) \o c
        BY <1>2 DEF Pipeline
    <2>5. n \in {1, 3}
        OBVIOUS
    <2> HIDE DEF a, b, c, n, EventKinds
    <2>6. /\ a \o b \in Seq(EventKinds) /\ Len(a \o b) = n /\ (a \o b)[1] = "ci_scan"
          /\ n = 3 => /\ (a \o b)[2] = "curriculum_blueprint_generated"
                      /\ (a \o b)[3] = "oracle_shield_run"
        <3> DEFINE q == a \o b
        <3>1. /\ q \in Seq(EventKinds) /\ Len(q) = Len(a) + Len(b)
              /\ \A i \in 1..(Len(a) + Len(b)) :
                    q[i] = IF i <= Len(a) THEN a[i] ELSE b[i - Len(a)]
            BY <2>1, <2>2, ConcatProperties
        <3> HIDE DEF q
        <3>2. Len(q) = n /\ q[1] = "ci_scan"
            BY <2>1, <2>2, <2>5, <3>1
        <3>3. n = 3 => q[2] = b[1] /\ q[3] = b[2]
            BY <2>1, <2>2, <3>1
        <3> QED
            BY <2>2, <3>1, <3>2, <3>3 DEF q
    <2> DEFINE ab == a \o b
    <2> HIDE DEF ab
    <2>7. /\ ab \in Seq(EventKinds) /\ Len(ab) = n /\ ab[1] = "ci_scan"
          /\ n = 3 => ab[2] = "curriculum_blueprint_generated" /\ ab[3] = "oracle_shield_run"
        BY <2>6 DEF ab
    <2> DEFINE p == ab \o c
    <2>8. /\ p \in Seq(EventKinds) /\ Len(p) = n + 4
          /\ \A i \in 1..(n + 4) : p[i] = IF i <= n THEN ab[i] ELSE c[i - n]
        <3>1. /\ p \in Seq(EventKinds) /\ Len(p) = Len(ab) + Len(c)
              /\ \A i \in 1..(Len(ab) + Len(c)) :
                    p[i] = IF i <= Len(ab) THEN ab[i] ELSE c[i - Len(ab)]
            BY <2>3, <2>7, ConcatProperties
        <3> HIDE DEF p
        <3> QED
            BY <2>3, <2>7, <3>1
    <2> HIDE DEF p
    <2>9. DOMAIN p = 1..(n + 4) /\ Len(p) = n + 4
        BY <2>5, <2>8
    <2>10. p[1] = "ci_scan" /\ (n = 3 => p[2] = ab[2] /\ p[3] = ab[3])
        BY <2>5, <2>7, <2>8
    <2>11. p[n + 1] = c[1] /\ p[n + 2] = c[2] /\ p[n + 3] = c[3] /\ p[n + 4] = c[4]
        BY <2>5, <2>8
    <2>12. Pipeline(j) = p
        BY <2>4 DEF p, ab
    <2> QED
        BY <1>2, <2>3, <2>7, <2>9, <2>10, <2>11, <2>12 DEF n
<1> QED
    BY <1>1, <1>2

\* The event a run appends at a stage is the one whose turn it is.
LEMMA PipelineAtStage ==
    ASSUME NEW j, NEW s \in AppendingStages, s = "scan" <=> j.command = "scan",
           s \in {"blueprint", "oracle"} => j.has_manifest # "no"
    PROVE  /\ Appended(s, j) + 1 \in DOMAIN Pipeline(j)
           /\ Pipeline(j)[Appended(s, j) + 1] = KindAt(s)
<1> DEFINE p == Pipeline(j)
<1>1. CASE s = "scan"
    <2>1. DOMAIN p = 1..1 /\ p[1] = "ci_scan"
        BY <1>1, PipelineIs
    <2>2. Appended(s, j) = 0 /\ KindAt(s) = "ci_scan"
        BY <1>1 DEF Appended, KindAt
    <2> HIDE DEF p
    <2>3. Appended(s, j) + 1 \in DOMAIN p /\ p[Appended(s, j) + 1] = KindAt(s)
        BY <2>1, <2>2
    <2> QED
        BY <2>3 DEF p
<1>2. CASE s # "scan"
    <2> DEFINE n == IF j.has_manifest = "no" THEN 1 ELSE 3
    <2>1. /\ DOMAIN p = 1..(n + 4) /\ p[1] = "ci_scan"
          /\ n = 3 => p[2] = "curriculum_blueprint_generated" /\ p[3] = "oracle_shield_run"
          /\ p[n + 1] = "compliance_passport_generated" /\ p[n + 2] = "risk_gate_decision"
          /\ p[n + 3] = "diff_free_pr_evidence" /\ p[n + 4] = "local_artifact_export"
        BY <1>2, PipelineIs
    <2>2. n \in {1, 3} /\ (s \in {"blueprint", "oracle"} => n = 3)
        OBVIOUS
    <2>3. /\ s = "report" => Appended(s, j) = 0 /\ KindAt(s) = "ci_scan"
          /\ s = "blueprint" => Appended(s, j) = 1 /\ KindAt(s) = "curriculum_blueprint_generated"
          /\ s = "oracle" => Appended(s, j) = 2 /\ KindAt(s) = "oracle_shield_run"
          /\ s = "passport" => Appended(s, j) = n /\ KindAt(s) = "compliance_passport_generated"
        BY DEF Appended, KindAt
    <2>4. /\ s = "gate" => Appended(s, j) = n + 1 /\ KindAt(s) = "risk_gate_decision"
          /\ s = "diff" => Appended(s, j) = n + 2 /\ KindAt(s) = "diff_free_pr_evidence"
          /\ s = "export" => Appended(s, j) = n + 3 /\ KindAt(s) = "local_artifact_export"
        BY DEF Appended, KindAt
    <2> HIDE DEF p, n
    <2>5. CASE s \in {"report", "blueprint", "oracle"}
        BY <2>1, <2>2, <2>3, <2>5 DEF p
    <2>6. CASE s \in {"passport", "gate", "diff", "export"}
        <3>1. /\ n + 1 \in 1..(n + 4) /\ n + 1 + 1 = n + 2 /\ n + 2 \in 1..(n + 4)
              /\ n + 2 + 1 = n + 3 /\ n + 3 \in 1..(n + 4) /\ n + 3 + 1 = n + 4
              /\ n + 4 \in 1..(n + 4)
            BY <2>2
        <3>2. CASE s = "passport"
            BY <2>1, <2>3, <3>1, <3>2 DEF p
        <3>3. CASE s = "gate"
            BY <2>1, <2>4, <3>1, <3>3 DEF p
        <3>4. CASE s = "diff"
            BY <2>1, <2>4, <3>1, <3>4 DEF p
        <3>5. CASE s = "export"
            BY <2>1, <2>4, <3>1, <3>5 DEF p
        <3> QED
            BY <2>6, <3>2, <3>3, <3>4, <3>5
    <2> QED
        BY <1>2, <2>5, <2>6 DEF AppendingStages
<1> QED
    BY <1>1, <1>2
\* The place of a line in its run.
LEMMA PlacesAre ==
    ASSUME TypeOK, RunsAreNumbered, Next
    PROVE  \A i \in DOMAIN ledger : PlaceInRun(i)' = PlaceInRun(i)
<1> SUFFICES ASSUME NEW i \in DOMAIN ledger PROVE PlaceInRun(i)' = PlaceInRun(i)
    OBVIOUS
<1>1. DOMAIN ledger = 1..Len(ledger) /\ Len(ledger) \in Nat
    BY Grows DEF TypeOK
<1>2. \A k \in 1..i : ledger'[k] = ledger[k]
    BY <1>1, LinesStay
<1>3. i \in 1..i
    BY <1>1
<1>4. {k \in 1..i : ledger'[k].run = ledger'[i].run} = {k \in 1..i : ledger[k].run = ledger[i].run}
    BY <1>2, <1>3
<1> QED
    BY <1>4 DEF PlaceInRun

LEMMA PlaceOfNewLine ==
    ASSUME TypeOK, NEW e, ledger' = Append(ledger, e), NEW i, i = Len(ledger) + 1
    PROVE  PlaceInRun(i)' = Cardinality(LinesOfRun(e.run)) + 1
<1>1. /\ DOMAIN ledger' = 1..i /\ ledger'[i] = e
    BY LineAdded
<1>2. {k \in 1..i : ledger'[k].run = ledger'[i].run} = LinesOfRun(e.run)'
    BY <1>1 DEF LinesOfRun
<1>3. Cardinality(LinesOfRun(e.run)') = Cardinality(LinesOfRun(e.run)) + 1
    BY OneMoreLine
<1> QED
    BY <1>2, <1>3 DEF PlaceInRun

LEMMA PrefixKept ==
    ASSUME TypeOK, RunsAreNumbered, EvidenceIsCounted, EvidenceIsAPrefix, Next
    PROVE  EvidenceIsAPrefix'
<1>0. /\ runs \in Nat /\ runs' \in {runs, runs + 1}
      /\ Len(ledger) \in Nat /\ DOMAIN ledger = 1..Len(ledger)
    BY StageSteps, StartsAre, CIAssumption, Grows DEF TypeOK, RunEnds, RunMoves
<1>1. ASSUME NEW r \in 1..runs', NEW i \in LinesOfRun(r)'
      PROVE  /\ PlaceInRun(i)' \in DOMAIN Pipeline(JobOf(r)')
             /\ ledger'[i].kind = Pipeline(JobOf(r)')[PlaceInRun(i)']
    <2>1. CASE i \in DOMAIN ledger
        <3>1. ledger'[i] = ledger[i] /\ i \in LinesOfRun(r)
            BY <1>1, <2>1, LinesStay DEF LinesOfRun
        <3>2. r \in 1..runs
            BY <1>0, <1>1, <2>1, <3>1 DEF LinesOfRun, TypeOK
        <3>3. JobOf(r)' = JobOf(r) /\ PlaceInRun(i)' = PlaceInRun(i)
            BY <2>1, <3>2, JobOfRun, PlacesAre
        <3>4. /\ PlaceInRun(i) \in DOMAIN Pipeline(JobOf(r))
              /\ ledger[i].kind = Pipeline(JobOf(r))[PlaceInRun(i)]
            BY <3>1, <3>2 DEF EvidenceIsAPrefix
        <3> QED
            BY <3>1, <3>3, <3>4
    <2>2. CASE i \notin DOMAIN ledger
        <3>1. PICK e : RunAppends(e) \/ OtherAppends(e)
            BY <1>1, <2>2, LedgerSteps DEF LinesOfRun
        <3>2. /\ ledger' = Append(ledger, e)
              /\ DOMAIN ledger' = 1..(Len(ledger) + 1) /\ ledger'[Len(ledger) + 1] = e
            BY <3>1, LineAdded DEF RunAppends, OtherAppends
        <3>3. i = Len(ledger) + 1 /\ e.run = r
            BY <1>0, <1>1, <2>2, <3>2 DEF LinesOfRun
        <3>4. RunAppends(e)
            BY <1>1, <3>1, <3>3 DEF OtherAppends
        <3>5. r = runs /\ e.kind = KindAt(stage) /\ stage \in AppendingStages /\ stage # "idle"
            BY <3>3, <3>4 DEF RunAppends, AppendingStages
        <3>6. JobOf(r)' = job
            <4>1. r \in 1..runs
                BY <1>0, <1>1, <3>5
            <4>2. JobOf(r)' = JobOf(r)
                BY <4>1, JobOfRun
            <4> QED
                BY <3>5, <4>2, JobOfRun
        <3>7. PlaceInRun(i)' = Cardinality(LinesOfRun(r)) + 1
            BY <3>2, <3>3, PlaceOfNewLine
        <3>8. Cardinality(LinesOfRun(r)) = Appended(stage, job)
            BY <3>5 DEF EvidenceIsCounted
        <3>9. /\ Appended(stage, job) + 1 \in DOMAIN Pipeline(job)
              /\ Pipeline(job)[Appended(stage, job) + 1] = KindAt(stage)
            BY <3>5, PipelineAtStage DEF EvidenceIsCounted
        <3> QED
            BY <3>2, <3>3, <3>5, <3>6, <3>7, <3>8, <3>9
    <2> QED
        BY <2>1, <2>2
<1>2. ASSUME NEW r \in 1..runs', NEW h \in Completed', h.run = r
      PROVE  Cardinality(LinesOfRun(r)') = Len(Pipeline(JobOf(r)'))
    <2>1. CASE h \in Completed
        <3>1. r \in 1..runs /\ h \in Ended
            BY <1>2, <2>1 DEF RunsAreNumbered, Completed
        <3>2. JobOf(r)' = JobOf(r)
            BY <3>1, JobOfRun
        <3>3. Cardinality(LinesOfRun(r)) = Len(Pipeline(JobOf(r)))
            BY <1>2, <2>1, <3>1 DEF EvidenceIsAPrefix
        <3>4. LinesOfRun(r)' = LinesOfRun(r)
            <4>1. CASE UNCHANGED ledger
                BY <4>1 DEF LinesOfRun
            <4>2. ASSUME NEW e, RunAppends(e) PROVE LinesOfRun(r)' = LinesOfRun(r)
                <5>1. ledger' = Append(ledger, e) /\ e.run = runs /\ stage # "idle"
                    BY <4>2 DEF RunAppends, AppendingStages
                <5>2. r # runs
                    BY <1>0, <1>2, <3>1, <5>1 DEF RunsAreNumbered
                <5> QED
                    BY <5>1, <5>2, OneMoreLine
            <4>3. ASSUME NEW e, OtherAppends(e) PROVE LinesOfRun(r)' = LinesOfRun(r)
                <5>1. ledger' = Append(ledger, e) /\ e.run # r
                    BY <1>2, <4>3 DEF OtherAppends
                <5> QED
                    BY <5>1, OneMoreLine
            <4> QED
                BY <4>1, <4>2, <4>3, LedgerSteps
        <3> QED
            BY <3>2, <3>3, <3>4
    <2>2. CASE h \notin Completed
        <3>1. WriteManifest /\ r = runs /\ stage = "manifest" /\ UNCHANGED ledger
            BY <1>2, <2>2, CompletedGrows DEF WriteManifest, At
        <3>2. JobOf(r)' = job
            <4>1. r \in 1..runs
                BY <1>0, <1>2, <3>1
            <4>2. JobOf(r)' = JobOf(r)
                BY <4>1, JobOfRun
            <4> QED
                BY <3>1, <4>2, JobOfRun
        <3>3. Cardinality(LinesOfRun(r)) = Appended("manifest", job) /\ job.command # "scan"
            BY <3>1 DEF EvidenceIsCounted
        <3>4. LinesOfRun(r)' = LinesOfRun(r)
            BY <3>1 DEF LinesOfRun
        <3>5. Len(Pipeline(job)) = (IF job.has_manifest = "no" THEN 1 ELSE 3) + 4
            BY <3>3, PipelineIs
        <3>6. Appended("manifest", job) = (IF job.has_manifest = "no" THEN 1 ELSE 3) + 4
            BY DEF Appended
        <3> QED
            BY <3>2, <3>3, <3>4, <3>5, <3>6
    <2> QED
        BY <2>1, <2>2
<1> QED
    BY <1>1, <1>2 DEF EvidenceIsAPrefix
-----------------------------------------------------------------------------
(* The theorems.                                                           *)

LEMMA CIInit == Init => CIInvariant
<1> SUFFICES ASSUME Init PROVE CIInvariant
    OBVIOUS
<1>1. /\ ledger = << >> /\ DOMAIN ledger = {} /\ stage = "idle" /\ runs = 0
      /\ Ended = {} /\ Completed = {}
    BY DEF Init, Ended, Completed
<1>2. \A f \in ReportFiles : reports[f] = Absent /\ reports[f].run = 0 /\ ~Present(f)
    BY DEF Init, Absent, Present
<1>3. TypeOK /\ RunsAreNumbered
    BY <1>1, CITypeInit DEF RunsAreNumbered
<1>4. /\ PassportWasRead /\ PassportCountsWhatItVouchesFor
      /\ PassportWasOnASoundChain /\ BrokenChainStopsRelease
    BY <1>1 DEF PassportWasRead, PassportCountsWhatItVouchesFor, PassportWasOnASoundChain,
                BrokenChainStopsRelease, FromScore, FromDiff, FromVerify, FromComment, FromExport,
                FromFinalVerify
<1>5. VerificationHolds /\ PackVouchesForAPrefix
    BY <1>1, <1>2 DEF VerificationHolds, PackVouchesForAPrefix, ReportFiles
<1>6. ReportsOfThisRun
    BY <1>1 DEF ReportsOfThisRun, FromDiff, FromVerify, FromComment, FromExport, FromFinalVerify
<1>7. ManifestIsTheLast /\ PackGateLagsOneRun
    BY <1>1, <1>2 DEF ManifestIsTheLast, PackGateLagsOneRun, ReportFiles
<1>8. ExportIsCurrent /\ ExportAttestsReports
    BY <1>1 DEF ExportIsCurrent, ExportAttestsReports, FromFinalVerify
<1>9. GateIsOfThisRun /\ GateMatchesSimulation
    BY <1>1 DEF GateIsOfThisRun, GateMatchesSimulation
<1>10. EvidenceIsCounted /\ EvidenceIsAPrefix
    BY <1>1 DEF EvidenceIsCounted, EvidenceIsAPrefix
<1> QED
    BY <1>3, <1>4, <1>5, <1>6, <1>7, <1>8, <1>9, <1>10 DEF CIInvariant

LEMMA CIStep == CIInvariant /\ [Next]_vars => CIInvariant'
<1>1. ASSUME CIInvariant, Next PROVE CIInvariant'
    <2>1. TypeOK' /\ RunsAreNumbered'
        BY <1>1, CITypeKept, NumberingKept DEF CIInvariant
    <2>2. PassportWasRead' /\ PassportCountsWhatItVouchesFor'
        BY <1>1, ReadingKept, PassportsKept DEF CIInvariant
    <2>3. PassportWasOnASoundChain' /\ BrokenChainStopsRelease'
        BY <1>1, <2>2, SoundPassportKept, BrokenChainKept DEF CIInvariant
    <2>4. VerificationHolds' /\ PackVouchesForAPrefix'
        BY <1>1, VerificationKept, PackKept DEF CIInvariant
    <2>5. ReportsOfThisRun' /\ ManifestIsTheLast' /\ PackGateLagsOneRun'
        BY <1>1, ReportsOfRunKept, ManifestKept, PackGateKept DEF CIInvariant
    <2>6. ExportIsCurrent' /\ ExportAttestsReports'
        BY <1>1, ExportCurrentKept, ExportKept DEF CIInvariant
    <2>7. GateIsOfThisRun' /\ GateMatchesSimulation'
        BY <1>1, GateOfRunKept, SimulationKept DEF CIInvariant
    <2>8. EvidenceIsCounted' /\ EvidenceIsAPrefix'
        BY <1>1, CountedKept, PrefixKept DEF CIInvariant
    <2> QED
        BY <2>1, <2>2, <2>3, <2>4, <2>5, <2>6, <2>7, <2>8 DEF CIInvariant
<1>2. ASSUME CIInvariant, UNCHANGED vars PROVE CIInvariant'
    <2> USE <1>2 DEF CIInvariant, vars
    <2>1. TypeOK' /\ RunsAreNumbered'
        BY EndedStays DEF TypeOK, RunsAreNumbered, Present
    <2>2. PassportWasRead' /\ PassportCountsWhatItVouchesFor'
        BY DEF PassportWasRead, PassportCountsWhatItVouchesFor
    <2>3. PassportWasOnASoundChain' /\ BrokenChainStopsRelease'
        BY EndedStays DEF PassportWasOnASoundChain, BrokenChainStopsRelease, LinesOf
    <2>4. VerificationHolds' /\ PackVouchesForAPrefix'
        BY DEF VerificationHolds, PackVouchesForAPrefix, LinesOf, Present
    <2>5. ReportsOfThisRun' /\ ManifestIsTheLast' /\ PackGateLagsOneRun'
        BY EndedStays DEF ReportsOfThisRun, ManifestIsTheLast, PackGateLagsOneRun, Present
    <2>6. ExportIsCurrent' /\ ExportAttestsReports'
        BY EndedStays DEF ExportIsCurrent, ExportAttestsReports, Attested, LinesOf
    <2>7. \A r : JobOf(r)' = JobOf(r)
        BY EndedStays DEF JobOf
    <2>8. GateIsOfThisRun'
        BY <2>7 DEF GateIsOfThisRun, LinesOf
    <2>9. GateMatchesSimulation'
        BY <2>7 DEF GateMatchesSimulation
    <2>10. EvidenceIsCounted'
        BY DEF EvidenceIsCounted, LinesOfRun
    <2>11. EvidenceIsAPrefix'
        <3>1. /\ \A r : LinesOfRun(r)' = LinesOfRun(r)
              /\ \A i : PlaceInRun(i)' = PlaceInRun(i)
            BY DEF LinesOfRun, PlaceInRun
        <3> QED
            BY <2>7, <3>1, EndedStays DEF EvidenceIsAPrefix
    <2> QED
        BY <2>1, <2>2, <2>3, <2>4, <2>5, <2>6, <2>8, <2>9, <2>10, <2>11
<1> QED
    BY <1>1, <1>2

\* What holds between any two steps of the jobs, whatever disturbs their ledger.
THEOREM CIInvariance == Spec => []CIInvariant
BY CIInit, CIStep, PTL DEF Spec

\* A passport counts a prefix of the ledger, and vouches for no event it did not
\* see verified.
THEOREM PassportsAreOfAPrefix == Spec => []PassportCountsWhatItVouchesFor
<1>1. CIInvariant => PassportCountsWhatItVouchesFor
    BY DEF CIInvariant
<1> QED
    BY <1>1, CIInvariance, PTL

\* A run does not complete over a chain it saw broken when it made its passport,
\* nor is it released over one that is broken before its verification.
THEOREM NoReleaseOnABrokenChain == Spec => []BrokenChainStopsRelease
<1>1. CIInvariant => BrokenChainStopsRelease
    BY DEF CIInvariant
<1> QED
    BY <1>1, CIInvariance, PTL

\* A governance pack whose chain is valid vouches for sound events only.
THEOREM PacksAreOfAPrefix == Spec => []PackVouchesForAPrefix
<1>1. CIInvariant => PackVouchesForAPrefix
    BY DEF CIInvariant
<1> QED
    BY <1>1, CIInvariance, PTL

\* A pack is scored on the gate of the last run that completed before its own.
THEOREM PackGateIsTheLastRuns == Spec => []PackGateLagsOneRun
<1>1. CIInvariant => PackGateLagsOneRun
    BY DEF CIInvariant
<1> QED
    BY <1>1, CIInvariance, PTL

\* The export event of the last run attests the reports that are there.
THEOREM ExportsAreCurrent == Spec => []ExportAttestsReports
<1>1. CIInvariant => ExportAttestsReports
    BY DEF CIInvariant
<1> QED
    BY <1>1, CIInvariance, PTL

\* The gate that is recorded is the one that was predicted, unless an oracle
\* event of another process came in between.
THEOREM GatesArePredicted == Spec => []GateMatchesSimulation
<1>1. CIInvariant => GateMatchesSimulation
    BY DEF CIInvariant
<1> QED
    BY <1>1, CIInvariance, PTL

\* What a run leaves in the ledger is the beginning of its pipeline.
THEOREM EvidenceIsInOrder == Spec => []EvidenceIsAPrefix
<1>1. CIInvariant => EvidenceIsAPrefix
    BY DEF CIInvariant
<1> QED
    BY <1>1, CIInvariance, PTL
=============================================================================
