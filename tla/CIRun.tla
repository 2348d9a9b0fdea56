------------------------------- MODULE CIRun -------------------------------
(***************************************************************************)
(* CI jobs over one ledger and one reports directory:                      *)
(* LocalCIArtifactGenerator.generate (ecl_trainer/ci/artifacts.py, the     *)
(* github-pr-report command), the scan alone (GitHubActionRunner.run) and  *)
(* the pack alone (mlops-pack build).  A generate run appends its events   *)
(* and writes its reports in a fixed order, with no lock and no temporary  *)
(* files, so a kill leaves what was written until then, and a later run    *)
(* starts from what it finds.                                              *)
(*                                                                         *)
(* Ledger.tla models one append; here an append is one step, and a line is *)
(* "sound", "unlinked" (LedgerFile!Linked fails: appends raced) or         *)
(* "malformed" (a torn write).  The reports a step writes together are     *)
(* written at once.                                                        *)
(***************************************************************************)
EXTENDS RiskScore, Readiness

CONSTANTS
    Jobs,           \* bound: the inputs runs are started with
    MaxRuns,        \* bound: runs started
    Disturbances,   \* what other writers of the ledger may do to it
    MaxDisturb,     \* bound: how often
    Kills           \* TRUE when a run may be killed

Policies ==
    {"report_only", "warn", "block_on_high_risk", "block_on_payload_violation",
     "block_on_release_risk"}

\* metadata: what the scanned files hold; has_manifest: whether an oracle
\* manifest is found, "refused" one that does not parse or that the validator
\* rejects.
JobInputs ==
    [command : {"report", "scan"}, policy : Policies,
     metadata : {"pass", "high_risk", "payload", "unparsable"},
     has_manifest : {"no", "yes", "refused"}, manifest : Manifests,
     lifecycle : {"CURRENT", "STALE", "MUTED", "UNKNOWN"},
     generate_pack : BOOLEAN, gaps : SUBSET Gaps]

ASSUME CIAssumption ==
    /\ Jobs \subseteq JobInputs
    /\ MaxRuns \in Nat /\ MaxDisturb \in Nat /\ Kills \in BOOLEAN
    /\ Disturbances \subseteq {"approval", "oracle_event", "fork", "garble"}

VARIABLES
    ledger,     \* the lines of the ledger
    reports,    \* reports[f]: the content of report file f
    stage,      \* where the current run is, or "idle"
    job,        \* its input
    local,      \* generate's local variables
    history,    \* per run that ended: its number, input, gate and exit code, and
                \* whether it got as far as its manifest
    runs,       \* runs started
    disturbed   \* disturbances so far

vars == <<ledger, reports, stage, job, local, history, runs, disturbed>>

ReportFiles ==
    {"risk_report", "passport", "lifecycle", "diff_proof", "oracle", "supply_chain",
     "verification", "pack", "pr_comment", "manifest"}

Absent == [run |-> 0]
Present(f) == reports[f] # Absent

NoLocals == [count |-> 0, valid |-> FALSE, sound |-> FALSE, gate |-> "none",
             readiness |-> "not_generated"]

Init ==
    /\ ledger = << >>
    /\ reports = [f \in ReportFiles |-> Absent]
    /\ stage = "idle"
    /\ job \in Jobs
    /\ local = NoLocals
    /\ history = << >>
    /\ runs = 0
    /\ disturbed = 0

-----------------------------------------------------------------------------
(* The ledger.                                                             *)

Readable == \A i \in DOMAIN ledger : ledger[i].line # "malformed"

\* verify stops at the first line that is not sound.
Defects == {i \in DOMAIN ledger : ledger[i].line # "sound"}
SoundEvents == Cardinality({i \in DOMAIN ledger : \A d \in Defects : i < d})
Verified ==
    IF Defects = {} THEN "valid"
    ELSE ledger[CHOOSE i \in Defects : \A k \in Defects : i <= k].line

\* A plausible bug: the run's id is off by one.
EventOfNextRun(kind) == [kind |-> kind, run |-> runs + 1, line |-> "sound"]

Event(kind) == [kind |-> kind, run |-> runs, line |-> "sound"]
OracleEvent(counts) ==
    [kind |-> "oracle_shield_run", run |-> runs, line |-> "sound", counts |-> counts]
PassportEvent(count, valid) ==
    [kind |-> "compliance_passport_generated", run |-> runs, line |-> "sound",
     count |-> count, chain_valid |-> valid]
GateEvent(gate) ==
    [kind |-> "risk_gate_decision", run |-> runs, line |-> "sound", gate |-> gate]
ExportEvent(hashes) ==
    [kind |-> "local_artifact_export", run |-> runs, line |-> "sound",
     hashes |-> hashes]

\* AppendOnlyEventLog.append raises over a line that does not parse.
AppendEvent(event) == Readable /\ ledger' = Append(ledger, event)

-----------------------------------------------------------------------------
(* The verdict.                                                            *)

\* should_fail and should_block_release_risk; a key a report does not have
\* is "absent".
ShouldFail(report, policy) ==
    \/ policy = "block_on_payload_violation" /\ report.payload = "failed"
    \/ policy = "block_on_high_risk" /\ report.risk = "high_risk"
    \/ /\ policy = "block_on_release_risk"
       /\ report.payload = "failed" \/ report.chain = "invalid"
             \/ report.readiness = "block"

ScanReport == [payload |-> "passed", risk |-> job.metadata, chain |-> "absent",
               readiness |-> "absent"]
RefusedReport == [payload |-> "failed", risk |-> "high_risk", chain |-> "absent",
                  readiness |-> "absent"]
ManifestReport == [payload |-> "passed", risk |-> "absent", chain |-> "absent",
                   readiness |-> local.readiness]

ExitCode(report) == IF ShouldFail(report, job.policy) THEN 1 ELSE 0

\* The process ends, having written its manifest or not; nothing of its memory
\* is left.
End(code, completed) ==
    /\ history' = Append(history, [run |-> runs, job |-> job, gate |-> local.gate,
                                   code |-> code, completed |-> completed])
    /\ stage' = "idle"
    /\ local' = NoLocals

\* An exception nobody catches: the command exits 1.
Raise == End(1, FALSE) /\ UNCHANGED <<job, runs, disturbed, reports>>

GoTo(s) == stage' = s /\ UNCHANGED <<job, runs, disturbed, history>>
At(s) == stage = s

Start(j) ==
    /\ At("idle") /\ runs < MaxRuns
    /\ job' = j
    /\ runs' = runs + 1
    /\ stage' = j.command
    /\ UNCHANGED <<ledger, reports, local, history, disturbed>>

-----------------------------------------------------------------------------
(* GitHubActionRunner.run: the scan alone, which catches a payload but not *)
(* a file that does not parse.                                             *)

ScanIsRefused == job.metadata \in {"payload", "unparsable"}

ScanAlone ==
    /\ At("scan")
    /\ \/ /\ job.metadata = "payload"
          /\ End(ExitCode(RefusedReport), FALSE)
          /\ UNCHANGED ledger
       \/ /\ job.metadata = "unparsable"
          /\ End(1, FALSE)
          /\ UNCHANGED ledger
       \/ /\ ~ScanIsRefused
          /\ AppendEvent(Event("ci_scan"))
          /\ End(ExitCode(ScanReport), FALSE)
    /\ UNCHANGED <<job, runs, disturbed, reports>>

(* generate.                                                               *)

Scan ==
    /\ At("report")
    /\ ~ScanIsRefused
    /\ AppendEvent(Event("ci_scan"))
    /\ GoTo(IF job.has_manifest = "no" THEN "compile" ELSE "blueprint")
    /\ UNCHANGED <<reports, local>>

\* A scanned file is refused, before any event, or the manifest is, after one;
\* generate catches neither.
InputRaises ==
    /\ \/ At("report") /\ ScanIsRefused
       \/ At("blueprint") /\ job.has_manifest = "refused"
    /\ Raise
    /\ UNCHANGED ledger

Blueprint ==
    /\ At("blueprint")
    /\ job.has_manifest = "yes"
    /\ AppendEvent(Event("curriculum_blueprint_generated"))
    /\ GoTo("oracle")
    /\ UNCHANGED <<reports, local>>

Oracle ==
    /\ At("oracle")
    /\ AppendEvent(OracleEvent(Counts(Shield(job.manifest))))
    /\ GoTo("compile")
    /\ UNCHANGED <<reports, local>>

\* A plausible bug: the passport counts itself.
CountPassportToo ==
    /\ At("compile")
    /\ Readable
    /\ local' = [local EXCEPT !.count = Len(ledger) + 1]
    /\ GoTo("compile_verify")
    /\ UNCHANGED <<ledger, reports>>

\* The passport counts the events (all of one project here) in one reading of the
\* ledger and verifies the chain in the next.
CountEvents ==
    /\ At("compile")
    /\ Readable
    /\ local' = [local EXCEPT !.count = Len(ledger)]
    /\ GoTo("compile_verify")
    /\ UNCHANGED <<ledger, reports>>

VerifyForPassport ==
    /\ At("compile_verify")
    /\ Verified # "malformed"
    /\ local' = [local EXCEPT !.valid = (Verified = "valid")]
    /\ GoTo("recheck")
    /\ UNCHANGED <<ledger, reports>>

\* _append_passport_event verifies again, appends, and only then looks at what it
\* found: an append of another process comes in between unseen.
VerifyForEvent ==
    /\ At("recheck")
    /\ Verified # "malformed"
    /\ local' = [local EXCEPT !.sound = (Verified = "valid")]
    /\ GoTo("passport")
    /\ UNCHANGED <<ledger, reports>>

\* A plausible bug: the verification is forgotten, so nothing is raised.
AppendPassportUnchecked ==
    /\ At("passport")
    /\ AppendEvent(PassportEvent(local.count, local.valid))
    /\ GoTo("score")
    /\ UNCHANGED <<reports, local>>

\* The event is there before a broken chain raises; the third verification, of
\* raise_if_invalid, finds it as broken as the second did.
AppendPassport ==
    /\ At("passport")
    /\ AppendEvent(PassportEvent(local.count, local.valid))
    /\ \/ /\ local.sound
          /\ GoTo("score")
          /\ UNCHANGED <<reports, local>>
       \/ /\ ~local.sound
          /\ Raise

\* A plausible bug: the gate is computed and not recorded.
ScoreWithoutRecord ==
    /\ At("score")
    /\ Readable
    /\ local' = [local EXCEPT !.gate = GateOf(ledger)]
    /\ GoTo("write")
    /\ UNCHANGED <<ledger, reports>>

ScoreEvents ==
    /\ At("score")
    /\ Readable
    /\ local' = [local EXCEPT !.gate = GateOf(ledger)]
    /\ GoTo("gate")
    /\ UNCHANGED <<ledger, reports>>

RecordGate ==
    /\ At("gate")
    /\ AppendEvent(GateEvent(local.gate))
    /\ GoTo("write")
    /\ UNCHANGED <<reports, local>>

WriteReports ==
    /\ At("write")
    /\ reports' =
          [reports EXCEPT
             !["supply_chain"] = [run |-> runs],
             !["risk_report"] = [run |-> runs, payload |-> "passed"],
             !["passport"] = [run |-> runs, valid |-> local.valid],
             !["lifecycle"] = [run |-> runs, status |-> job.lifecycle],
             !["diff_proof"] = [run |-> runs]]
    /\ GoTo("diff")
    /\ UNCHANGED <<ledger, local>>

AppendDiffProof ==
    /\ At("diff")
    /\ AppendEvent(Event("diff_free_pr_evidence"))
    /\ reports' = IF job.has_manifest = "yes"
                  THEN [reports EXCEPT !["oracle"] = [run |-> runs]]
                  ELSE reports
    /\ GoTo("verify")
    /\ UNCHANGED local

\* Both verifications write verification.json: before the pack, and after the
\* last event.
WriteVerification ==
    /\ Verified # "malformed"
    /\ reports' = [reports EXCEPT !["verification"] =
                      [run |-> runs, valid |-> (Verified = "valid"),
                       event_count |-> SoundEvents]]

\* A plausible bug: a verification that is there is not made again.
VerifyForPackIfNone ==
    /\ At("verify")
    /\ IF Present("verification") THEN UNCHANGED reports ELSE WriteVerification
    /\ GoTo(IF job.generate_pack THEN "pack" ELSE "comment")
    /\ UNCHANGED <<ledger, local>>

VerifyForPack ==
    /\ At("verify")
    /\ WriteVerification
    /\ GoTo(IF job.generate_pack THEN "pack" ELSE "comment")
    /\ UNCHANGED <<ledger, local>>

\* A plausible change: the pack is given the gate of the run that builds it.
EvidenceOfThisRun(gaps) ==
    [payload |-> "passed", chain_valid |-> Verified = "valid", gate |-> local.gate,
     passport |-> IF local.valid THEN "present_valid" ELSE "present_invalid",
     lifecycle |-> job.lifecycle, supply |-> "generated", gaps |-> gaps,
     files |-> EvidenceFiles]

\* _build_pack: everything is read from the reports directory; a missing
\* verification.json is the only reason to look at the ledger.
PackEvidence(gaps) ==
    [payload |-> IF Present("manifest") THEN reports["manifest"].payload
                 ELSE IF Present("risk_report") THEN reports["risk_report"].payload
                 ELSE "unknown",
     chain_valid |-> IF Present("verification") THEN reports["verification"].valid
                     ELSE Verified = "valid",
     gate |-> IF Present("manifest") THEN reports["manifest"].gate ELSE "UNKNOWN",
     passport |-> IF ~Present("passport") THEN "missing"
                  ELSE IF reports["passport"].valid THEN "present_valid"
                  ELSE "present_invalid",
     lifecycle |-> IF Present("lifecycle") THEN reports["lifecycle"].status
                   ELSE "UNKNOWN",
     supply |-> IF Present("manifest") \/ Present("supply_chain") THEN "generated"
                ELSE "missing",
     gaps |-> gaps,
     files |-> {f \in EvidenceFiles :
                  \/ f = "risk_report" /\ Present("risk_report")
                  \/ f = "compliance_passport" /\ Present("passport")
                  \/ f = "verification" /\ Present("verification")
                  \/ f = "pr_comment" /\ Present("pr_comment")
                  \/ f = "supply_chain_manifest" /\ Present("supply_chain")}]

\* hash_chain_event_count: how many events that verification speaks of.
VerifiedEvents ==
    IF Present("verification") THEN reports["verification"].event_count
    ELSE SoundEvents

WritePack(run, gaps) ==
    reports' = [reports EXCEPT !["pack"] =
                  [run |-> run, evidence |-> PackEvidence(gaps), event_count |-> VerifiedEvents]]

BuildPack ==
    /\ At("pack")
    /\ WritePack(runs, job.gaps)
    /\ local' = [local EXCEPT !.readiness = Status(PackEvidence(job.gaps))]
    /\ GoTo("comment")
    /\ UNCHANGED ledger

WriteComment ==
    /\ At("comment")
    /\ reports' = [reports EXCEPT !["pr_comment"] = [run |-> runs]]
    /\ GoTo("export")
    /\ UNCHANGED <<ledger, local>>

\* A plausible bug: verification.json is attested before it is rewritten.
ExportedTooEarly ==
    {"risk_report", "passport", "lifecycle", "diff_proof", "supply_chain", "pr_comment",
     "verification"}

\* The files whose hashes the export event records: all of this run's, but
\* verification.json, which is still to be rewritten, and manifest.json.
Exported ==
    {"risk_report", "passport", "lifecycle", "diff_proof", "supply_chain", "pr_comment"}
        \cup (IF job.has_manifest = "yes" THEN {"oracle"} ELSE {})
        \cup (IF job.generate_pack THEN {"pack"} ELSE {})

AppendExport ==
    /\ At("export")
    /\ AppendEvent(ExportEvent([f \in Exported |-> reports[f]]))
    /\ GoTo("final_verify")
    /\ UNCHANGED <<reports, local>>

FinalVerify ==
    /\ At("final_verify")
    /\ WriteVerification
    /\ GoTo("manifest")
    /\ UNCHANGED <<ledger, local>>

WriteManifest ==
    /\ At("manifest")
    /\ reports' = [reports EXCEPT !["manifest"] =
                      [run |-> runs, gate |-> local.gate, payload |-> "passed"]]
    /\ End(ExitCode(ManifestReport), TRUE)
    /\ UNCHANGED <<ledger, job, runs, disturbed>>

\* A plausible bug: verify skips a line that does not parse and never returns.
AppendRaises ==
    /\ ~Readable
    /\ stage \in {"compile", "oracle", "passport", "score", "gate", "diff", "export"}
    /\ Raise
    /\ UNCHANGED ledger

\* A step that reads the ledger raises on a line that does not parse.
LedgerRaises ==
    /\ \/ /\ ~Readable
          /\ stage \in {"compile", "oracle", "passport", "score", "gate", "diff", "export"}
       \/ ~Readable /\ stage \in {"scan", "report"} /\ ~ScanIsRefused
       \/ ~Readable /\ At("blueprint") /\ job.has_manifest = "yes"
       \/ Verified = "malformed" /\ stage \in {"compile_verify", "recheck", "verify", "final_verify"}
    /\ Raise
    /\ UNCHANGED ledger

Generate ==
    \/ Scan \/ InputRaises \/ Blueprint \/ Oracle \/ CountEvents
    \/ VerifyForPassport \/ VerifyForEvent \/ AppendPassport \/ ScoreEvents
    \/ RecordGate \/ WriteReports \/ AppendDiffProof \/ VerifyForPack \/ BuildPack
    \/ WriteComment \/ AppendExport \/ FinalVerify \/ WriteManifest

-----------------------------------------------------------------------------
(* Everything else that happens to the ledger and the reports.             *)

\* mlops-pack build, run by hand between jobs.
BuildPackAlone ==
    /\ At("idle")
    /\ Present("verification") \/ Verified # "malformed"
    /\ WritePack(0, {})
    /\ UNCHANGED <<ledger, stage, job, local, history, runs, disturbed>>

\* The event of the oracle shield command leaves three counts at their default, 0.
CommandCounts(alerts) ==
    [c \in CountNames |-> IF c \in {"benchmark", "lineage", "provenance"} THEN 0
                          ELSE Counts(alerts)[c]]

\* Somebody records an approval, another command its alerts, or what Ledger.tla and
\* a full disk can do to the file.
Disturb ==
    /\ disturbed < MaxDisturb
    /\ disturbed' = disturbed + 1
    /\ \/ /\ "approval" \in Disturbances /\ Readable
          /\ ledger' = Append(ledger, [kind |-> "human_approval_recorded", run |-> 0,
                                       line |-> "sound"])
       \/ /\ "oracle_event" \in Disturbances /\ Readable
          /\ \E j \in Jobs :
                ledger' = Append(ledger, [kind |-> "oracle_shield_run", run |-> 0,
                                          line |-> "sound",
                                          counts |-> CommandCounts(Shield(j.manifest))])
       \/ /\ "fork" \in Disturbances /\ Readable /\ ledger # << >>
          /\ ledger' = Append(ledger, [kind |-> "data_ingest", run |-> 0,
                                       line |-> "unlinked"])
       \/ /\ "garble" \in Disturbances
          /\ ledger' = Append(ledger, [kind |-> "none", run |-> 0, line |-> "malformed"])
    /\ UNCHANGED <<reports, stage, job, local, history, runs>>

Kill ==
    /\ Kills /\ ~At("idle")
    /\ End(-1, FALSE)
    /\ UNCHANGED <<ledger, reports, job, runs, disturbed>>

Next ==
    \/ \E j \in Jobs : Start(j)
    \/ ScanAlone
    \/ Generate
    \/ LedgerRaises
    \/ BuildPackAlone
    \/ Disturb
    \/ Kill

Spec == Init /\ [][Next]_vars

\* A process that runs takes its next step.
FairSpec == Spec /\ WF_vars(ScanAlone \/ Generate \/ LedgerRaises)

-----------------------------------------------------------------------------
(***************************************************************************)
(* Properties.                                                             *)
(***************************************************************************)
Ended == {history[i] : i \in DOMAIN history}
Completed == {h \in Ended : h.completed}

JobOf(r) == IF \E h \in Ended : h.run = r
            THEN (CHOOSE h \in Ended : h.run = r).job
            ELSE job

LinesOf(r, kind) == {i \in DOMAIN ledger : ledger[i].run = r /\ ledger[i].kind = kind}

Stages ==
    {"idle", "scan", "report", "blueprint", "oracle", "compile", "compile_verify", "recheck",
     "passport", "score", "gate", "write", "diff", "verify", "pack", "comment", "export",
     "final_verify", "manifest"}

IsSequence(s) == s \in Seq({s[i] : i \in DOMAIN s})

Gates == {"none", "ADMIT", "ADMIT_WITH_WARNINGS", "BLOCK"}
Statuses == {"not_generated", "block", "review_recommended", "watch", "pass"}

TypeOK ==
    /\ IsSequence(ledger) /\ IsSequence(history)
    /\ DOMAIN reports = ReportFiles
    /\ stage \in Stages
    /\ job \in Jobs
    /\ local \in [count : Nat, valid : BOOLEAN, sound : BOOLEAN, gate : Gates,
                  readiness : Statuses]
    /\ runs \in 0..MaxRuns /\ disturbed \in 0..MaxDisturb
    /\ \A i \in DOMAIN ledger :
          /\ ledger[i].run \in 0..runs
          /\ ledger[i].line \in {"sound", "unlinked", "malformed"}
          /\ ledger[i].kind = "compliance_passport_generated" =>
                /\ ledger[i].run > 0
                /\ ledger[i].chain_valid \in BOOLEAN /\ ledger[i].count \in Nat
          /\ ledger[i].kind = "risk_gate_decision" => ledger[i].run > 0
          /\ ledger[i].kind = "local_artifact_export" =>
                DOMAIN ledger[i].hashes \subseteq ReportFiles \ {"verification", "manifest"}
    /\ \A f \in ReportFiles : reports[f].run \in 0..runs
    /\ Present("verification") =>
          reports["verification"].valid \in BOOLEAN /\ reports["verification"].event_count \in Nat
    /\ Present("pack") => reports["pack"].event_count \in Nat

\* The gate a pack is scored on is never this run's: generate builds the pack
\* before it writes its manifest, so the pack reads the gate of the last run
\* that completed into the same directory, or none.
PackGateLagsOneRun ==
    LET r == reports["pack"].run
        earlier == {h \in Completed : h.run < r}
    IN  r > 0 =>
            reports["pack"].evidence.gate =
                IF earlier = {} THEN "UNKNOWN"
                ELSE (CHOOSE h \in earlier : \A k \in earlier : k.run <= h.run).gate

\* A pack whose chain is valid vouches for the events it counts, all of them
\* sound: for every event of the run that built it but its export.  One that is
\* built by hand may trust a verification that is older than the last events,
\* and then vouches for those before them (MLOpsGovernancePackBuilder.build).
PackVouchesForAPrefix ==
    LET pack == reports["pack"]
    IN  Present("pack") /\ pack.evidence.chain_valid =>
            /\ \A i \in 1..pack.event_count :
                  i \in DOMAIN ledger /\ ledger[i].line = "sound"
            /\ pack.run > 0 =>
                  \A i \in LinesOf(pack.run, "diff_free_pr_evidence") : i <= pack.event_count

\* When a run has completed, and until another one starts, the export event it
\* left in the ledger attests the reports that are there: no file it hashed
\* was written again, and none is left from an earlier or a killed run (a pack
\* rebuilt by hand apart).
ExportAttestsReports ==
    \A h \in Completed :
        h.run = runs =>
            \E i \in LinesOf(h.run, "local_artifact_export") :
                \A f \in DOMAIN ledger[i].hashes :
                    \/ reports[f] = ledger[i].hashes[f] /\ reports[f].run = h.run
                    \/ f = "pack" /\ reports[f].run = 0

\* The gate a run records is the one the policy simulator predicts for its
\* manifest, whatever earlier runs and passports are in the ledger, unless
\* another process's oracle event came in between.
GateMatchesSimulation ==
    \A g \in DOMAIN ledger : \A o \in 1..(g - 1) :
        /\ ledger[g].kind = "risk_gate_decision"
        /\ ledger[o].kind = "oracle_shield_run" /\ ledger[o].run = ledger[g].run
        /\ \A i \in (o + 1)..(g - 1) : ledger[i].kind # "oracle_shield_run"
        => ledger[g].gate = PredictedGate(JobOf(ledger[g].run).manifest)

\* A run that completes has not published over a chain it saw broken: the events
\* its passport counts are all sound, and the passport says so; and under
\* block_on_release_risk with a pack, a run that exits 0 had no broken link before
\* its diff-free event (LocalCIArtifactGenerator).
BrokenChainStopsRelease ==
    \A h \in Completed :
        /\ \A p \in LinesOf(h.run, "compliance_passport_generated") :
              /\ ledger[p].chain_valid
              /\ \A i \in 1..ledger[p].count : ledger[i].line = "sound"
        /\ h.job.policy = "block_on_release_risk" /\ h.job.generate_pack /\ h.code = 0 =>
              \A i \in DOMAIN ledger : \A p \in LinesOf(h.run, "diff_free_pr_evidence") :
                  ledger[i].line = "unlinked" => p < i

\* A passport speaks of a prefix of the ledger that has every event its run
\* appended before it, though it counts and verifies in two readings: if it says
\* that the chain is valid the events it counts are, and if it says it is not, a
\* line before its own is broken (compile_compliance_passport, generate).
PassportCountsWhatItVouchesFor ==
    \A p \in DOMAIN ledger :
        ledger[p].kind = "compliance_passport_generated" =>
            LET event == ledger[p]
            IN  /\ event.count < p
                /\ \A i \in (event.count + 1)..(p - 1) : ledger[i].run # event.run
                /\ event.chain_valid => \A i \in 1..event.count : ledger[i].line = "sound"
                /\ ~event.chain_valid => \E i \in 1..(p - 1) : ledger[i].line # "sound"

Pipeline(j) ==
    IF j.command = "scan" THEN <<"ci_scan">>
    ELSE <<"ci_scan">>
         \o (IF j.has_manifest = "no" THEN << >>
             ELSE <<"curriculum_blueprint_generated", "oracle_shield_run">>)
         \o <<"compliance_passport_generated", "risk_gate_decision",
              "diff_free_pr_evidence", "local_artifact_export">>

LinesOfRun(r) == {i \in DOMAIN ledger : ledger[i].run = r}

\* Line i is the PlaceInRun(i)-th of its run.
PlaceInRun(i) == Cardinality({k \in 1..i : ledger[k].run = ledger[i].run})

\* However a run ends, what it leaves in the ledger is the beginning of its
\* pipeline in order, and all of it once its manifest is there: no event is
\* duplicated, skipped or overtaken.
EvidenceIsAPrefix ==
    \A r \in 1..runs :
        LET all == Pipeline(JobOf(r))
        IN  /\ \A i \in LinesOfRun(r) :
                  PlaceInRun(i) \in DOMAIN all /\ ledger[i].kind = all[PlaceInRun(i)]
            /\ (\E h \in Completed : h.run = r) => Cardinality(LinesOfRun(r)) = Len(all)

\* A run that is not killed, which ends it too, comes to its end, whatever is in
\* the ledger and the reports (generate).
RunsEnd == \A r \in 1..MaxRuns :
    (stage # "idle" /\ runs = r) ~> (\E h \in Ended : h.run = r)

\* docs/GITHUB_ACTION.md:55: "`block_on_high_risk`: fail on high-risk metadata
\* findings."
HighRiskFails ==
    \A h \in Completed :
        h.job.policy = "block_on_high_risk" /\ h.job.metadata = "high_risk" => h.code = 1

-----------------------------------------------------------------------------
(***************************************************************************)
(* The invariant the proofs rest on.                                       *)
(***************************************************************************)
\* The runs that ended are those before the one that runs, each once.
RunsAreNumbered ==
    /\ \A h \in Ended : h.run \in 1..runs /\ h.job \in Jobs
    /\ \A h, k \in Ended : h.run = k.run => h = k
    /\ stage # "idle" => runs > 0 /\ \A h \in Ended : h.run < runs
    /\ \A r \in 1..runs : (\E h \in Ended : h.run = r) \/ (r = runs /\ stage # "idle")

FromFinalVerify == {"final_verify", "manifest"}
FromExport == {"export"} \cup FromFinalVerify
FromComment == {"comment"} \cup FromExport
FromVerify == {"verify", "pack"} \cup FromComment
FromDiff == {"diff"} \cup FromVerify
FromScore == {"score", "gate", "write"} \cup FromDiff

\* What generate knows of the ledger between two of its steps.
PassportWasRead ==
    /\ stage \in {"compile_verify", "recheck", "passport"} =>
          /\ local.count <= Len(ledger)
          /\ \A i \in (local.count + 1)..Len(ledger) : ledger[i].run # runs
    /\ stage \in {"recheck", "passport"} =>
          /\ local.valid => \A i \in 1..local.count : ledger[i].line = "sound"
          /\ ~local.valid => \E i \in DOMAIN ledger : ledger[i].line # "sound"

\* A chain that was found sound when the event was made was sound when the
\* passport was, so every passport of a run that goes on says valid.
PassportWasOnASoundChain ==
    /\ stage = "passport" /\ local.sound => local.valid
    /\ stage # "idle" =>
          \A p \in LinesOf(runs, "compliance_passport_generated") :
              stage \in FromScore /\ ledger[p].chain_valid

\* A verification that says valid stays true of the events it counts, and the
\* one a pack is built on counts all of the run's but its export.
VerificationHolds ==
    /\ Present("verification") /\ reports["verification"].valid =>
          \A i \in 1..reports["verification"].event_count :
              i \in DOMAIN ledger /\ ledger[i].line = "sound"
    /\ stage = "pack" =>
          /\ reports["verification"].run = runs
          /\ reports["verification"].valid =>
                \A i \in LinesOf(runs, "diff_free_pr_evidence") :
                    i <= reports["verification"].event_count

\* Which reports are of the run under way, stage by stage.
ReportsOfThisRun ==
    /\ stage \in FromDiff =>
          \A f \in {"risk_report", "passport", "lifecycle", "diff_proof", "supply_chain"} :
              reports[f].run = runs
    /\ stage \in FromVerify /\ job.has_manifest = "yes" => reports["oracle"].run = runs
    /\ stage \in FromComment /\ job.generate_pack =>
          /\ Present("pack") /\ reports["pack"].run = runs
          /\ local.readiness # "block" => reports["pack"].evidence.chain_valid
    /\ stage \in FromExport => reports["pr_comment"].run = runs
    /\ stage \notin FromComment \cup {"idle"} => reports["pack"].run < runs

\* The manifest is the one of the last run that completed.
ManifestIsTheLast ==
    IF Present("manifest")
    THEN \E h \in Completed :
            /\ reports["manifest"].run = h.run /\ reports["manifest"].gate = h.gate
            /\ \A k \in Completed : k.run <= h.run
    ELSE Completed = {}

Attested(r) ==
    \E i \in LinesOf(r, "local_artifact_export") :
        \A f \in DOMAIN ledger[i].hashes :
            \/ reports[f] = ledger[i].hashes[f] /\ reports[f].run = r
            \/ f = "pack" /\ reports[f].run = 0

ExportIsCurrent == stage \in FromFinalVerify => Attested(runs)

\* The gate that was computed is the one of the last oracle event, if that is
\* still the last and of this run.
GateIsOfThisRun ==
    /\ \A i \in DOMAIN ledger :
          ledger[i].kind = "oracle_shield_run" /\ ledger[i].run > 0 =>
              ledger[i].counts = Counts(Shield(JobOf(ledger[i].run).manifest))
    /\ stage = "gate" =>
          \A o \in LinesOf(runs, "oracle_shield_run") :
              (\A i \in (o + 1)..Len(ledger) : ledger[i].kind # "oracle_shield_run")
                  => local.gate = PredictedGate(job.manifest)

\* The events a run has appended when it comes to a stage.
Appended(s, j) ==
    LET before == IF j.has_manifest = "no" THEN 1 ELSE 3
    IN  CASE s \in {"scan", "report"} -> 0
          [] s = "blueprint" -> 1
          [] s = "oracle" -> 2
          [] s \in {"compile", "compile_verify", "recheck", "passport"} -> before
          [] s \in {"score", "gate"} -> before + 1
          [] s \in {"write", "diff"} -> before + 2
          [] s \in {"verify", "pack", "comment", "export"} -> before + 3
          [] s \in {"final_verify", "manifest"} -> before + 4

EvidenceIsCounted ==
    stage # "idle" =>
        /\ Cardinality(LinesOfRun(runs)) = Appended(stage, job)
        /\ stage = "scan" <=> job.command = "scan"
        /\ stage \in {"blueprint", "oracle"} => job.has_manifest # "no"

CIInvariant ==
    /\ TypeOK /\ RunsAreNumbered
    /\ PassportWasRead /\ PassportCountsWhatItVouchesFor
    /\ PassportWasOnASoundChain /\ BrokenChainStopsRelease
    /\ VerificationHolds /\ PackVouchesForAPrefix
    /\ ReportsOfThisRun /\ ManifestIsTheLast /\ PackGateLagsOneRun
    /\ ExportIsCurrent /\ ExportAttestsReports
    /\ GateIsOfThisRun /\ GateMatchesSimulation
    /\ EvidenceIsCounted /\ EvidenceIsAPrefix
=============================================================================
