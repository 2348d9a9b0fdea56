----------------------------- MODULE RiskScore -----------------------------
(***************************************************************************)
(* From a run manifest to the risk gate: the structural checks of          *)
(* EclPreFlightShield (ecl_trainer/oracle/shield.py), the counts the       *)
(* oracle event keeps of them, and RiskScoreProcessor.score_events         *)
(* (ecl_trainer/governance.py).  Everything here is a pure function.       *)
(***************************************************************************)
EXTENDS Integers, Sequences, FiniteSets

\* What the checks read of a manifest.  financial: domain selection enabled
\* financial_services; tags: its regulatory_framework_tags.
Manifests ==
    [lineage_loop : BOOLEAN, benchmark_overlap : BOOLEAN, financial : BOOLEAN,
     tags : {"none", "approved", "unapproved"}]

Alert(severity, category, action) ==
    [severity |-> severity, category |-> category, action |-> action]

\* validate_run_manifest.  The alerts are pairwise different, so a set will do.
Findings(m) ==
    (IF m.lineage_loop
     THEN {Alert("CRITICAL", "MODEL_INBREEDING", "QUARANTINE")} ELSE {})
    \cup
    (IF m.benchmark_overlap
     THEN {Alert("CRITICAL", "BENCHMARK_LEAK", "QUARANTINE")} ELSE {})
    \cup
    (IF m.financial /\ m.tags = "unapproved"
     THEN {Alert("CRITICAL", "PROVENANCE_GAP", "QUARANTINE")} ELSE {})
    \cup
    (IF m.financial /\ m.tags = "none"
     THEN {Alert("WARN", "PROVENANCE_GAP", "REVIEW")} ELSE {})

AllClear == Alert("INFO", "TRAINING_LOSS_DIVERGENCE", "ALLOW")

Shield(m) == IF Findings(m) = {} THEN {AllClear} ELSE Findings(m)

-----------------------------------------------------------------------------
CountNames ==
    {"critical", "warn", "review", "quarantine", "benchmark", "lineage", "provenance"}

NoCounts == [c \in CountNames |-> 0]

\* The counters one alert is counted in.
CountedIn(alert) ==
    {c \in CountNames :
        \/ c = "critical" /\ alert.severity = "CRITICAL"
        \/ c = "warn" /\ alert.severity = "WARN"
        \/ c = "review" /\ alert.action = "REVIEW"
        \/ c = "quarantine" /\ alert.action = "QUARANTINE"
        \/ c = "benchmark" /\ alert.category = "BENCHMARK_LEAK"
        \/ c = "lineage" /\ alert.category = "MODEL_INBREEDING"
        \/ c = "provenance" /\ alert.category = "PROVENANCE_GAP"}

\* The counts of an OracleShieldRunEvent.
Counts(alerts) ==
    [c \in CountNames |-> Cardinality({a \in alerts : c \in CountedIn(a)})]

-----------------------------------------------------------------------------
(* score_events, from the counts of the last oracle event (n) and whether  *)
(* the last passport event says the hash chain was valid.                  *)

AtMost(bound, x) == IF x > bound THEN bound ELSE x
AtLeast(bound, x) == IF x < bound THEN bound ELSE x

\* A plausible bug: critical alerts hide the others instead of adding to them.
WorstAlertRisk(n) ==
    AtMost(100, IF n.critical > 0 THEN n.critical * 45
                ELSE n.warn * 20 + n.quarantine * 15 + n.review * 10)

TrainingDataRisk(n) ==
    AtMost(100, n.critical * 45 + n.warn * 20 + n.quarantine * 15 + n.review * 10)

BenchmarkContamination(n) == AtMost(100, n.benchmark * 85 + n.quarantine * 10)

\* A plausible bug: a weight below the threshold it has to reach.
LineageLoopLight(n) == AtMost(100, n.lineage * 60)

LineageLoop(n) == AtMost(100, n.lineage * 90)

ProvenanceCompleteness(n) == AtLeast(0, 100 - n.provenance * 40 - n.review * 15)

\* A plausible bug: the bonus is added without the upper clamp.
ReadinessUnclamped(n, certified) ==
    AtLeast(0, ProvenanceCompleteness(n) - n.critical * 25
                 + (IF certified THEN 10 ELSE 0))

ComplianceReadiness(n, certified) ==
    AtLeast(0, AtMost(100, ProvenanceCompleteness(n) - n.critical * 25
                             + (IF certified THEN 10 ELSE 0)))

RiskGate(n, certified) ==
    IF \/ n.critical > 0 \/ n.quarantine > 0
       \/ BenchmarkContamination(n) >= 80 \/ LineageLoop(n) >= 80
    THEN "BLOCK"
    ELSE IF n.warn > 0 \/ n.review > 0 \/ ComplianceReadiness(n, certified) < 80
         THEN "ADMIT_WITH_WARNINGS"
         ELSE "ADMIT"

OfKind(events, kind) == {i \in DOMAIN events : events[i].kind = kind}

\* A plausible bug: the first event of the ledger is taken, not the last.
FirstOfKind(events, kind) ==
    events[CHOOSE i \in OfKind(events, kind) :
              \A j \in OfKind(events, kind) : i <= j]

LastOfKind(events, kind) ==
    events[CHOOSE i \in OfKind(events, kind) :
              \A j \in OfKind(events, kind) : j <= i]

\* The gate of score_events(events).
GateOf(events) ==
    RiskGate(
        IF OfKind(events, "oracle_shield_run") = {}
        THEN NoCounts
        ELSE LastOfKind(events, "oracle_shield_run").counts,
        /\ OfKind(events, "compliance_passport_generated") # {}
        /\ LastOfKind(events, "compliance_passport_generated").chain_valid)

\* PolicySimulator.simulate: the gate of a ledger with this run alone in it.
PredictedGate(m) ==
    GateOf(<<[kind |-> "oracle_shield_run", counts |-> Counts(Shield(m))]>>)
=============================================================================
