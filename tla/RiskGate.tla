------------------------------ MODULE RiskGate ------------------------------
(***************************************************************************)
(* The counts of one oracle event, alert by alert, and the passport that   *)
(* may be recorded beside it: what each does to the scores and the gate of *)
(* RiskScoreProcessor (ecl_trainer/governance.py).  The alerts are any     *)
(* that ShieldRiskAlert can express, not only those of today's checks.     *)
(***************************************************************************)
EXTENDS RiskScore

CONSTANT MaxAlerts      \* bound: the alerts of one run

ASSUME GateAssumption == MaxAlerts \in Nat

VARIABLES
    counts,     \* the counters of the oracle event
    alerts,     \* how many alerts were counted
    certified   \* the last passport event says the chain was valid

gateVars == <<counts, alerts, certified>>

GateInit == counts = NoCounts /\ alerts = 0 /\ certified = FALSE

Alerts ==
    {Alert(s, c, a) :
        s \in {"INFO", "WARN", "CRITICAL"},
        c \in {"MODEL_INBREEDING", "BENCHMARK_LEAK", "TRAINING_LOSS_DIVERGENCE",
               "LICENSE_GAP", "PROVENANCE_GAP"},
        a \in {"ALLOW", "REVIEW", "QUARANTINE"}}

CountAlert(alert) ==
    /\ alerts < MaxAlerts
    /\ counts' = [c \in CountNames |->
                    counts[c] + (IF c \in CountedIn(alert) THEN 1 ELSE 0)]
    /\ alerts' = alerts + 1
    /\ UNCHANGED certified

RecordPassport(valid) ==
    /\ certified' = valid
    /\ UNCHANGED <<counts, alerts>>

GateNext ==
    \/ \E alert \in Alerts : CountAlert(alert)
    \/ \E valid \in BOOLEAN : RecordPassport(valid)

GateSpec == GateInit /\ [][GateNext]_gateVars

-----------------------------------------------------------------------------
GateTypeOK ==
    /\ counts \in [CountNames -> Nat]
    /\ alerts \in Nat
    /\ certified \in BOOLEAN

\* The weights and thresholds of score_events amount to a table: one alert
\* that is critical, quarantines, leaks a benchmark or closes a lineage loop
\* blocks; else one that warns, asks for a review or reports a provenance gap
\* warns.  In particular the passport bonus never moves the gate.
GateIsWorstAlert ==
    LET Some(names) == \E c \in names : counts[c] > 0
    IN  RiskGate(counts, certified) =
            IF Some({"critical", "quarantine", "benchmark", "lineage"})
            THEN "BLOCK"
            ELSE IF Some({"warn", "review", "provenance"})
                 THEN "ADMIT_WITH_WARNINGS"
                 ELSE "ADMIT"

\* However many alerts there are, every score of the scorecard is a percentage.
ScoresArePercentages ==
    {TrainingDataRisk(counts), BenchmarkContamination(counts), LineageLoop(counts),
     ProvenanceCompleteness(counts), ComplianceReadiness(counts, certified)}
        \subseteq 0..100

\* How much a gate holds back.
Severity(gate) ==
    CASE gate = "ADMIT" -> 0 [] gate = "ADMIT_WITH_WARNINGS" -> 1 [] gate = "BLOCK" -> 2

\* One more alert never makes a run look better on any score, nor relaxes its
\* gate.
AlertsNeverHelp ==
    [][certified' = certified =>
          /\ TrainingDataRisk(counts) <= TrainingDataRisk(counts')
          /\ BenchmarkContamination(counts) <= BenchmarkContamination(counts')
          /\ LineageLoop(counts) <= LineageLoop(counts')
          /\ ProvenanceCompleteness(counts) >= ProvenanceCompleteness(counts')
          /\ ComplianceReadiness(counts, certified)
                >= ComplianceReadiness(counts', certified)
          /\ Severity(RiskGate(counts, certified))
                <= Severity(RiskGate(counts', certified))]_gateVars
=============================================================================
