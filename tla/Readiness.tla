------------------------------ MODULE Readiness ------------------------------
(***************************************************************************)
(* The readiness score of MLOpsGovernancePackBuilder and the drift between *)
(* two packs (ecl_trainer/mlops_pack.py), as pure functions.               *)
(*                                                                         *)
(* The evidence of a pack is a record: what _build_pack read of the        *)
(* reports directory, the catalog gaps, and the evidence files present.    *)
(***************************************************************************)
EXTENDS Integers

Gaps ==
    {"TRAINING_DATA_PROVENANCE_GAP", "EVAL_METADATA_GAP",
     "EVAL_RESULTS_TAG_WITHOUT_MODEL_INDEX", "LICENSE_FILE_NOT_LISTED",
     "LANGUAGE_METADATA_GAP", "PIPELINE_TAG_MISSING"}

EvidenceFiles ==
    {"risk_report", "compliance_passport", "verification", "pr_comment",
     "supply_chain_manifest"}

Evidence ==
    [payload : {"passed", "failed", "unknown"},
     chain_valid : BOOLEAN,
     gate : {"ADMIT", "ADMIT_WITH_WARNINGS", "BLOCK", "UNKNOWN"},
     passport : {"present_valid", "present_invalid", "missing"},
     lifecycle : {"CURRENT", "STALE", "MUTED", "UNKNOWN"},
     supply : {"generated", "missing"},
     gaps : SUBSET Gaps,
     files : SUBSET EvidenceFiles]

-----------------------------------------------------------------------------
(* _score_readiness and _status_for.                                       *)

Deduct(condition, points) == IF condition THEN points ELSE 0

GapDeductions(gaps) ==
    Deduct("TRAINING_DATA_PROVENANCE_GAP" \in gaps, 15)
    + Deduct("EVAL_METADATA_GAP" \in gaps, 10)
    + Deduct("EVAL_RESULTS_TAG_WITHOUT_MODEL_INDEX" \in gaps, 10)
    + Deduct("LICENSE_FILE_NOT_LISTED" \in gaps, 10)
    + Deduct("LANGUAGE_METADATA_GAP" \in gaps, 5)
    + Deduct("PIPELINE_TAG_MISSING" \in gaps, 5)

Deductions(e) ==
    Deduct(e.gate = "BLOCK", 40)
    + Deduct(e.gate = "ADMIT_WITH_WARNINGS", 15)
    + Deduct(e.passport # "present_valid", 20)
    + Deduct(e.lifecycle = "STALE", 10)
    + Deduct(e.supply # "generated", 10)
    + GapDeductions(e.gaps)

\* Nothing is ever added to 100, so only the lower clamp of the code acts.
Score(e) ==
    LET left == (IF e.chain_valid THEN 100 ELSE 40) - Deductions(e)
    IN  IF e.payload = "failed" \/ left < 0 THEN 0 ELSE left

HardBlock(e) == e.payload = "failed" \/ ~e.chain_valid

\* A plausible bug: a "pass" threshold that a single blocking penalty reaches.
LenientStatus(e) ==
    IF HardBlock(e) \/ Score(e) < 50 THEN "block"
    ELSE IF Score(e) >= 80 THEN "pass"
    ELSE IF Score(e) >= 70 THEN "watch"
    ELSE "review_recommended"

Status(e) ==
    IF HardBlock(e) \/ Score(e) < 50 THEN "block"
    ELSE IF Score(e) >= 85 THEN "pass"
    ELSE IF Score(e) >= 70 THEN "watch"
    ELSE "review_recommended"

-----------------------------------------------------------------------------
(* compare: the drift from a previous pack p to the current pack e.        *)

StatusRank(status) ==
    CASE status = "block" -> 0 [] status = "review_recommended" -> 1
      [] status = "watch" -> 2 [] status = "pass" -> 3

GateRank(gate) ==
    CASE gate = "BLOCK" -> 0 [] gate \in {"ADMIT_WITH_WARNINGS", "UNKNOWN"} -> 1
      [] gate = "ADMIT" -> 2

LifecycleRank(lifecycle) ==
    CASE lifecycle = "STALE" -> 0 [] lifecycle = "UNKNOWN" -> 1
      [] lifecycle = "MUTED" -> 2 [] lifecycle = "CURRENT" -> 3

\* A plausible change: a small loss of the score is tolerated.
RegressedALot(p, e) ==
    \/ StatusRank(Status(e)) < StatusRank(Status(p))
    \/ Score(e) < Score(p) - 10
    \/ LifecycleRank(e.lifecycle) < LifecycleRank(p.lifecycle)
    \/ GateRank(e.gate) < GateRank(p.gate)
    \/ ~(p.files \subseteq e.files)
    \/ ~(e.gaps \subseteq p.gaps)

Regressed(p, e) ==
    \/ StatusRank(Status(e)) < StatusRank(Status(p))
    \/ Score(e) < Score(p)
    \/ LifecycleRank(e.lifecycle) < LifecycleRank(p.lifecycle)
    \/ GateRank(e.gate) < GateRank(p.gate)
    \/ ~(p.files \subseteq e.files)
    \/ ~(e.gaps \subseteq p.gaps)

\* A plausible bug: ">=" for ">", so an equal score counts as improved.
NotWorse(p, e) ==
    \/ Score(e) >= Score(p)
    \/ ~(p.gaps \subseteq e.gaps)
    \/ StatusRank(Status(e)) > StatusRank(Status(p))

Improved(p, e) ==
    \/ Score(e) > Score(p)
    \/ ~(p.gaps \subseteq e.gaps)
    \/ StatusRank(Status(e)) > StatusRank(Status(p))

Trend(p, e) ==
    IF Regressed(p, e) THEN "regressed"
    ELSE IF Improved(p, e) THEN "improved"
    ELSE "unchanged"
=============================================================================
