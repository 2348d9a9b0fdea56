--------------------------- MODULE ReadinessDrift ---------------------------
(***************************************************************************)
(* A series of governance packs, each compared with the one before         *)
(* (mlops-pack build --previous-pack, ecl_trainer/mlops_pack.py), while    *)
(* one piece of evidence after the other changes.                          *)
(***************************************************************************)
EXTENDS Readiness

CONSTANTS
    SomeGaps,   \* bound: the catalog gaps that come and go
    SomeFiles   \* bound: the evidence files that come and go

ASSUME DriftAssumption ==
    SomeGaps \subseteq Gaps /\ SomeFiles \subseteq EvidenceFiles

VARIABLES
    first,      \* the evidence of the first pack
    current,    \* the evidence of the latest pack
    regressed   \* some build of the series reported "regressed"

driftVars == <<first, current, regressed>>

\* The evidence a clean run leaves.
CleanEvidence ==
    [payload |-> "passed", chain_valid |-> TRUE, gate |-> "ADMIT",
     passport |-> "present_valid", lifecycle |-> "CURRENT", supply |-> "generated",
     gaps |-> {}, files |-> EvidenceFiles]

Vary(e) ==
    {[e EXCEPT !.payload = x] : x \in {"passed", "failed", "unknown"}}
    \cup {[e EXCEPT !.chain_valid = x] : x \in BOOLEAN}
    \cup {[e EXCEPT !.gate = x] :
            x \in {"ADMIT", "ADMIT_WITH_WARNINGS", "BLOCK", "UNKNOWN"}}
    \cup {[e EXCEPT !.passport = x] :
            x \in {"present_valid", "present_invalid", "missing"}}
    \cup {[e EXCEPT !.lifecycle = x] : x \in {"CURRENT", "STALE", "MUTED", "UNKNOWN"}}
    \cup {[e EXCEPT !.supply = x] : x \in {"generated", "missing"}}
    \cup {[e EXCEPT !.gaps = x] : x \in SUBSET SomeGaps}
    \cup {[e EXCEPT !.files = (@ \ SomeFiles) \cup x] : x \in SUBSET SomeFiles}

\* The first pack has seen one or two pieces of evidence change already.
DriftInit ==
    /\ \E e \in Vary(CleanEvidence) : first \in Vary(e)
    /\ current = first
    /\ regressed = FALSE

\* The next build: its snapshot compares it with the pack before.
Build(e) ==
    /\ current' = e
    /\ regressed' = (regressed \/ Trend(current, e) = "regressed")
    /\ UNCHANGED first

DriftNext == \E e \in Vary(current) : Build(e)

DriftSpec == DriftInit /\ [][DriftNext]_driftVars

-----------------------------------------------------------------------------
\* A series of small steps cannot hide a decline: if the last pack is a
\* regression from the first, some build of the series said so (the six
\* comparisons of compare are each an order, the ranks of unknown statuses
\* included).
NoSilentRegression ==
    Trend(first, current) = "regressed" => regressed

\* What improved one way has regressed the other way.
ImprovementHasADirection ==
    Trend(first, current) = "improved" => Trend(current, first) = "regressed"

\* "pass" vouches for this much (_score_readiness, _status_for): no payload was
\* reported, the chain was valid, the gate does not block, and there is a valid
\* passport; and a gate that warns, or a gap in the provenance, is the only thing
\* deducted.  It does not vouch for what deducts nothing (a gate or a payload
\* status that is unknown, an evidence file that is absent), nor for one piece of
\* evidence that deducts 15 or less, or several that add up to it.
PassVouchesForEvidence ==
    Status(current) = "pass" =>
        /\ current.payload # "failed" /\ current.chain_valid
        /\ current.gate # "BLOCK" /\ current.passport = "present_valid"
        /\ current.gate = "ADMIT_WITH_WARNINGS" => current.gaps = {}
        /\ "TRAINING_DATA_PROVENANCE_GAP" \in current.gaps =>
              current.gaps = {"TRAINING_DATA_PROVENANCE_GAP"}
        /\ current.gate = "ADMIT_WITH_WARNINGS"
           \/ "TRAINING_DATA_PROVENANCE_GAP" \in current.gaps =>
              current.lifecycle # "STALE" /\ current.supply = "generated"
=============================================================================
