------------------------------ MODULE MCCIRun ------------------------------
(* Inputs for CIRun: each run of TLC takes the jobs its question needs. *)
EXTENDS CIRun

CleanManifest == [lineage_loop |-> FALSE, benchmark_overlap |-> FALSE,
                  financial |-> TRUE, tags |-> "approved"]
UntaggedManifest == [CleanManifest EXCEPT !.tags = "none"]
LeakManifest == [CleanManifest EXCEPT !.benchmark_overlap = TRUE]

BaseJob == [command |-> "report", policy |-> "block_on_release_risk",
            metadata |-> "pass", has_manifest |-> "yes", manifest |-> CleanManifest,
            lifecycle |-> "CURRENT", generate_pack |-> TRUE, gaps |-> {}]

\* A clean and a leaking run, and one without a manifest, with evidence bad
\* enough to block on the leak before it; and the inputs that end a run early.
ReportJobs ==
    {BaseJob,
     [BaseJob EXCEPT !.manifest = LeakManifest, !.policy = "report_only",
                     !.generate_pack = FALSE],
     [BaseJob EXCEPT !.manifest = UntaggedManifest, !.has_manifest = "no",
                     !.lifecycle = "STALE", !.gaps = {"TRAINING_DATA_PROVENANCE_GAP"}]}
EarlyEnds ==
    {[BaseJob EXCEPT !.has_manifest = "refused"], [BaseJob EXCEPT !.metadata = "unparsable"]}
        \cup {[BaseJob EXCEPT !.command = "scan", !.metadata = m] :
                m \in {"high_risk", "payload", "unparsable"}}
SomeJobs == ReportJobs \cup EarlyEnds

\* Every policy and every kind of scanned metadata, for both commands.
PolicyJobs ==
    {[BaseJob EXCEPT !.command = c, !.policy = p, !.metadata = m, !.has_manifest = h] :
        c \in {"report", "scan"}, p \in Policies,
        m \in {"pass", "high_risk", "payload", "unparsable"}, h \in {"no", "refused"}}

NoDisturbances == {}
AnyDisturbance == {"approval", "oracle_event", "fork", "garble"}
=============================================================================
