-------------------------- MODULE MCReadinessDrift --------------------------
(* The largest and the smallest gap penalty; one file that comes and goes. *)
EXTENDS ReadinessDrift

TwoGaps == {"TRAINING_DATA_PROVENANCE_GAP", "PIPELINE_TAG_MISSING"}
OneFile == {"pr_comment"}
=============================================================================
