---------------------------- MODULE MCRemoteCalls ----------------------------
(* Two jobs on one pull request and one caller with two events. *)
EXTENDS RemoteCalls

CONSTANTS j1, j2, c1

TwoJobs == {j1, j2}
OneCaller == {c1}
TwoEvents == <<"data_ingest", "training_checkpoint">>
=============================================================================
