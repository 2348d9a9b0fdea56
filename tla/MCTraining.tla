----------------------------- MODULE MCTraining -----------------------------
(* Two training processes, one on Ray, whose references differ below the same location. *)
EXTENDS TrainingRun, TLC

CONSTANTS w1, w2

TwoWriters == {w1, w2}
OneOnRay == {w2}
AllFaults == {"kill", "torn_write", "power_loss"}

OneBucket == [w \in Writer |-> [root |-> "bucket", rest |-> w]]
=============================================================================
