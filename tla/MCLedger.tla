------------------------------ MODULE MCLedger ------------------------------
(* Small instances of Ledger: two writers, one or two events each. *)
EXTENDS Ledger, TLC

CONSTANTS w1, w2, e1, e2

TwoWriters == {w1, w2}
OneEventEach == {e1}
TwoEventsEach == {e1, e2}

NoFaults == {}
AllFaults == {"kill", "torn_write", "power_loss"}
=============================================================================
