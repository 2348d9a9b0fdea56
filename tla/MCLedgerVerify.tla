--------------------------- MODULE MCLedgerVerify ---------------------------
(* Ledgers of up to three events, signed or not, damaged twice. *)
EXTENDS LedgerVerify

CONSTANTS b1, b2, b3, signed
ThreeBodies == {b1, b2, b3}
Signatures == {NoSignature, signed}
=============================================================================
