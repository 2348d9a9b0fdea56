--------------------------- MODULE MCFallbackAtlas ---------------------------
(* Two processes, started three times in all, each with either path. *)
EXTENDS FallbackAtlas, TLC

CONSTANTS p1, p2

TwoProcesses == {p1, p2}
ProcessesAlike == Permutations(TwoProcesses)
=============================================================================
