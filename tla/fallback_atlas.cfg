SPECIFICATION Spec
CONSTANTS
    p1 = p1
    p2 = p2
    Process <- TwoProcesses
    MaxStarts = 3
SYMMETRY ProcessesAlike
INVARIANTS
    HalfBuiltIsAbandoned
    StartMendsTheFallback
    PatchedAsChecked
\* The processes stop when they have been started often enough.
CHECK_DEADLOCK FALSE
