SPECIFICATION Spec
CONSTANTS
    b1 = b1
    b2 = b2
    b3 = b3
    signed = signed
    Body <- ThreeBodies
    Signature <- Signatures
    MaxEdits = 2
INVARIANTS
    UndetectedOnlyTruncation
    ReportLocatesDamage
    LoopComputesVerify
\* A verification that has returned is the end of a behaviour.
CHECK_DEADLOCK FALSE
