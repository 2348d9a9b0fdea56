SPECIFICATION DriftSpec
CONSTANTS
    SomeGaps <- TwoGaps
    SomeFiles <- OneFile
INVARIANTS
    NoSilentRegression
    PassVouchesForEvidence
