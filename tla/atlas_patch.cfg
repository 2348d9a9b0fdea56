SPECIFICATION ReaderSpec
CONSTANTS
    w1 = w1
    w2 = w2
    r1 = r1
    r2 = r2
    d1 = d1
    d2 = d2
    seed = seed
    c1 = c1
    c2 = c2
    Process <- TwoProcesses
    Record <- TwoRecords
    Domain <- TwoDomains
    Content <- Contents
    Reference <- Sources
    SeedContent <- Seeds
    Tag <- Versions
    BuiltTag = "v1"
    BuiltActive <- FirstDomain
    Patches <- ThreePatches
    Cuts = TRUE
    Requests <- ThreeRequests
    Ages <- AFewDays
SYMMETRY ProcessesAlike
INVARIANTS
    NoMixedRecord
    AppliedPatchIsWhole
    OnlyAttemptedPatchesShow
    BirthmarkDescribesAtlas
    HashTellsTheDomains
    LifecycleIsOfAWholePatch
