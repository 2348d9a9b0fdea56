SPECIFICATION FairSpec
CONSTANTS
    Jobs <- SomeJobs
    MaxRuns = 2
    Disturbances <- AnyDisturbance
    MaxDisturb = 1
    Kills = TRUE
INVARIANTS
    EvidenceIsAPrefix
    PackVouchesForAPrefix
    PackGateLagsOneRun
    ExportAttestsReports
    GateMatchesSimulation
    BrokenChainStopsRelease
    PassportCountsWhatItVouchesFor
PROPERTY
    RunsEnd
\* The jobs stop when MaxRuns have been started.
CHECK_DEADLOCK FALSE
