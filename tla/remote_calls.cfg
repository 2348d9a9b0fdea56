SPECIFICATION RemoteSpec
CONSTANTS
    j1 = j1
    j2 = j2
    c1 = c1
    Job <- TwoJobs
    Caller <- OneCaller
    Event <- TwoEvents
    PageSize = 1
    MaxAttempts = 3
    MaxComments = 2
INVARIANTS
    OneReportUnlessMissed
    LatestReportStays
    ReturnedMeansRecorded
    CopiesAreRaisedCalls
\* The clients stop when they have made all their calls.
CHECK_DEADLOCK FALSE
