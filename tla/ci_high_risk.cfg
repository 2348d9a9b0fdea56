SPECIFICATION Spec
CONSTANTS
    Jobs <- PolicyJobs
    MaxRuns = 1
    Disturbances <- NoDisturbances
    MaxDisturb = 0
    Kills = FALSE
INVARIANT
    HighRiskFails
\* The jobs stop when MaxRuns have been started.
CHECK_DEADLOCK FALSE
