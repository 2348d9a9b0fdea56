SPECIFICATION GateSpec
CONSTANT
    MaxAlerts = 4
INVARIANT
    GateIsWorstAlert
PROPERTY
    AlertsNeverHelp
