SPECIFICATION FairTrainingSpec
CONSTANTS
    w1 = w1
    w2 = w2
    Writer <- TwoWriters
    RayWorker <- OneOnRay
    DatasetRef <- OneBucket
    MaxEvents = 2
    MaxLives = 2
    MaxFailures = 3
    EventId <- TrainingEvent
    Exclusive = FALSE
    Faults <- AllFaults
INVARIANTS
    TrainingTypeOK
    ParentsPrecede
    SiblingsHaveDistinctWriters
    AckedEventsStay
    ExposuresNameAnIngest
PROPERTIES
    DefectsStay
    AppendReturns
\* The writers stop when they have appended all their events.
CHECK_DEADLOCK FALSE
