SPECIFICATION Spec
CONSTANTS
    w1 = w1
    w2 = w2
    e1 = e1
    e2 = e2
    Writer <- TwoWriters
    EventId <- TwoEventsEach
    Exclusive = TRUE
    Faults <- AllFaults
PROPERTY
    ImplementsLossyChain
\* The writers stop when they have appended all their events.
CHECK_DEADLOCK FALSE
