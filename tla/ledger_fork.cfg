SPECIFICATION Spec
CONSTANTS
    w1 = w1
    w2 = w2
    e1 = e1
    e2 = e2
    Writer <- TwoWriters
    EventId <- OneEventEach
    Exclusive = FALSE
    Faults <- NoFaults
INVARIANT
    EveryEventLinksToThePrevious
\* The writers stop when they have appended all their events.
CHECK_DEADLOCK FALSE
