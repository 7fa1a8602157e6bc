CONSTANTS
    MaxTick = 3
    MaxEvents = 5
SPECIFICATION Spec
INVARIANTS
    OneCallPerList
    PendingExact
PROPERTIES
    ImplementsTimedEvents
    EveryEventCalled
CHECK_DEADLOCK FALSE
