CONSTANTS
    Config <- Runs
    MaxTick = 5
    TickRange = 65536
SPECIFICATION Spec
INVARIANTS
    OverlapExact
    ExposedExact
    PeakExact
CHECK_DEADLOCK FALSE
