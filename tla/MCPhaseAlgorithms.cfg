CONSTANTS
    RingConfig <- RingsAndDirect
    HalvingConfig <- UpToFour
    TreeConfig <- UpToEight
    CustomConfig <- Collectives
SPECIFICATION Spec
INVARIANTS
    NothingOutstanding
    ReducedBeforeGathered
    BookkeepingExact
PROPERTIES
    ImplementsPhase
CHECK_DEADLOCK FALSE
