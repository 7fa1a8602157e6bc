CONSTANTS
    Param <- Settings
    Kind <- SomeBundles
    THRESHOLD = 1
    MaxBundles = 3
    MaxIdle = 1
SPECIFICATION Spec
INVARIANTS
    EventsMatchRequests
    OwnStatistics
    BundlesReturn
CHECK_DEADLOCK FALSE
