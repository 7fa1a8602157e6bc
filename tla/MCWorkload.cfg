CONSTANTS
    Node <- NodeValue
    Trace <- AllTraces
    Roofline = TRUE
    ReplayOnly = FALSE
    SyncRecv = {TRUE, FALSE}
SPECIFICATION Spec
INVARIANTS
    SlotsExclusive
    DependencyOrder
    FinishedMeansAllEnded
PROPERTIES
    Terminates
CHECK_DEADLOCK FALSE
