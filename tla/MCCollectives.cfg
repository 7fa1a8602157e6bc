CONSTANTS
    Case <- Cases
    MaxCount = 12
    Scenario <- Scenarios
    GroupRange = 4
    IntRange = 32
SPECIFICATION Spec
INVARIANTS
    DatasetCountsStreams
    ChunksCompose
    TopologiesAgree
    RanksAgree
    
CHECK_DEADLOCK FALSE
