CONSTANTS
    Case <- CustomSplit
    MaxCount = 12
    Scenario = {}
    GroupRange = 4
    IntRange = 32
SPECIFICATION Spec
INVARIANT DatasetCountsStreams
CHECK_DEADLOCK FALSE
