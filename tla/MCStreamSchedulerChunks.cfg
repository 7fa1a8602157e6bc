CONSTANTS
    Dims <- TwoByTwo
    QueuesPerDim = 2
    ActiveChunks = 4
    Splits = 4
    Collectives <- OneAllReduce
    Lifo = FALSE
    Baseline = FALSE
SPECIFICATION Spec
INVARIANTS
    NoDeadlock
CONSTRAINTS
    LockstepInOrder
CHECK_DEADLOCK FALSE
