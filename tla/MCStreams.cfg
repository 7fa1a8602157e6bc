CONSTANTS
    Dims <- TwoByTwo
    QueuesPerDim = 2
    ActiveChunks = 2
    Splits = 3
    Collectives <- ReduceThenGather
    Lifo = FALSE
    Baseline = FALSE
SPECIFICATION SpecBoth
INVARIANTS
    QueueDisciplineBoth
    CompletionIsBarrierBoth
    OrdersAgreeBoth
PROPERTIES
    CollectivesFinishBoth
CHECK_DEADLOCK FALSE
