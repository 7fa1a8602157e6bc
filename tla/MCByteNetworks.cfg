CONSTANTS
    Key <- KeyValue
    Rank <- RankValue
    Size = {1, 2}
    FireAndForget <- FireAndForgetValue
    Ns3MaxSends = 2
    HtsimMaxSends = 3
    MaxRecvs = 2
SPECIFICATION Spec
INVARIANTS
    SendsFound
    EndLosesNothing
PROPERTIES
    ImplementsByteMatching
    CallsAnswered
CHECK_DEADLOCK FALSE
