CONSTANTS
    Rank <- RankValue
    Key <- KeyValue
    MaxChunks = 2
SPECIFICATION Spec
INVARIANTS
    AssertsHold
    NoLostCallback
    TrackerExact
PROPERTIES
    ImplementsMatching
    MatchedRecvRuns
CHECK_DEADLOCK FALSE
