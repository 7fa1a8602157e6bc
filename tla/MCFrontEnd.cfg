CONSTANTS
    Key <- Keys
    TagRange = 2
    MaxPosts = 2
    MaxTotal = 3
SPECIFICATION Spec
INVARIANTS
    NoUnsolicited
PROPERTIES
    ImplementsMatching
    EveryPairCompletes
CHECK_DEADLOCK FALSE
