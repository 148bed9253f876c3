CONSTANTS
    DEGREE = 2
    MaxKey = 19
    Few = 8
    Least = 2
    Greatest = 1
    Rounds = 2
SPECIFICATION MCSpec
INVARIANTS
    TypeOK
    SearchExact
    Balanced
    NodesOwnedOnce
    StringsOwnedOnce
    LeavesChained
    FramesFit
PROPERTIES
    ImplementsKeyIndex
CHECK_DEADLOCK FALSE
