SPECIFICATION Spec
CONSTANTS
    MAX_BUF_SIZE = 3
    SizeLen = 2
    IdLen = 1
    BodySizes <- MCBodySizes
    MaxFrames = 3
CONSTRAINT Bound
INVARIANTS TypeOK InOrder RoundComplete
PROPERTIES FeedSpec
CHECK_DEADLOCK FALSE
