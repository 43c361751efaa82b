SPECIFICATION FairCoopSpec
CONSTANTS
    MAX_BUF_SIZE = 5
    SizeLen = 2
    IdLen = 1
    BodySizes <- MCBodySizes
    MaxFrames = 3
INVARIANTS NoLoss OnlySent NeverDies StashBounded
PROPERTIES AllCalled
CHECK_DEADLOCK FALSE
