SPECIFICATION MCSpec
CONSTANTS
    Sizes = {s1, s2}
    Positions = {0, 1}
    Keys = {ESC, SPACE, W, S}
    ESC = ESC
    SPACE = SPACE
    W = W
    S = S
    Opposites <- MCOpposites
    Synchronous = FALSE
    MaxQueue = 3
    MaxInputs = 5
INVARIANTS SizeAgrees TurnsAsMoved InputCounts
PROPERTIES FrameEnds
CHECK_DEADLOCK FALSE
