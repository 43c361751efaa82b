SPECIFICATION MCSpec
CONSTANTS
    Sizes = {s1, s2}
    Positions = {0}
    Keys = {ESC, SPACE}
    ESC = ESC
    SPACE = SPACE
    W = W
    S = S
    Opposites = {}
    Synchronous = TRUE
    MaxQueue = 2
    MaxInputs = 2
PROPERTIES FrameEnds
CHECK_DEADLOCK FALSE
