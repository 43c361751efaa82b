SPECIFICATION ScriptSpec
CONSTANTS
    MAX_BUF_SIZE = 39
    SizeLen = 2
    IdLen = 1
    BodySizes <- MCBodySizes
    MaxFrames = 6
    Hello = 3
    Hi = 4
PROPERTIES ScriptIsCooperative ConversationCompletes
CHECK_DEADLOCK FALSE
