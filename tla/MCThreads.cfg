SPECIFICATION AllSpec
CONSTANTS
    Threads = {t1, t2, t3}
    Instances = {o1, o2}
    null = null
    Writers = {w1, w2}
    Logs = {general}
    hole = hole
    MaxMessages = 4
    Letters = {"get", "help", "?", "list", "exit"}
    MaxLine = 3
INVARIANTS OneInstance OwnLogWhole LinesAtTheirPlace WordsAreTheLine
PROPERTIES CallReturns EndOfInputEnds
CHECK_DEADLOCK FALSE
