SPECIFICATION Spec
CONSTANTS
    d1 = d1
    d2 = d2
    Dirs = {d1, d2}
    Files <- MCFiles
    GroupNames <- MCGroupNames
    Factories <- MCFactories
    Registered = {"FileSystem"}
    Configs <- MCConfigs
    DefaultConfig <- MCDefault
    bad = bad
    closed = closed
    noFile = noFile
    MaxArchives = 3
    MaxResources = 2
CONSTRAINT Bound
INVARIANTS OneFactory AnswersTheRequest OpensFirst GroupsWhole
CHECK_DEADLOCK FALSE
