SPECIFICATION AllSpec
CONSTANTS
    Values = {a, b}
    SizeT = 8
    MaxLength = 4
    chunkSize = 3
    MaxElements = 12
    Models = {m1, m2, m3}
    Names = {a, b}
    noName = noName
    noModel = noModel
    MaxModels = 4
    Places <- MCPlaces
    Intervals = {0, 1, 2}
    Delays = {1, 3}
    nan = nan
    Reach = 5
    Points <- MCPoints
    Uvs = {0}
    Normals = {0, 1}
    UInt = 8
    MaxVecs = 2
    MaxUvs = 1
    MaxNormals = 2
    MaxFaces = 1
    states <- MCStates
    startState = 1
    endStateSets = {{2}, {1, 2}}
    Letters = {a, b}
    errorState = 0
    Exception = Exception
    Error = Error
    default = default
    MaxWrites = 2
INVARIANTS LengthOffByOne ArrivesOnTime MeshKeepsDepth AcceptsItsLanguage
PROPERTIES IsDeque FittingAppendKeeps NamesStayAttached ComesBack NeverMixed
CHECK_DEADLOCK FALSE
