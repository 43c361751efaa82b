SPECIFICATION Spec
CONSTANTS
    Points <- MCPoints
    Uvs = {0}
    Normals = {0}
    UInt = 8
    MaxVecs = 2
    MaxUvs = 1
    MaxNormals = 1
    MaxFaces = 1
INVARIANTS CornersKept
CHECK_DEADLOCK FALSE
