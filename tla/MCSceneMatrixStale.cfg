SPECIFICATION Spec
CONSTANTS
    Nodes = {n1, n2, n3}
    Names = {}
    noName = noName
    noNode = noNode
    Poses = {0, 1}
    Scales = {1, 2}
INVARIANTS FollowsAncestors
CHECK_DEADLOCK FALSE
