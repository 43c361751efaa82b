SPECIFICATION Spec
CONSTANTS
    Nodes = {n1, n2, n3, n4}
    Names = {a, b}
    noName = noName
    noNode = noNode
    Poses = {0, 1}
    Scales = {1, 2}
CONSTRAINT Bound
INVARIANTS NamesResolve DrawnOnce StaleOnlyIfBlamed
CHECK_DEADLOCK FALSE
