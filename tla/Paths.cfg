CONSTANTS
    Connection = {c1, c2}
    Name = {a, b}
    Request <- MCRequest
    MaxPath = 2
    FAIL = FAIL
SPECIFICATION Spec
INVARIANTS
    TypeOK
    GetPathResolves
PROPERTIES
    OnlyNamed
    SucceedMeans
    RootGone
VIEW State
SYMMETRY Symmetry
CHECK_DEADLOCK FALSE
