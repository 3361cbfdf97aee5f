CONSTANTS
    Connection = {c1, c2, c3}
    Name = {n1}
    File = {f1, f2}
    NONE = NONE
    HOLE = HOLE
    MaxBlocks = 2
    MaxDescriptors = 5
SPECIFICATION Spec
INVARIANTS
    OnlyLeaversLeak
PROPERTIES
    DownloadFaithful
    UploadFaithful
VIEW State
SYMMETRY Symmetry
CHECK_DEADLOCK FALSE
