\* Partitions are created wherever mxp_pCreate lets them be.
CONSTANTS
    MaxSegments = 1
    Names = {n1}
    SegSizes = {24}
    Lengths = {4, 5}
    Counts = {1, 2}
    HdrSize = 8
    LinkSize = 4
    MaxParts = 1
    NoName = NoName
    None = None
    Roomy = FALSE
    Homeward = TRUE
SPECIFICATION Spec
INVARIANTS
    RoomChecked
