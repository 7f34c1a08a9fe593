\* Partitions are created only where their blocks really fit.
\* A block goes back to the partition it came from.
CONSTANTS
    MaxSegments = 2
    Names = {n1, n2}
    SegSizes = {32}
    Lengths = {4, 5}
    Counts = {0, 1, 2}
    HdrSize = 8
    LinkSize = 4
    MaxParts = 2
    NoName = NoName
    None = None
    Roomy = TRUE
    Homeward = TRUE
SPECIFICATION Spec
SYMMETRY Interchangeable
INVARIANTS
    TypeOK
    BlocksSound
    CountsAgree
