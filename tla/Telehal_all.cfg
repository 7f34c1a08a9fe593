\* Every surroundings in turn; eight stands for 2^8, and two for the limit
\* of 80 bytes; the chip select of eight comes out as zero.
CONSTANTS
    Threads = {t1, t2}
    Tcids = {c1, c2}
    Selects = {1, 8}
    Lens = {0, 2, 9}
    MaxBytes = 2
    Wrap = 8
    Worlds = {"lawful", "racing", "early", "scarce", "unbound"}
    NoDevice = 4
    None = None
SPECIFICATION FairSpec
INVARIANTS
    TypeOK
    OneOpen
    NoOops
PROPERTIES
    TransfersWhole
    TransferEnds
CHECK_DEADLOCK FALSE
