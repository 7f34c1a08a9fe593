\* Every surroundings in turn; two descriptors of the driver's and one foreign.
CONSTANTS
    Own = {d1, d2}
    Foreign = {f1}
    Bufs = {u1, u2}
    PageLen = 2
    Worlds = {"lawful", "captures", "foreign", "noisy", "mta", "scarce", "edge"}
    None = None
SPECIFICATION FairSpec
INVARIANTS
    TypeOK
    OneOwner
    NothingStuck
    NoOops
PROPERTIES
    DeliversInOrder
    PacketsLeave
CHECK_DEADLOCK FALSE
