\* Both chips, in every surroundings.
CONSTANTS
    Threads = {t1, t2}
    Worlds = {"serial", "failing", "interleaved"}
    None = None
SPECIFICATION Spec
INVARIANTS
    TypeOK
    OneUser
    ResetOrder
