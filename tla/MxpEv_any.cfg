\* Any caller may do anything: several waiters of one task, events cleared and
\* tasks freed under a waiter.
CONSTANTS
    Threads = {t1, t2, t3}
    MaxTasks = 1
    Names = {n1}
    Events = {e1, e2}
    NoName = NoName
    None = None
    Owned = {}
    Signalled = {t1, t2, t3}
SPECIFICATION Spec
SYMMETRY Interchangeable
INVARIANTS
    TypeOK
PROPERTIES
    ConsumedIsReported
