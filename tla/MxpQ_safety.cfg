\* Any caller may do anything: many waiters, signals, deletion under a waiter.
CONSTANTS
    Threads = {t1, t2, t3}
    Signalled = {t1, t2, t3}
    MaxQueues = 2
    Conts = {c1, c2}
    Msgs = {m1, m2}
    Names = {n1, n2}
    Depths = {2}
    TaskIds = {0}
    NoMsg = NoMsg
    NoName = NoName
    SignalledAlone = FALSE
    QuietDelete = FALSE
SPECIFICATION Spec
SYMMETRY Interchangeable
INVARIANTS
    TypeOK
    PoolConserved
    CountsAgree
    NamesUnique
PROPERTIES
    DeliversFifo
CHECK_DEADLOCK FALSE
