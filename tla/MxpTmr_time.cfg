CONSTANTS
    Threads = {t1}
    Tids = {k1}
    MaxTimers = 2
    MaxObjs = 3
    MaxClock = 3
    MaxLag = 3
    Timeouts = {1, 7}
    Reloads = {0, 3}
    Off = Off
    None = None
    Signalled = {t1}
    OneStart = TRUE
    UpFaults = FALSE
SPECIFICATION FairSpec
INVARIANTS
    TypeOK
    HeapConsistent
    TimersArmed
PROPERTIES
    KeepsTime
    SleepEnds
    OneShotFires
