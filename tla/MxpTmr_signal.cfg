\* A thread is signalled while its task sleeps.
CONSTANTS
    Threads = {t1}
    Tids = {k1}
    MaxTimers = 1
    MaxObjs = 3
    MaxClock = 3
    MaxLag = 1
    Timeouts = {1}
    Reloads = {0}
    Off = Off
    None = None
    Signalled = {t1}
    OneStart = TRUE
    UpFaults = FALSE
SPECIFICATION Spec
PROPERTIES
    SleepLeavesNoTimer
