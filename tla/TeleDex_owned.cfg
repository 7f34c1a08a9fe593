\* Nobody waits for, clears or frees a task that another thread waits for; the
\* interrupt comes at any time.
CONSTANTS
    Threads = {t1, t2, t3}
    MaxTasks = 1
    Names = {DEX, n1}
    Events = {e1, e2}
    NoName = NoName
    None = None
    Owned = {1}
    Signalled = {t1}
    Dex = DEX
    Transition = e1
SPECIFICATION DexFairSpec
INVARIANTS
    NoLostEventWakeup
PROPERTIES
    TakesAnswers
    PostedIsServed
    InterruptReachesDex
