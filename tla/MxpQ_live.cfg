\* Callers keep two rules: a thread that may be signalled waits alone, and a
\* queue is deleted only when nobody waits on it.
CONSTANTS
    Threads = {t1, t2, t3}
    Signalled = {t1}
    MaxQueues = 1
    Conts = {c1, c2}
    Msgs = {m1}
    Names = {n1}
    Depths = {2}
    TaskIds = {0, 1}
    NoMsg = NoMsg
    NoName = NoName
    SignalledAlone = TRUE
    QuietDelete = TRUE
SPECIFICATION FairSpec
INVARIANTS
    NoNullContainer
    NoLostWakeup
PROPERTIES
    LoneWaiterServed
    MessageNotStuck
