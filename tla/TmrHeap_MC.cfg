CONSTANTS
    Objs = {o1, o2, o3, o4, o5, o6}
    WakeUpTimes = {1, 2, 3}
SPECIFICATION Spec
INVARIANTS
    StaysHeap
PROPERTIES
    TouchesOne
