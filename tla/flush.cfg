CONSTANTS
    Threads = {t1, t2}
    MaxSegs = 5
    MaxDepth = 3
    NoThread = NoThread
SPECIFICATION Spec
INVARIANTS OneWriter EachOnce ReentrantDrained
CHECK_DEADLOCK FALSE
