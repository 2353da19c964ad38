SPECIFICATION Spec
CONSTANTS
    a = a
    b = b
    Procs = {0, 1}
    Threads = {t1, t2, t3}
INVARIANTS  ThreadsSound DriverAssertions 
PROPERTY DriverProgress
CHECK_DEADLOCK FALSE
