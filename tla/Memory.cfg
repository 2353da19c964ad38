SPECIFICATION Spec
CONSTANTS
    Reads = 3
    Requests = 3
    Counted = 3
    Misses = 3
    Threads = {t1, t2}
INVARIANTS TimingRespected RequestsKept
PROPERTY RequestsAnswered
CHECK_DEADLOCK FALSE
