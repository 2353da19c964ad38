\* Two threads on one core; sleeps of different lengths.
SPECIFICATION FairSpec
CONSTANTS
    Gids = {g1, g2}
    NoThread = NoThread
    Pid <- OneProcess
    numCores = 1
    parallelThreads = 1
    CleanupPeriod = 2
    schedQuantum = 2
    Masks <- AnyCore
    SyscallPcs = {p}
    Blacklistable = {p}
    NoPc = NoPc
    MaxSleep = 2
    StallThreshold = 2
    BatchFloor = 1
INVARIANTS
    SleepersOnTime
PROPERTIES
    NobodyStarves
CHECK_DEADLOCK FALSE
