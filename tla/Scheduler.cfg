\* Two threads on two cores, either of them possibly pinned to core 0.
SPECIFICATION Spec
CONSTANTS
    Gids = {g1, g2}
    NoThread = NoThread
    Pid <- OneProcess
    numCores = 2
    parallelThreads = 2
    CleanupPeriod = 2
    schedQuantum = 1
    Masks <- Pinned
    SyscallPcs = {p, q}
    Blacklistable = {p}
    NoPc = NoPc
    MaxSleep = 1
    StallThreshold = 1
    BatchFloor = 0
SYMMETRY ThreadSymmetry
INVARIANTS
    ThreadsPlaced
    BarrierAgrees
    ContextsWellUsed
    FailsOnlyByRace
PROPERTIES
    UsesBarrier
CHECK_DEADLOCK FALSE
