\* Two processes on two cores, one running at a time; processes are killed.
SPECIFICATION SpecKill
CONSTANTS
    Gids = {g1, g2}
    NoThread = NoThread
    Pid <- OwnProcess
    numCores = 2
    parallelThreads = 1
    CleanupPeriod = 2
    schedQuantum = 1
    Masks <- AnyCore
    SyscallPcs = {p}
    Blacklistable = {p}
    NoPc = NoPc
    MaxSleep = 1
    StallThreshold = 1
    BatchFloor = 0
INVARIANT RejoinPlace
CHECK_DEADLOCK FALSE
