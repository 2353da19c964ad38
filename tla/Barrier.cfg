CONSTANTS
    Threads = {t1, t2, t3, t4}
    parallelThreads = 2
    CleanupPeriod = 2
SPECIFICATION FairSpec
INVARIANTS BookkeepingExact SlotsFilled NoPhaseSkew
PROPERTIES PhaseComplete WaitersRun
