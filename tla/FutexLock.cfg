CONSTANT Threads = {t1, t2, t3}
SPECIFICATION FairSpec
INVARIANTS MutualExclusion NoLostWakeup
PROPERTY SleepersWake
