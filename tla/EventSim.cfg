\* Two cores and two domains, which one thread or two simulate.
CONSTANTS
    c1 = c1
    c2 = c2
    t1 = t1
    t2 = t2
    Cores = {c1, c2}
    Domains = {0, 1}
    SimThreads = {t1, t2}
    Assignments <- OneOrTwoThreads
    Home <- HomeZero
    Records <- Mixed
    PhaseLength = 3
    AccLat = 1
    Half = 1
    Gaps = {1}
    MaxPhase = 2
    MaxOps = 2
SPECIFICATION FairSpec
INVARIANTS CrossingsPunctual AssertionsHold EventsOrdered
PROPERTY WeaveEnds
