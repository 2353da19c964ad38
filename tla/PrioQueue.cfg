\* A ring of four blocks of two cycles.
SPECIFICATION Spec
CONSTANTS
    Objs = {a, b, c}
    B = 4
    W = 2
    MaxCycle = 21
INVARIANTS
    QueueExact
PROPERTIES
    ImplementsQueue
