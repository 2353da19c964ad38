SPECIFICATION Spec
CONSTANTS
    Addrs = {1, 2, 3, 4, 5}
    Updates = 5
    Accesses = 4
    Inserts = 4
    Demands = 5
    Records = 3
    Blocks = 4
    RecorderOps = 3
INVARIANTS CachesSound PartitionsSound PipelineSound RecordsSound TracesSound
CHECK_DEADLOCK FALSE
