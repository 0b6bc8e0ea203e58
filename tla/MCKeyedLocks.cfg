SPECIFICATION MCSpec
CONSTANTS
    Keys = {k1, k2}
    Tasks = {t1, t2, t3, t4}
    Objs = {o1, o2, o3}
    MaxDepth = 2
    NoTask = NoTask
    NoObj = NoObj
    NoKey = NoKey
    FirstBudget = 3
    ChunkBudget = 6
    Timeout = 7
    KeepEvery = 2
    None = None
INVARIANTS
    MutualExclusion
    ClientsAreTold
PROPERTIES
    QueuedGetsIn
    StreamEnds
CHECK_DEADLOCK FALSE
