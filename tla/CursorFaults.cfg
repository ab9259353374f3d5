CONSTANTS
    s1 = s1
    s2 = s2
    Servers = {s1, s2}
    Worlds <- Faults
    MaxDocs = 3
    BatchSize = 2
    FirstBatches = {0, 1, 2}
    Limits <- SomeLimits
    Pinned = TRUE
    MaxRepins = 1
    MaxCursors = 2
SPECIFICATION Spec
INVARIANTS BufferSafe LimitRespected NoLeak
CHECK_DEADLOCK FALSE
