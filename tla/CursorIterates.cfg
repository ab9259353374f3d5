CONSTANTS
    s1 = s1
    s2 = s2
    Servers = {s1, s2}
    Worlds <- Iterations
    MaxDocs = 5
    BatchSize = 2
    FirstBatches = {1, 2}
    Limits <- SomeLimits
    Pinned = TRUE
    MaxRepins = 0
    MaxCursors = 2
SPECIFICATION Spec
PROPERTIES IteratesResult
CHECK_DEADLOCK FALSE
