CONSTANTS
    c1 = c1
    c2 = c2
    Clients = {c1, c2}
    x = x
    y = y
    Ids = {x, y}
    Contents <- SomeContents
    chunk_size = 3
    Acks = {"safe", "acked", "none"}
    Ranges <- SomeRanges
    MaxCalls = 3
    MaxFaults = 1
SPECIFICATION Spec
INVARIANTS FilesWhole PrintsRange
SYMMETRY Alike
CHECK_DEADLOCK FALSE
