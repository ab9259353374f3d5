CONSTANTS
    c1 = c1
    Clients = {c1}
    x = x
    Ids = {x}
    Contents <- SomeContents
    chunk_size = 3
    Acks = {"safe"}
    Ranges <- SomeRanges
    MaxCalls = 2
    MaxFaults = 0
SPECIFICATION Spec
INVARIANT PrintsWhatIsAsked
CHECK_DEADLOCK FALSE
