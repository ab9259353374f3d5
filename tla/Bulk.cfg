CONSTANTS
    OpSet <- SomeOps
    MaxOps = 4
    MaxBatch = 3
    MaxWire = 5
    MaxBson = 4
    Overhead = 1
    WriteCommands = {TRUE, FALSE}
SPECIFICATION FairSpec
INVARIANTS StopsAtError NoneTwice Complete IndexesPoint CountsAgree
PROPERTIES KeepsPromise ExecuteReturns
CHECK_DEADLOCK FALSE
