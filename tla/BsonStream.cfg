CONSTANTS
    InlineSize = 16
    MaxSize = 200
    Modes = {"writer", "file", "bcon"}
    Keys <- SomeKeys
    Appends <- SomeFields
    MoreAppends <- FewFields
    Arguments <- SomeArguments
    MaxArguments = 6
    MaxFields = 3
    MaxDepth = 2
    MaxDocs = 2
    WriterBuffer = {8}
    WriterOffset = 3
    HandleBuffer = 12
    Chunks = {17}
SPECIFICATION Spec
INVARIANTS WellBuilt IteratesBack ReadsBack CopyKeepsTheRest FieldsByKey
CHECK_DEADLOCK FALSE
