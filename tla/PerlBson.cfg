CONSTANTS
    InlineSize = 16
    MaxSize = 400
    Nodes = {1, 2, 3}
    TopKinds = {"hash", "ixhash", "list"}
    Kinds = {"hash", "array"}
    Stores <- SomeStores
    MoreStores <- FewStores
    MaxStores = 2
    Settings <- SomeSettings
    MaxNesting = 6
    InitialBufSize = 8
    GrowSlowly = 8
SPECIFICATION Spec
INVARIANTS  IdsFirst CircularCaught MessageWhole
CHECK_DEADLOCK FALSE
