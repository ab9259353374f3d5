CONSTANTS
    InlineSize = 120
    MaxSize = 100000
    MaxRecursion = 3
    STACK_MAX = 3
    Int32Max = 32767
    Int64Max = 8388607
    Docs <- SomeDocs
    MoreDocs <- FewDocs
    Texts <- SomeTexts
    MaxTexts = 2
    Kinds = {"data", "fd"}
    DataSize = 7
    Chunks = {1, 5, 40}
SPECIFICATION Spec
INVARIANTS JsonReadsBack CutsDontMatter
CHECK_DEADLOCK FALSE
