CONSTANTS
    Value = {v0, v1}
    Default = v0
    MaxSize = 2
    MaxDepth = 2
    MaxRecords = 4
    Dimension = 2
    InitialIndices = 3
    InitialBuffer = 5
SPECIFICATION Spec
INVARIANTS
    BufferHasRoom
    EndsAgree
PROPERTIES
    ImplementsLog
