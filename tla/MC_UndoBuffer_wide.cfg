CONSTANTS
    Value = {v0, v1}
    Default = v0
    MaxSize = 2
    MaxDepth = 2
    MaxRecords = 4
    Dimension = 60
    InitialIndices = 32
    InitialBuffer = 64
SPECIFICATION Spec
INVARIANTS
    BufferHasRoom
