CONSTANTS
    Value = {v0, v1}
    Default = v0
    MaxSize = 2
    MaxDepth = 3
    MaxRecords = 4
SPECIFICATION Spec
INVARIANTS
    TypeOK
    ScopesNest
    RecordsInRange
PROPERTIES
    ScopesAreStable
    ImplementsTransactionStack
