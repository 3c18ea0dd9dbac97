SPECIFICATION Spec
CONSTANTS
    Attribute = {flags, position, tag}
    Flags = flags
    MaxSize = 4
    MaxDepth = 2
INVARIANTS
    TypeOK
    EveryIdHasMemory
    BeliefIsCovered
PROPERTIES
    RequestsAreGranted
    GrantedIdsAreFresh
