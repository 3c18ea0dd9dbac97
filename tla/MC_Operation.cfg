SPECIFICATION Spec
CONSTANTS
    Op <- MC_Op
    Root <- MC_Root
    kind <- MC_kind
    parts <- MC_parts
INVARIANTS
    TypeOK
    ScopesMatchCalls
PROPERTIES
    ImplementsAtomic
    FailureLeavesNothing
    CallsEnd
