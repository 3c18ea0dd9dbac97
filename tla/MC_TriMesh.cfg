SPECIFICATION Spec
CONSTANTS
    MaxVertices = 9
    Inputs <- InputMeshes
INVARIANTS
    TypeOK
    is_connectivity_valid
    TablesAgree
    StarsReachable
    OutputNavigable
    LinkConditionExact
PROPERTIES
    ImplementsComplex
    TopologyKept
