SPECIFICATION MultimeshSpec
CONSTANTS
    MaxVertices = 9
    Inputs <- ParentInputs
    TaggedInputs <- InputMeshes
INVARIANTS
    MapsAgree
PROPERTIES
    ImplementsMarkedSurface
    BoundaryFollowed
