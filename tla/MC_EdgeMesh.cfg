SPECIFICATION Spec
CONSTANTS
    MaxVertices = 4
    MaxEdges = 5
    InputVertices = 4
    InputEdges = 2
INVARIANTS
    TypeOK
    is_connectivity_valid
    TablesAgree
    OutputNavigable
PROPERTIES
    IdsAreFresh
    ImplementsPolylines
