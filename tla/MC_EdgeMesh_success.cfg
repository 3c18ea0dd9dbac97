SPECIFICATION Spec
CONSTANTS
    MaxVertices = 3
    MaxEdges = 3
    InputVertices = 2
    InputEdges = 2
INVARIANTS
    SuccessRemovesInput
