SPECIFICATION SchedulerSpec
CONSTANTS
    MaxVertices = 4
    MaxEdges = 4
    InputVertices = 3
    InputEdges = 2
    Randoms = {TRUE}
    MaxRuns = 1
INVARIANTS
    StatsCountAttempts
CHECK_DEADLOCK FALSE
