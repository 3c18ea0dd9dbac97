SPECIFICATION SchedulerSpec
CONSTANTS
    MaxVertices = 5
    MaxEdges = 6
    InputVertices = 3
    InputEdges = 3
    Randoms = {TRUE, FALSE}
    MaxRuns = 1
INVARIANTS
    SchedulerTypeOK
    NothingForgotten
    SettledAtTheEnd
    ResultCountsAttempts
PROPERTIES
    RunsEnd
CHECK_DEADLOCK FALSE
