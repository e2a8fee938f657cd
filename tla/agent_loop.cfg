SPECIFICATION Spec
CONSTANTS
    Calls = {x, y}
    MaxBatch = 2
    MaxIterations = 4
    LengthContinues = 1
    LoopThreshold = 3
    HasTokenLimit = TRUE
    UserMessages = {m}
INVARIANTS
    NoDoomLoop
    ToolCallsAnswered
    EveryCallRemembered
PROPERTIES
    LoopEnds
CHECK_DEADLOCK FALSE
