SPECIFICATION Spec
CONSTANTS
    NumRuns = 2
    Stages = {"code"}
    Orchestrated = {2}
    MaxMessages = 2
    MaxRestarts = 1
    MaxInFlight = 1
INVARIANT RestsOnItsRun
PROPERTIES ServesRuns CancelledRunEnds
CHECK_DEADLOCK FALSE
