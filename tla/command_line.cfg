SPECIFICATION Spec
CONSTANTS
    Dirs = {"shop", "site"}
    Names = {"build", "review"}
    Title <- MCTitle
    RootFile = {"site"}
    Orchestrated = {"review"}
    MaxLines = 4
    MaxQuestions = 2
    MaxTampers = 1
INVARIANTS LinesInTurn RemovedNotLoaded NextSessionAgrees
PROPERTY ExitsWhenClosed
CHECK_DEADLOCK FALSE
