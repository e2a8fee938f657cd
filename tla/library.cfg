SPECIFICATION EditorSpec
CONSTANTS
    Paths <- MCPaths
    InProject <- MCInProject
    Initially <- MCInitially
    MeddleTexts <- MCMeddleTexts
    Bases <- MCBases
    MaxMeddles = 1
    MaxEdits = 1
    MaxInFlight = 2
INVARIANTS SavedIsShown ReopensTheSame SavedPipelinesOpen
PROPERTIES RunsWhatIsShown
CONSTRAINT Orderly
