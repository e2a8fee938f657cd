SPECIFICATION Spec
CONSTANTS
    a = a
    b = b
    c = c
    prompt = prompt
    note = note
    NoKey = NoKey
    NoSnap = NoSnap
    Stages <- MCStages
    Graphs <- MCGraphs
    MaxRetries <- OneRetry
    MaxFallbacks <- OneFallback
    InjectKey <- InjectNote
    MayWrite <- MCMayWrite
    Provided <- MCStages
    Sandboxed <- OnlyB
    HasErrorHandler = TRUE
    HasReview = TRUE
    RateMax = 1
    CostLimit = 2
    Costs <- ZeroOne
    ExtraKeys <- MCExtraKeys
    Prompt = prompt
    SeedKeys <- OnlyNote
    Databases <- MCDatabases
INVARIANTS
    DependencyOrder
    OutputsLostOnlyToSiblings
PROPERTIES
    NoLaunchAfterCancel
    EndsUnlessUnanswered
CHECK_DEADLOCK FALSE
