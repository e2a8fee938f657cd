SPECIFICATION Spec
CONSTANTS
    Stages = {"tests"}
    Boxed = {"tests"}
    Delegates = {"coder", "ghost"}
    Paths = {"package.json", "main.ts"}
    Linked = {"package.json"}
    HasReview = TRUE
    Initially <- MCInitially
    Calls <- MCCalls
    MaxCalls <- MCMaxCalls
    Edits <- MCEdits
    MaxEdits = 1
    Provided = {"coder"}
    NeedsFile = TRUE
    MaxDelegations = 2
CONSTRAINT Bounded
INVARIANTS CachedAnswersTrue OnlyReviewedWork SuccessMeansWork
CHECK_DEADLOCK FALSE
