SPECIFICATION Spec
CONSTANTS
    MaxEvents = 2
    MaxLosses = 2
    MaxCancels = 2
    LiveCancels = FALSE
INVARIANTS
    DoneIsLast
    ViewGapless
    OwnRunShownWhole
PROPERTIES
    FollowersHangUp
CHECK_DEADLOCK FALSE
