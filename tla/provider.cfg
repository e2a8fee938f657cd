SPECIFICATION MCSpec
CONSTANTS
    Calls = {c1, c2, c3, c4}
    Rpm = 2
    Aborts <- OneOrAll
    Requests = {"small", "big"}
    Timeout = 3
    MaxRetries = 1
    MaxDelay = 1
    RetryAfter = {0, 5}
    Window = 3
    Tpm = 3
    Limits = {2}
    Earlier <- MCEarlier
    Estimate <- MCEstimate
    Usage = {1, 2}
    MaxTime = 7
INVARIANTS
    OneWakeup
    AnsweredInTime
PROPERTIES
    CallsSettle
    ThrottledEnough
CHECK_DEADLOCK FALSE
