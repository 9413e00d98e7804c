\* Three calls at a time that end in any order.
CONSTANTS
    Callers = {c1, c2, c3}
    FailureThreshold = 2
    Window = 2
    OpenTimeout = 2
    PassesRequired = 2
    MaxFailures = 4
SPECIFICATION FairSpec
PROPERTIES TripIsRecent CloseIsEarned Recovers
CHECK_DEADLOCK FALSE
