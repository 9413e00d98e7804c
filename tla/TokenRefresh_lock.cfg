\* Two coroutines, three beginnings, two faults.
CONSTANTS
    Users = {u1, u2}
    MaxIssued = 2
    MaxBegins = 3
    MaxFaults = 1
SPECIFICATION FairSpec
INVARIANTS TypeOK SingleRefresher RefreshTokenKept
PROPERTIES FreshRetry Ends
CHECK_DEADLOCK FALSE
