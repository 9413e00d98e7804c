\* One row, two dispatchers that may overlap, a fault, no operator.
CONSTANTS
    Rows = {1}
    Dispatchers = {d1, d2}
    Workers = {w1}
    Routed = {1}
    MaxRetries = 2
    BatchSize = 1
    MaxResets = 0
    MaxFaults = 1
    MaxFailures = 2
    MaxQueued = 1
SPECIFICATION FairSpec
INVARIANTS TypeOK SingleSender RetryBudgetKept
PROPERTIES EventuallyHandled
CHECK_DEADLOCK FALSE
