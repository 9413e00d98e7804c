\* Batches of two; an operator resets rows, one of them without a queue, that dispatchers still hold.
CONSTANTS
    Rows = {1, 2}
    Dispatchers = {d1, d2}
    Workers = {w1}
    Routed = {1}
    MaxRetries = 2
    BatchSize = 2
    MaxResets = 1
    MaxFaults = 0
    MaxFailures = 3
    MaxQueued = 1
SPECIFICATION Spec
SYMMETRY Symmetry
INVARIANTS PublishedWasSent DeadLetterEarned
PROPERTIES DeliversEvents
CHECK_DEADLOCK FALSE
