\* One delivery and a lost worker.
CONSTANTS
    Workers = {w1, w2}
    SoftLimit = 1
    HardLimit = 2
    StaleAfter = 2
    MaxTries = 1
    OdooUnique = FALSE
    MaxWebhooks = 1
    MaxAdmin = 0
    MaxNights = 0
    MaxFaults = 1
    MaxRollbacks = 0
SPECIFICATION Spec
SYMMETRY Symmetry
INVARIANTS NoEventLost
CHECK_DEADLOCK FALSE
