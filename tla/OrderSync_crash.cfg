\* A webhook and the nightly reconciliation, a lost worker, a failed transaction; Odoo accepts duplicates.
CONSTANTS
    Workers = {w1, w2}
    SoftLimit = 1
    HardLimit = 2
    StaleAfter = 2
    MaxTries = 1
    OdooUnique = FALSE
    MaxWebhooks = 1
    MaxAdmin = 0
    MaxNights = 1
    MaxFaults = 1
    MaxRollbacks = 1
SPECIFICATION FairSpec
INVARIANTS ExclusiveSync OneOrder
PROPERTIES Drains
CHECK_DEADLOCK FALSE
