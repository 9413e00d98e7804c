\* A webhook and an operator; a send may be refused, a transaction fail; Odoo refuses duplicates.
CONSTANTS
    Workers = {w1, w2}
    SoftLimit = 1
    HardLimit = 2
    StaleAfter = 2
    MaxTries = 1
    OdooUnique = TRUE
    MaxWebhooks = 1
    MaxAdmin = 1
    MaxNights = 0
    MaxFaults = 1
    MaxRollbacks = 1
SPECIFICATION Spec
SYMMETRY Symmetry
INVARIANTS SuccessIsBacked
PROPERTIES SuccessKept KeepsRecord StrandedByLoss
CHECK_DEADLOCK FALSE
