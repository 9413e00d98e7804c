\* An event and one without a consumer about another order; two requests and two polls at a time.
CONSTANTS
    Events = {1, 2}
    Orders = {1, 2}
    OrderOf <- ByParity
    Unknown = {2}
    Handlers = {h1, h2}
    Pollers = {p1, p2}
    NonceTTL = 1
    Window = 1
    SeenTTL = 2
    MaxDeliveries = 2
    MaxPolls = 2
    MaxTicks = 2
    MaxFaults = 2
SPECIFICATION Spec
SYMMETRY Symmetry
INVARIANTS TypeOK AckedIsStored InsertedOnce SeededOnce
CHECK_DEADLOCK FALSE
