\* Two orders on two pages; a change, a fault and order workers at any point.
SPECIFICATION FairSpec
CONSTANTS
    Orders = {o, p}
    Runners = {r}
    ShopeeOrders <- MCShopeeOrders
    OdooOrders <- MCOdooOrders
    NoTracking = NoTracking
    Tolerance = 1000
    PageSize = 1
    MaxRuns = 1
    MaxEdits = 1
    MaxFaults = 1
INVARIANTS TypeOK NothingOverlooked
PROPERTIES MissedIsTold
CHECK_DEADLOCK FALSE
