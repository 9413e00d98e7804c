\* Prices with halves of the currency's unit, up to three components.
CONSTANTS
    Unit = 2
    MaxPrice = 24
    MaxQuantity = 3
    MaxComponents = 3
    MaxPerBundle = 4
SPECIFICATION Spec
INVARIANTS TotalKept UnitsKept PricesNonNegative
CHECK_DEADLOCK FALSE
