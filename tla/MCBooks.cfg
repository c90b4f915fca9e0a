SPECIFICATION Spec
CONSTANTS
    Positions = {1, 2}
    Amounts = {3}
    DustFloor = 1
    DustDivisor = 1000
    MaxAdds = 2
    EarlyTrades = FALSE
    MaxSwaps = 4
INVARIANTS TypeOK HoldingsBacked NothingLost
PROPERTY LateFillsConserve
CHECK_DEADLOCK FALSE
