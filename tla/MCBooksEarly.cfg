SPECIFICATION Spec
CONSTANTS
    Positions = {1}
    Amounts = {3}
    DustFloor = 1
    DustDivisor = 1000
    MaxAdds = 2
    EarlyTrades = TRUE
    MaxSwaps = 2
INVARIANT NothingLost
CHECK_DEADLOCK FALSE
