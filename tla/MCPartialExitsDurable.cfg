SPECIFICATION Spec
CONSTANTS
    Positions = {p1, p2}
    Steps = 1
    MaxSales = 2
    MaxRestarts = 0
    StoreFails = FALSE
INVARIANT PendingDurable
CHECK_DEADLOCK FALSE
