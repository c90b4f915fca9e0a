SPECIFICATION Spec
CONSTANTS
    Positions = {p1, p2}
    Steps = 2
    MaxSales = 3
    MaxRestarts = 2
    StoreFails = TRUE
SYMMETRY Symmetry
INVARIANTS TypeOK SalesSerialized StepSoldOnce BlockedForCause
CHECK_DEADLOCK FALSE
