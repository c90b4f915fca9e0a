SPECIFICATION Spec
CONSTANTS
    Kinds = {"own"}
    PageSize = 1
    PageBudget = 1
    Capacity = 1
    Attempts = 1
    ReadsFail = TRUE
    NodesLag = FALSE
    History = 1
    MaxTx = 3
    MaxFaults = 1
INVARIANT NothingSkipped

CHECK_DEADLOCK FALSE
