SPECIFICATION Spec
CONSTANTS
    Kinds = {"own", "external"}
    PageSize = 1
    PageBudget = 1
    Capacity = 1
    Attempts = 1
    ReadsFail = FALSE
    NodesLag = TRUE
    History = 1
    MaxTx = 3
    MaxFaults = 0
INVARIANTS WatchStartsNow NothingSkipped

CHECK_DEADLOCK FALSE
