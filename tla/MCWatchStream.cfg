SPECIFICATION FairSpec
CONSTANTS
    Kinds = {"service"}
    PageSize = 1
    PageBudget = 1
    Capacity = 1
    Attempts = 1
    ReadsFail = FALSE
    NodesLag = FALSE
    History = 1
    MaxTx = 2
    MaxFaults = 0

PROPERTY StreamSeen
CHECK_DEADLOCK FALSE
