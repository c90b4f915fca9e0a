SPECIFICATION FairSpec
CONSTANTS
    Kinds = {"own", "service", "external"}
    PageSize = 1
    PageBudget = 1
    Capacity = 1
    Attempts = 1
    ReadsFail = FALSE
    NodesLag = FALSE
    History = 1
    MaxTx = 2
    MaxFaults = 1
INVARIANTS TypeOK NothingSkipped PublishedOnce WatchStartsNow
PROPERTY EventuallySeen
CHECK_DEADLOCK FALSE
