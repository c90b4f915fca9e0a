CONSTANTS
    Tasks = {1, 2}
    LiveTasks = {2}
    Existing = {2}
    Requests = {r1, r2}
    Service = service
    None = none
    MaxActive = 1
    Budget = 1
    QueueCapacity = 2
    MaxRequests = 2
    MaxTrades = 2
    MaxFaults = 1
SPECIFICATION Spec
INVARIANTS TypeOK ActiveLimit GoneHoldsNothing NoOrphanSource BudgetKept
CHECK_DEADLOCK FALSE
