CONSTANTS
    Tasks = {1, 2}
    LiveTasks = {}
    Existing = {}
    Requests = {r1, r2}
    Service = service
    None = none
    MaxActive = 1
    Budget = 1
    QueueCapacity = 2
    MaxRequests = 2
    MaxTrades = 0
    MaxFaults = 1
SPECIFICATION Spec
INVARIANT EnabledWithinMax
CHECK_DEADLOCK FALSE
