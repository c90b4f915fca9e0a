CONSTANTS
    Tasks = {1}
    LiveTasks = {}
    Existing = {1}
    Requests = {r1}
    Service = service
    None = none
    MaxActive = 1
    Budget = 1
    QueueCapacity = 2
    MaxRequests = 2
    MaxTrades = 1
    MaxFaults = 1
SPECIFICATION Spec
PROPERTIES EnabledWatched PausedFollowed
CHECK_DEADLOCK FALSE
