SPECIFICATION Spec
CONSTANTS
    IosJob = {w1}
    BuildJob = {}
    ToolJob = {x1}
    Buffer = 1
    EventCap = 1
    MaxConn = 2
    MaxEvents = 2
    MaxFlight = 2
INVARIANTS PollIsTruth ResultReachesSnapshot NewestEventsListed
CHECK_DEADLOCK FALSE
