CONSTANTS
    Deliveries <- SameIds
    Calls = {c1}
    Rows = {r1}
    Keys = {k1, k2}
    Runs <- Jobs
    Conversation <- PerInstance
    None = None
    QueueEnabled = TRUE
    MaxAttempts = 2
    Concurrency = 2
    RespondsEarly = FALSE
    Faults = {}
SPECIFICATION Spec
INVARIANT NoEventLost
