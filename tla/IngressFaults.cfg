CONSTANTS
    Deliveries <- OneDelivery
    Calls = {c1, c2}
    Rows = {r1}
    Keys = {k1}
    Runs <- Jobs
    Conversation <- PerInstance
    None = None
    QueueEnabled = TRUE
    MaxAttempts = 2
    Concurrency = 2
    RespondsEarly = FALSE
    Faults = {"crash", "redis", "db", "late"}
SPECIFICATION Spec
INVARIANTS TypeOK NothingIsLost HandledOnce
SYMMETRY Symm
