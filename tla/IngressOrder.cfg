CONSTANTS
    Deliveries <- TwoDeliveries
    Calls = {c1}
    Rows = {r1, r2}
    Keys = {k1}
    Runs <- Jobs
    Conversation <- PerInstance
    None = None
    QueueEnabled = TRUE
    MaxAttempts = 2
    Concurrency = 2
    RespondsEarly = TRUE
    Faults = {}
SPECIFICATION Spec
INVARIANTS MapIsTrimmed DeadLetterOnce
PROPERTIES LockIsFifo AcceptedIsSettled
