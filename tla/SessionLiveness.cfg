CONSTANTS
    Sessions = {s1}
    Engines = {e1, e2}
    Tasks = {t1, t2}
    None = None
    Adapter = "baileys"
    Requests = {"start", "stop"}
    MaxAttempts = 1
    MaxConcurrent = 0
    DbFails = FALSE
    Restarts = FALSE
SPECIFICATION FairSessions
PROPERTIES StartReturns StopTakesEffect
