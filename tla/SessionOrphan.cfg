CONSTANTS
    Sessions = {s1}
    Engines = {e1, e2}
    Tasks = {t1, t2}
    None = None
    Adapter = "wwjs"
    Requests = {"start", "stop"}
    MaxAttempts = 0
    MaxConcurrent = 0
    DbFails = FALSE
    Restarts = FALSE
SPECIFICATION Spec
INVARIANTS EngineIsRegistered
SYMMETRY Symm
