CONSTANTS
    Sessions = {s1, s2}
    Engines = {e1, e2}
    Tasks = {t1, t2}
    None = None
    Adapter = "baileys"
    Requests = {"start", "stop", "delete"}
    MaxAttempts = 1
    MaxConcurrent = 0
    DbFails = TRUE
    Restarts = TRUE
SPECIFICATION SessionsSpec
INVARIANTS TypeOK ReservationHeldOnce StoppedStaysDown StartsAreAccounted SerialIsClean
PROPERTY StopIsFinal
SYMMETRY SessionSymmetry
CHECK_DEADLOCK FALSE
