CONSTANTS
    Typed = {t1}
    Phoned = {t2}
    Received = {t3}
    Reports = {"delivered", "read"}
    ChatFaults = {"rows", "answer"}
    MaxGaps = 1
    MaxTexts = 1
    Sockets = {k1, k2}
    NoSocket = NoSocket
    LiveSessions = {w1}
    EventKinds = {"status"}
    Grants = {{}, {w1}}
    MaxTries = 1
    MaxFrames = 2
    MaxEvictions = 1
    ListKinds = {"webhooks", "templates", "keys", "instances"}
    Entries = {f1, f2}
    NoEntry = NoEntry
    MaxTyped = 3
    MaxListCalls = 2
    MaxStrange = 1
    Names = {"a", "b", "c"}
    StoredRows <- TwoRows
    MaxMoves = 3
    SaveFaults = TRUE
SPECIFICATION DashboardSpec
INVARIANTS DashboardTypes LiveIsTrue
VIEW PartView
CHECK_DEADLOCK FALSE
