CONSTANTS
    Calls = {l1, l2, l3, l4, l5}
    MaxSlots = 2
    MaxQueued = 2
    Batches = {b1}
    Items = 3
    Cadence = 2
    MaxBatches = 1
    BulkFaults = {"crash", "db"}
    HostCalls = {a1, a2}
    Caps = {k1, k2}
    CallEvents = {e1}
    CallKinds = {"load", "hook", "webhook"}
    MaxInFlightCaps = 1
    Plugins = {p}
    Versions = {"v1", "v2"}
    Settings = {"s1", "s2"}
    DefaultSettings = "s1"
    PluginEvents = {e1}
    MaxWorkers = 3
    MaxRestarts = 1
    Deliveries = {d1}
    RetryCounts = {0, 1, 3}
    MaxCrashes = 2
    HookFaults = {"db", "redis"}
SPECIFICATION ServicesSpec
INVARIANTS ServiceTypes LimiterIsExact BatchIsTrue SandboxIsExact RuntimeFollowsStatus VerdictIsTrue
PROPERTIES NoOvertaking UpdateKeepsPlugin EverythingEnds
CHECK_DEADLOCK FALSE
