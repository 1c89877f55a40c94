CONSTANTS
    Msgs = {m1, m2}
    Skew = 1
    InboundSlots = 1
    InboundQueues = {0, 1}
    MaxClock = 4
    MapFails = TRUE
    Files = {f1, f2}
    MaxFileBoots = 1
    MaxJobs = 2
    FileFaults = {"read", "write", "corrupt"}
    Inbox = {i1, i2}
    Groups = {g1}
    Directs = {}
    MinInterval = 2
    DedupeFor = 2
    AdminTtl = 1
    RefusedTtl = 1
    MaxTicks = 2
    MaxDeliveries = 2
    Cards = {d1, d2}
    NoCard = NoCard
    AtFirst = {"new", "qr_ready"}
    MaxSteps = 3
    MaxInFlight = 2
    PageFaults = {"socket", "answer"}
    Stored = {m1, m2, m3}
    StoreLimit = 1
    MaxPuts = 3
    StoreFaults = TRUE
    Relays = {p, q}
    TalkChats = {c1, c2}
    Providers = {"v1"}
    MaxTalks = 2
    GateFaults = {"db"}
SPECIFICATION ApplicationSpec
INVARIANTS ApplicationTypes IncomingIsHandled KeptIsKept ConversationsStand PageIsSound
PROPERTY ApplicationEnds
CHECK_DEADLOCK FALSE
