CONSTANTS
    Messages = {m1}
    Kinds = {"forward", "incoming"}
    Reactors = {r1}
    MaxReactions = 2
    MaxAcks = 2
    Firings = 2
    LogFaults = {"db", "slow"}
    HookPlugins = {p, q}
    Sandboxed = {q}
    HookEvents = {e1, e2}
    Priorities = {1, 2}
    Chains = {c1, c2}
    MaxRegistrations = 2
    Requests = {q1, q2}
    PlainSends = {q2}
    Dialects = {"sqlite", "postgres"}
    BackupTables = {"sessions", "webhooks", "messages"}
    Owners = {o1, o2}
    Databases = {"sqlite", "postgres"}
    BackupFaults = {"db", "crash"}
    MaxClientWrites = 1
    Services = {"postgres"}
    Switches = {"queue", "extras"}
    InfraFaults = {"docker", "crash", "disk"}
    MaxSaves = 2
    Lids = {l1}
    Phones = {p1, p2}
    Accounts = {a1, a2}
    MaxWrites = 2
    MaxBoots = 1
    IdentityFaults = {"write", "load"}
    Instances = {n1, n2}
    Scopes = {"s1"}
    Secrets = {"k1"}
    MaxCalls = 2
    MaxStarts = 1
    InstanceFaults = {"unload", "crash"}
SPECIFICATION PlatformSpec
INVARIANTS PlatformTypes LogIsTrue ChainsAreSound EngineIsTrue SchemaIsCurrent InfraIsTrue IntegrationsAreSound
PROPERTY DeliveryAdvances
VIEW PartView
CHECK_DEADLOCK FALSE
