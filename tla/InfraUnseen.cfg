CONSTANTS
    Services = {"redis", "minio"}
    Switches = {"queue", "engine", "extras"}
    InfraFaults = {}
    MaxSaves = 1
SPECIFICATION InfraSpec
PROPERTY SaveKeepsUnseen
CHECK_DEADLOCK FALSE
