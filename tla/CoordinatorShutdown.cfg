CONSTANTS
    LiveIds = {1}
    NULL = NULL
    Channels = {c1}
    Requests = {r1}
    Main = main
    Slots = {k1, k2}
    Ops = {"add", "add_disabled", "enable", "disable", "delete"}
    Faults = {"NOT_FOUND", "ERROR"}
    MaxSessions = 2
    MaxBoots = 2
SPECIFICATION Spec
PROPERTY
    ShutdownClosesSessions
