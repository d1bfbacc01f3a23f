CONSTANTS
    LiveIds = {1, 2}
    NULL = NULL
    Channels = {c1}
    Requests = {r1}
    Main = main
    Slots = {k1, k2}
    Ops = {"add", "add_disabled", "enable", "disable", "delete"}
    Faults = {"ERROR"}
    MaxSessions = 2
    MaxBoots = 1
SPECIFICATION Spec
PROPERTY
    StoreSpec
