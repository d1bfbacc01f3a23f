CONSTANTS
    LiveIds = {1}
    NULL = NULL
    Channels = {c1}
    Requests = {r1}
    Main = main
    Slots = {k1, k2}
    Ops = {"add", "add_disabled", "enable", "disable", "delete"}
    Faults = {"ERROR"}
    MaxSessions = 1
    MaxBoots = 2
SPECIFICATION FairSpec
PROPERTIES
    RequestsReturn
    DisabledGoesQuiet
    LiveGetsMonitored
