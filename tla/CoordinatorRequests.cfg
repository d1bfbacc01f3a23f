CONSTANTS
    LiveIds = {1}
    NULL = NULL
    Channels = {c1}
    Requests = {r1, r2}
    Main = main
    Slots = {k1, k2, k3}
    Ops = {"add", "enable", "disable", "delete"}
    Faults = {"ERROR"}
    MaxSessions = 1
    MaxBoots = 1
SPECIFICATION Spec
SYMMETRY RequestSymmetry
INVARIANTS
    OneConnectionPerChannel
    NoOrphanTask
    DisabledIsQuiet
    OpenSessionHasOwner
