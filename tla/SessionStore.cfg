CONSTANTS
    LiveIds = {1, 2}
    NULL = NULL
    Channels = {c1}
    MaxSessions = 3
    MaxClock = 2
SPECIFICATION Spec
INVARIANTS
    TypeOK
    OnlyNewestOpen
    NoOverlap
    BroadcastNotSplit
PROPERTY
    HistoryKept
