SPECIFICATION Spec
CONSTANTS
    TicksPerMinute = 2
    MaxTime = 1
    MaxSessions = 1
    MaxEvents = 1
    MaxTroubles = 1
PROPERTIES
    DeletesReachOngoing
