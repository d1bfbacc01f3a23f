SPECIFICATION Spec
CONSTANTS
    TicksPerMinute = 2
    MaxTime = 3
    MaxSessions = 2
    MaxEvents = 1
    MaxTroubles = 2
INVARIANTS
    TypeOK
    CountedOnce
    MinutesAreExact
    RowsFollowMinutes
