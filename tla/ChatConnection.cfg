SPECIFICATION Spec
CONSTANTS
    MaxFrames = 2
    MaxRecords = 1
    TimeoutLevels <- Levels
    PublishTimeout = 1
INVARIANTS
    TypeOK
    OnlyTheLastFrameMayBeLost
    CountedWasPublished
    PausedKeyIsResumed
    SnapshotIsFresh
PROPERTIES
    InactivityWasAnnounced
    InactiveMeansQuiet
    NothingHandedAfterEnd
    CancelEnds
    SilentConnectionEnds
    Reconnects
