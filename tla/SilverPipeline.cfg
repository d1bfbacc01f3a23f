SPECIFICATION Spec
CONSTANTS
    Tables <- TwoTables
    NoKey = NoKey
    Arrivals <- Frames
    StartingOffsets = {"earliest", "latest"}
    MaxFaults = 1
    Unseen = Unseen
    Blocked = Blocked
INVARIANTS
    TypeOK
    BronzeIsComplete
    ProcessedUnambiguous
    NativeMatchesReference
    TablesAreOrderFree
    OneRowPerKey
    NothingLost
PROPERTIES
    VerdictsHold
    PipelineCatchesUp
