CONSTANTS
    LookAhead = 3
    MaxDelayHeartbeats = 2
    Numbers <- MCNumbers
    Nothing = nothing
SPECIFICATION FairSpec
INVARIANTS
    Sorted
    NothingLost
PROPERTIES
    ShutdownFlushes
    HandleReturns
    StashIsSent
