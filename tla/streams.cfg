CONSTANTS
    MessageCount = 5
    DeckSize = 2
    Prime = 101
    Every = 3
    Count = 1
    Offset = 1
    LeakShutdowns = FALSE
    QueueSize = 1
    MaxInFlight = 1
    LookAhead = 3
    MaxDelayHeartbeats = 1
    Nothing <- MCNothing
    Heartbeat = heartbeat
SPECIFICATION FairSpec
INVARIANTS
    DeckKept
    WithinDeck
    Recovered
PROPERTIES
    Arrives
