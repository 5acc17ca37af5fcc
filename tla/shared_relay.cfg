CONSTANTS
    Configurations <- SharedRelay
    MaxHeartbeats = 1
    Main = "main"
    Asio = "asio"
SPECIFICATION Spec
CHECK_DEADLOCK FALSE
INVARIANT NothingLost
