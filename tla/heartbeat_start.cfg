CONSTANTS
    Configurations <- OnlyHeartbeats
    MaxHeartbeats = 1
    Main = "main"
    Asio = "asio"
SPECIFICATION FairSpec
\* An application that never calls stop() waits for ever.
CHECK_DEADLOCK FALSE
INVARIANT HeartbeatsServed
