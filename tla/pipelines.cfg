CONSTANTS
    Configurations <- All
    MaxHeartbeats = 1
    Main = "main"
    Asio = "asio"
SPECIFICATION FairSpec
\* An application that never calls stop() waits for ever.
CHECK_DEADLOCK FALSE
INVARIANTS
    TypeOK
    StartedBeforeHandle
    SoloEstablished
    InOrder
    NothingLost
PROPERTIES
    QuietAfterFinish
    ShutsDown
    ShutdownArrives
