CONSTANTS
    Configurations <- EarlyStopper
    MaxHeartbeats = 1
    Main = "main"
    Asio = "asio"
SPECIFICATION Spec
CHECK_DEADLOCK FALSE
INVARIANT StartedBeforeStopped
