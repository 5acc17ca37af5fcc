CONSTANTS
    LookAhead = 3
    MaxDelayHeartbeats = 2
    Numbers <- MCNumbers
    Nothing = nothing
SPECIFICATION Spec
INVARIANTS
    Increasing
