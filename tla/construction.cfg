CONSTANTS
    Configurations <- MCConfigurations
    Nodes <- MCNodes
    Width16 = 4
    Width32 = 8
SPECIFICATION Spec
INVARIANTS
    Equipped
    StartsLast
    QueueFound
CHECK_DEADLOCK FALSE
