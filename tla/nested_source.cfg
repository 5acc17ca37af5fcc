CONSTANTS
    Configurations <- NestedSources
    Nodes <- NestedSourcesNodes
    Width16 = 4
    Width32 = 8
SPECIFICATION Spec
INVARIANTS
    NothingSentEarly
CHECK_DEADLOCK FALSE
