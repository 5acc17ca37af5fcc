CONSTANTS
    Configurations <- LoneSources
    Nodes <- LoneSourcesNodes
    Width16 = 4
    Width32 = 8
SPECIFICATION Spec
INVARIANTS
    SourcesHaveDestinations
CHECK_DEADLOCK FALSE
