CONSTANTS
    Names <- MCNames
    Blocks = {1, 2, 3, 4, 5, 6, 7, 8, 9}
    Capacity = 2
    Items <- MCItems
    Types = {"unused"}
    Unused = "unused"
    NoBlock = 0
    Candidates <- MCCandidates
    Spare = 3
    Junk <- MCJunk
SPECIFICATION FairSpec
\* The programs end.
CHECK_DEADLOCK FALSE
INVARIANTS
    TypeOK
    InOrder
    NobodyFails
PROPERTIES
    ImplementsValues
    Ends
