CONSTANTS
    Names <- MC_Names
    Labels <- MC_Labels
    NoName = NoName
    DefaultLabel = DefaultLabel
    MaxClauses = 3
    MaxPaths = 1
    MaxPathLen = 3
SPECIFICATION Spec
INVARIANTS ExistingNodeResolved
CHECK_DEADLOCK FALSE
