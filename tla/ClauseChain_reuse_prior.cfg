CONSTANTS
    Names <- MC_Names
    Labels <- MC_Labels
    NoName = NoName
    DefaultLabel = DefaultLabel
    MaxClauses = 2
    MaxPaths = 1
    MaxPathLen = 3
SPECIFICATION Spec
INVARIANTS ReuseConflictRejected
CHECK_DEADLOCK FALSE
