CONSTANTS
    Names <- MC_Names
    Labels <- MC_Labels
    NoName = NoName
    DefaultLabel = DefaultLabel
    MaxClauses = 1
    MaxPaths = 1
    MaxPathLen = 3
SPECIFICATION Spec
INVARIANTS ColumnNamesUnique
CHECK_DEADLOCK FALSE
