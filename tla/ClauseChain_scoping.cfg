CONSTANTS
    Names <- MC_Names
    Labels <- MC_Labels
    NoName = NoName
    DefaultLabel = DefaultLabel
    MaxClauses = 2
    MaxPaths = 1
    MaxPathLen = 3
SPECIFICATION Spec
INVARIANTS RegistryScoping SameClauseFlagSound
CHECK_DEADLOCK FALSE
