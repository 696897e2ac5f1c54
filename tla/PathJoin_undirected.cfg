CONSTANTS
    Vtx <- MC_Vtx
    Edg <- MC_Edg
    VLabels <- MC_VLabels
    DefaultLabel = "default"
    Directions = {"left", "right", "none"}
    MaxEdges = 2
SPECIFICATION Spec
INVARIANTS EdgePathSound
CHECK_DEADLOCK FALSE
