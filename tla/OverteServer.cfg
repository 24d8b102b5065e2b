CONSTANTS
    N = 2
    Entity = 2
    MaxLaunches = 2
    MaxEdits = 2
    MaxFaults = 1
SPECIFICATION Spec
CHECK_DEADLOCK FALSE
INVARIANTS
    WorldsKept
    CleanTreeIsSaved
PROPERTIES
    NoneLeftBehind
    EverythingStops
    EditsReachFile
