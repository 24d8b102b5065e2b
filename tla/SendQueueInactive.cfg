CONSTANTS
    MAX = 15
    THRESHOLD = 7
    Initial = 3
    NumPackets = 3
    FlowWindows = {2}
    MaxLosses = 1
SPECIFICATION Spec
CHECK_DEADLOCK FALSE
INVARIANT
    InactiveQueueIsEmpty
