CONSTANTS
    MAX = 15
    THRESHOLD = 7
    Initial = 3
    NumPackets = 2
    FlowWindows = {2}
    MaxLosses = 1
SPECIFICATION FairSpec
CHECK_DEADLOCK FALSE
PROPERTY
    WaitEnds
