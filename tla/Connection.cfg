CONSTANTS
    MAX = 31
    THRESHOLD = 15
    Initials = {2, 9}
    MaxPackets = 3
    MaxCleanups = 2
    FlowWindow = 2
    MaxLate = 1
SPECIFICATION FairSpec
CHECK_DEADLOCK FALSE
INVARIANTS
    TypeOK
    DeliveredAtMostOnce
    AckedWasDelivered
    UnackedCanBeResent
PROPERTY
    EveryPacketSettled
