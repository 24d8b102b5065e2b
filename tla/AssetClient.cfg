CONSTANTS
    MAX = 15
    THRESHOLD = 7
    Plan <- TwoMessages
    Initials = {1, 9}
    MaxResets = 2
    Kinds <- GetAndUpload
    MaxNodes = 2
SPECIFICATION ClientSpec
CHECK_DEADLOCK FALSE
INVARIANTS
    LossListIsAllMissing
    AckCoversOnlyReceived
    InOrderOnceWithoutDelay
    PendingUntilComplete
    AnsweredOnceAndWhole
PROPERTIES
    AcksAdvance
    DecidedIsAnswered
