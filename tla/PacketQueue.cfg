CONSTANTS
    MAX_CHANNELS_SENT_CONCURRENTLY = 3
    MAX_MESSAGE_NUMBER = 5
    MaxListLength = 3
    MaxLists = 5
    MaxAlone = 3
SPECIFICATION Spec
INVARIANTS
    CursorOnPacket
    ServedInTurn
    MessageNumbersDistinct
PROPERTY
    ImplementsMultiFifo
