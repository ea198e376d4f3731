SPECIFICATION DeviceSpec
CONSTANTS
    Data = {1, 2}
    FifoSize = 4
    Messages <- MCMessages
INVARIANTS
    DeviceTypeOK
    FlagsTellFifos
    LinesFollowState
PROPERTY PendingStaysTrue
