SPECIFICATION FairSpec
CONSTANTS
    Data = {1, 2, 3}
    Junk = 0
    FifoSize = 3
    Messages = {}
    TxBufSize = 2
    Writers = {w1}
    Script <- OneScript
    MaxSignals = 0
    MaxFaults = 2
INVARIANT OneTransferAtATime
PROPERTY IsByteStream
