SPECIFICATION FairSpec
CONSTANTS
    Data = {1}
    Junk = 0
    FifoSize = 3
    Messages = {}
    TxBufSize = 2
    Writers = {w1, w2}
    Script <- LengthScript
    MaxSignals = 1
    MaxFaults = 1
INVARIANT TxTypeOK
PROPERTY WritesReturn
