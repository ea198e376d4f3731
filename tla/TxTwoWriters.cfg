SPECIFICATION Spec
CONSTANTS
    Data = {1, 2, 3}
    Junk = 0
    FifoSize = 3
    Messages = {}
    TxBufSize = 2
    Writers = {w1, w2}
    Script <- ShortScript
    MaxSignals = 0
    MaxFaults = 0
PROPERTY WaitsForDma
