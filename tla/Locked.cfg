SPECIFICATION LockedSpec
CONSTANTS
    Data = {1, 2}
    Junk = 0
    FifoSize = 2
    RxBufSize = 2
    TxBufSize = 1
    Messages <- MCMessages
    ReadSizes = {2}
    Paced = {"host", "reader", "button"}
    Budget <- MCBudget
    w1 = w1
    w2 = w2
    Writers = {w1, w2}
    Script <- MCScript
    MaxSignals = 0
    MaxFaults = 0
    Cpus = 2
PROPERTIES
    FullDuplex
    NobodySpinsForEver
