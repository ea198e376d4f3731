SPECIFICATION FairSpec
CONSTANTS
    Data <- MCData
    Junk = 0
    FifoSize = 3
    Letters <- MCLetters
    ReadSizes = {2}
    w1 = w1
    w2 = w2
    Writers = {w1, w2}
    NoOne = NoOne
    Script <- MCScript
    Cpus = 2
    MaxReads = 2
    MaxSignals = 1
    MaxActs = 3
INVARIANT PioTypeOK
PROPERTIES
    IsMailbox
    LostToSignalsOnly
    IsByteStream
    LockIsShared
