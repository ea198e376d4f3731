SPECIFICATION FairSpec
CONSTANTS
    Data = {1}
    Junk = 0
    FifoSize = 3
    RxBufSize = 3
    Messages <- MCLengths
    ReadSizes = {2}
    Paced = {}
    Budget <- CrowdBudget
INVARIANTS
    RxTypeOK
    ReadStaysInBuffer
PROPERTY SettlesDown
