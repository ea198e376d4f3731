SPECIFICATION Spec
CONSTANTS
    Data = {1, 2}
    Junk = 0
    FifoSize = 3
    RxBufSize = 3
    Messages <- MCMessages
    ReadSizes = {1, 3}
    Paced = {"host", "reader", "button"}
    Budget <- PacedBudget
INVARIANTS
    TransferIsOwned
    RestIsClean
PROPERTY IsMailbox
