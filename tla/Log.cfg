SPECIFICATION LogSpec
CONSTANTS
    Versions = {"log", "logdma"}
    Writers = {"w1", "w2"}
    Messages <- MCMessages
    DmaBufSize = 2
    Junk = 0
    UnclaimedLimit = 2
    Budgets <- MCBudgets
INVARIANTS
    LogTypeOK
    EveryInterruptClaimed
PROPERTIES
    IsJournal
    StormEnds
    WriteReturns
CHECK_DEADLOCK FALSE
