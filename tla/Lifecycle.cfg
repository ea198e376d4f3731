SPECIFICATION LifeSpec
CONSTANTS
    Versions = {"week02", "week03", "week04", "memcpy", "log", "logdma"}
    Spare = 2
    Budget <- MCBudget
INVARIANTS
    LifecycleTypeOK
    NodesMatchTable
    UnbindGivesBack
    RepairsHold
PROPERTIES
    BoundIsSafe
    RetrySucceeds
CHECK_DEADLOCK FALSE
