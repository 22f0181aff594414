SPECIFICATION FairSpec
CONSTANTS
    CountMax = 11
    Types = {"pro", "sb16"}
    Sizes = {3, 6}
    Pulls = {1, 4}
    DmaMin = 4
    MinSize = 2
    WordSize = 16
    MaxCalls = 6
INVARIANTS
    TypeOK
    LeftInCycle
    InStep
PROPERTIES
    PauseHolds
    TransferEnds
CHECK_DEADLOCK FALSE
