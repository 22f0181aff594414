SPECIFICATION FairSpec
CONSTANTS
    FirstMCB = 10
    UmbStart = 22
    Top = 28
    DOS_FILES = 3
    TableSize = 2
    LongTables = {3}
    Automount = 1
    Autostart = 1
    MaxCommands = 3
    MaxReturns = 1
    Shell = 9
    Sizes = {0, 1, 3}
    Strategies <- MCStrategies
    Programs <- MCPrograms
    EnvSize = 1
    Workloads = {"memory", "files", "shell"}
    MaxLost = 1
    MaxProcs = 3
    MaxCalls = 4
INVARIANTS
    TypeOK
    Tiling
    OwnersLive
    NoExecPanic
    CompressIsLoop
    RefsCounted
    SharedStaysOpen
    TakenInOrder
PROPERTIES
    NoTheft
    ImplementsAllocator
    CommandsTaken
