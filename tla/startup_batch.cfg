SPECIFICATION FairSpec
CONSTANTS
    FirstMCB = 10
    UmbStart = 22
    Top = 28
    DOS_FILES = 3
    TableSize = 2
    LongTables = {3}
    Automount = 1
    Autostart = 1
    MaxCommands = 2
    MaxReturns = 1
    Shell = 9
    Sizes = {1}
    Strategies <- MCStrategies
    Programs <- MCPrograms
    EnvSize = 1
    Workloads = {"shell"}
    MaxLost = 0
    MaxProcs = 3
    MaxCalls = 2
PROPERTY StartupRuns
