SPECIFICATION Spec
CONSTANTS
    XMS_START = 1
    LastPage = 7
    XMS_HANDLES = 3
    Sizes = {4, 7}
    MaxLock = 1
    PerPage = 2
    EMM_MAX_HANDLES = 3
    Frame = {0}
    Segments = {1}
    SystemPages = 1
    PageCounts = {0, 1, 2}
    MaxVcpi = 1
    Workloads = {"xms", "maps"}
    MaxCalls = 6
    MaxSaved = 1
INVARIANT VcpiTellsAddress
CHECK_DEADLOCK FALSE
