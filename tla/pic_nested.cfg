CONSTANTS
    N = 4
    DeviceLines <- NestedDevices
    NonMaskable = {}
    Masks <- NestedMasks
    GuestOps <- NestedOps
    Icw1 <- PcInit
SPECIFICATION Spec
INVARIANTS
    NestedSignal
    ActiveIsHighest
PROPERTY NestedPriority
CHECK_DEADLOCK FALSE
