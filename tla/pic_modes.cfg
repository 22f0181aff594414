CONSTANTS
    N = 3
    DeviceLines <- ModesDevices
    NonMaskable = {}
    Masks <- ModesMasks
    GuestOps <- ModesOps
    Icw1 <- AnyInit
SPECIFICATION Spec
INVARIANTS
    TypeOK
    NoSpuriousSignal
    NoCascadePanic
    TimerSignalled
CHECK_DEADLOCK FALSE
