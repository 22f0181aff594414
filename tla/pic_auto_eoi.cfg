CONSTANTS
    N = 3
    DeviceLines <- ModesDevices
    NonMaskable = {}
    Masks <- ModesMasks
    GuestOps <- AutoEoiOps
    Icw1 <- PcInit
SPECIFICATION Spec
INVARIANT ReadyIsSignalled
CHECK_DEADLOCK FALSE
