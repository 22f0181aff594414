CONSTANTS
    N = 3
    DeviceLines <- Irq2Devices
    NonMaskable = {}
    Masks <- ModesMasks
    GuestOps <- EoiOnly
    Icw1 <- PcInit
SPECIFICATION Spec
INVARIANT NoCascadePanic
CHECK_DEADLOCK FALSE
