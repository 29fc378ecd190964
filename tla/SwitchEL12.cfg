\* An interrupt between the load of ELR_EL2 and the eret.
SPECIFICATION Spec
CONSTANTS
    CmdKey = cmd
    ShutdownKey = s
    BeepKey = b
    StartKey = start
    UartIrq = uart33
    GuestLines = {spi34}
    NrRegions = 2
    RxSize = 2
    FifoSize = 2
    MaxTyped = 6
INVARIANT SwitchNeverReturns
