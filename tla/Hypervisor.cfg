\* Every passing property of the VM's life; six keys reach a start, a shutdown
\* and a second start, or a start, two shutdowns in one interrupt and a restart.
SPECIFICATION Spec
CONSTANTS
    CmdKey = cmd
    ShutdownKey = s
    BeepKey = b
    StartKey = start
    UartIrq = uart33
    GuestLines = {spi34}
    NrRegions = 2
    RxSize = 2
    FifoSize = 2
    MaxTyped = 6
INVARIANTS
    TypeOK
    GuestFullyBacked
    RequestStaysInHandler
    StateAgrees
PROPERTIES
    ShutdownHappens
    UartServiced
    ContractSpec
