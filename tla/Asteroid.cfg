\* Lines 1 and 3 are the timer's 27 and the UART's 33.
SPECIFICATION SpecAsteroid
CONSTANTS
    NrWords = 2
    WordSize = 2
    NrLRs = 3
    MaskLRs = 4
    Owned = {1}
    UartIrq = 3
    Writes = {{1}}
    BootStates = {{}, {3}}
    TimerIrq = 1
    RxSize = 2
    MaxKeys = 3
    MaxTicks = 2
    MaxStops = 1
INVARIANT
    InterruptsHaveCause
PROPERTY
    GuestServed
