\* Any write to an enable register: no bit, one or both.
SPECIFICATION Spec
CONSTANTS
    NrWords = 2
    WordSize = 2
    NrLRs = 2
    MaskLRs = 4
    Owned = {0, 2}
    UartIrq = 3
    Writes = {{}, {0}, {1}, {0, 1}}
    BootStates = {{}, {2, 3}}
INVARIANTS
    TypeOK
    HwLineOnce
    EnablesAgree
    NoLineLost
PROPERTIES
    LrsKeepInterrupts
