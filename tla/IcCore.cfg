\* Two registers of three lines: an SGI, a PPI of the guest's and the maintenance interrupt;
\* an SPI of nobody, one of the guest's and the UART.  The word of the heap promises no lines,
\* all lines, or too many; then the boot state ends as BootStates says.  A write to an enable
\* register sets its last two bits, which reaches the guest's PPI, its SPI and the UART.
SPECIFICATION SpecIc
CONSTANTS
    NrWords = 2
    WordSize = 3
    NrLRs = 2
    MaskLRs = 4
    Owned = {1, 4}
    UartIrq = 5
    NrSGIs = 1
    MaintIrq = 2
    Writes = {{1, 2}}
    BootStates = {{1, 5}}
    Firmware = {{}, {0, 1, 2, 3, 4, 5}}
    HeapValues = {0, 6, 7}
INVARIANTS
    OnlyExpected
PROPERTIES
    VirtGicSpec
    LrsReclaimed
