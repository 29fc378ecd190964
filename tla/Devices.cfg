\* The first and last offset of every array, the ones just outside it, and every register
\* of the redistributor and of the UART, with two accesses in a row.
SPECIFICATION Spec
CONSTANTS
    NrLines = 256
    Owned = {1, 32}
    MaxTraps = 2
    MaxKeys = 1
    Offsets <- MCOffsets
    Sizes = {2, 3}
    X0 <- MCX0
INVARIANTS
    TypeOK
    DecodeSound
PROPERTIES
    LoadLikeHardware
    StoreReadsBack
