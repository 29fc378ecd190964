\* Two blocks a pool, three pools, three traps: every list can be empty, single and full.
SPECIFICATION Spec
CONSTANTS
    NrPools = 3
    HeapSize = 2
    PagePool = 3
    NodeClass = 2
    Traps <- SmallTraps
    Region <- SmallRegion
    Addresses <- SmallAddresses
INVARIANTS
    TypeOK
    BlocksAccounted
    TrapDispatch
PROPERTIES
    NoWriteAfterFree
    ContractSpec
