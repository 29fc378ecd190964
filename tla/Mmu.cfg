\* Two MMUs, six regions, a pool that can run dry.
SPECIFICATION Spec
CONSTANTS
    Entries = 3
    Tables = {t1, t2, t3, t4, t5}
    Regions <- SmallRegions
    SaturnPage = 17
SYMMETRY TableSymmetry
INVARIANTS
    TypeOK
    TablesAccounted
    TranslationIsConfigured
PROPERTY OnlyOwnPages
