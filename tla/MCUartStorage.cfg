SPECIFICATION Spec
CONSTANTS
    Catalogues <- UniqueIds
    Wanted <- FullV2
    MTU = 2
    SECTOR = 4
    INCOMING_SIZE = 8
    MaxLag = 2
    FactoryVersion = 1
    StorageInitFails = TRUE
    RetryCount = 2
    MaxTransitions = 4
INVARIANTS
    OkIsReal
