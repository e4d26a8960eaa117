SPECIFICATION Spec
CONSTANTS
    Catalogues <- AnyIds
    Wanted <- FullV2
    MTU = 2
    SECTOR = 4
    INCOMING_SIZE = 8
    MaxLag = 2
    FactoryVersion = 1
    StorageInitFails = FALSE
    RetryCount = 2
    MaxTransitions = 4
CONSTRAINT Unsettled
INVARIANTS
    TypeOK
    StagedWithoutHoles
    ReadyMeansWhole
    CheckpointBehind
    OkIsReal
    ContinuesItsOwn
