SPECIFICATION StorageSpec
CONSTANTS
    APPLICATION_MAX_SIZE = 6
    EXT_INCOMING_SIZE = 8
    EXT_FLASH_SECTOR_SIZE = 4
    INTERNAL_FLASH_PAGE_SIZE = 2
    MAX_BOOT_ATTEMPTS = 3
    Bodies <- MCBodies
    ValidBodies <- MCValidBodies
    DefaultBody <- Idle1
    GenHalf = 4
    KindSets <- MCKindSets
    SectorBodies <- MCSectorBodies
    SectorGenHalf = 3
    MIN_IMAGE = 8
    MAX_IMAGE = 9
    INCOMING = 4
    SECTOR = 2
    Faults = TRUE
    REGION = 5
    ERASE = 2
    Values = {1, 2}
INVARIANTS
    IndInv
    BackupIsOriginal
PROPERTIES
    NewestNeverErased
    AtomicCommit
    BothKindsKept
    AtomicCheckpoint
