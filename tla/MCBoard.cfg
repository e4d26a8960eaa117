SPECIFICATION BoardSpec
CONSTANTS
    INTERNAL_SRAM_BASE <- MCSramBase
    INTERNAL_SRAM_END <- MCSramEnd
    APPLICATION_START_ADDRESS <- MCApplicationStart
    APPLICATION_MAX_SIZE <- MCMaxSize
    BOOT_METADATA_ADDRESS <- MCMetadata
    StackPointers <- MCStackPointers
    ResetHandlers <- MCResetHandlers
    Sizes <- MCSizes
    MaxResets = 2
INVARIANTS
    VectorsAgree
    StartupIsSafe
    SetupIsSafe
PROPERTIES
    BoardComesUp
