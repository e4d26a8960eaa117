SPECIFICATION Spec
CONSTANTS
    Versions = {1, 2, 3}
    ImageSize <- MCImageSize
    FactoryVersion = 1
    APPLICATION_MAX_SIZE = 6
    EXT_INCOMING_SIZE = 8
    EXT_FLASH_SECTOR_SIZE = 4
    INTERNAL_FLASH_PAGE_SIZE = 2
    MAX_BOOT_ATTEMPTS = 3
    Builds = {FALSE}
    Offers <- MCHonestOffers
    HostFollowsPlan = FALSE
INVARIANT BackupRetained
