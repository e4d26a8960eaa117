SPECIFICATION Spec
CONSTANTS
    Payloads <- MCPayloads
    Files <- MCFiles
    Versions = {1}
    FRAGMENT = 2
    MAX_PAYLOAD = 4
    UINT32_MAX = 40
    MIN_SIZE = 8
    MAX_IMAGE = 9
    OUTBOX = 2
    MAX_LOSSES = 1
    MAX_MESSAGES = 2
CHECK_DEADLOCK FALSE
INVARIANTS
    InstallsWhatWasOrdered
    ReportsAreTrue
PROPERTIES
    DeliveredIsQueued
