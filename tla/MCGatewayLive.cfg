SPECIFICATION LiveSpec
CONSTANTS
    Payloads <- MCStrangePayloads
    Files <- MCFiles
    Versions = {1}
    FRAGMENT = 2
    MAX_PAYLOAD = 4
    UINT32_MAX = 40
    MIN_SIZE = 8
    MAX_IMAGE = 9
    OUTBOX = 2
    MAX_LOSSES = 1
    MAX_MESSAGES = 1
    Bodies <- MCBodies
    Requests <- MCRequests
    SECTOR = 2
    DATA_SIZE = 4
    BUFFER = 2
    DOWNLOAD_LIMIT = 6
    Blank = Blank
    Garbage = Garbage
    WIFI_MAX_RETRIES = 10
CHECK_DEADLOCK FALSE
INVARIANTS
    OkMeansDone
PROPERTIES
    GatewayRecovers
