SPECIFICATION DriversSpec
CONSTANTS
    Page <- MCPage
    HalfWord <- MCHalfWord
    Option <- MCOption
    MaxFaults = 1
    MaxCalls = 3
CHECK_DEADLOCK FALSE
PROPERTIES
    InternalFlashIsSound
    ExternalFlashIsSound
    RegistersAsAsked
