SPECIFICATION Spec
CONSTANTS
    ApiWorkers = {w1}
    Hibernation = FALSE
    Scheduled = TRUE
    DedupWindow = TRUE
    Reorder = TRUE
    MaxInFlight = 2
    MaxCalls = 2
    MaxFaults = 1
    MaxOutages = 0
    MaxCommands = 3
    SESSION_CREATION_THRESHOLD_COUNT = 1
    VALIDATION_REQUEST_THRESHOLD = 2
    SESSION_DELETED_THRESHOLD = 1
    RESUME_REQUEST_COUNT_THRESHOLD = 1
INVARIANTS
    TypeOK
    HardwareReleasedOnlyIfAsked
    NoLeakedHost
CHECK_DEADLOCK FALSE
