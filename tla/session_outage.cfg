SPECIFICATION Spec
CONSTANTS
    ApiWorkers = {w1}
    Hibernation = TRUE
    Scheduled = TRUE
    DedupWindow = FALSE
    Reorder = FALSE
    MaxInFlight = 1
    MaxCalls = 2
    MaxFaults = 0
    MaxOutages = 1
    MaxCommands = 3
    SESSION_CREATION_THRESHOLD_COUNT = 1
    VALIDATION_REQUEST_THRESHOLD = 2
    SESSION_DELETED_THRESHOLD = 1
    RESUME_REQUEST_COUNT_THRESHOLD = 1
INVARIANTS
    DeletionIsDriven
    CreationIsDriven
CHECK_DEADLOCK FALSE
