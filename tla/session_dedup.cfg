SPECIFICATION Spec
CONSTANTS
    ApiWorkers = {w1}
    Hibernation = FALSE
    Scheduled = TRUE
    DedupWindow = TRUE
    Reorder = FALSE
    MaxInFlight = 1
    MaxCalls = 3
    MaxFaults = 0
    MaxOutages = 0
    MaxCommands = 3
    SESSION_CREATION_THRESHOLD_COUNT = 1
    VALIDATION_REQUEST_THRESHOLD = 2
    SESSION_DELETED_THRESHOLD = 1
    RESUME_REQUEST_COUNT_THRESHOLD = 1
INVARIANTS
    TerminationFinishes
CHECK_DEADLOCK FALSE
