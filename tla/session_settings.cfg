SPECIFICATION Spec
CONSTANTS
    g1 = g1
    g2 = g2
    p1 = p1
    Guests = {g1, g2}
    Profiles = {p1}
    Gone = Gone
    Keep = Keep
    Wishes <- MCWishes
    WorkingHours <- MCHours
    Times <- MCTimes
    Requests <- MCRequests
    Starts <- MCStarts
    MaxReceive = 2
    MaxEvents = 2
    MaxFaults = 1
INVARIANTS
    TypeOK
    PermissionsEnforced
    GrantsAsAsked
    ScheduleAsAsked
    DeletionFailsOnlyIfDisturbed
    NothingLeftBehind
PROPERTY
    ChecksFollowSchedule
