SPECIFICATION Spec
CONSTANTS
    u1 = u1
    u2 = u2
    g1 = g1
    g2 = g2
    Users = {u1, u2}
    Groups = {g1, g2}
    Self = Self
    NoRow = NoRow
    Unset = Unset
    Overlap = FALSE
    GroupChoices <- MCGroupChoices
    UserChoices <- MCUserChoices
    ActiveUsers = {u1}
    OldGroups = {g1}
    MaxReceive = 2
    MaxEvents = 4
    MaxFaults = 1
INVARIANTS
    TypeOK
    AccessIsExact
    DirectoryIsMirrored
    MembershipsMatchRows
CONSTRAINTS
    MCLongRuns
    MCNamedUsers
