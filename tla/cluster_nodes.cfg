SPECIFICATION FairSpec
CONSTANTS
    Nodes = {n1, n2}
    NoNode = NoNode
    LeaderKey = leader_node
    ResetKey = reset_password
    Keys = {leader_node, reset_password}
    PasswordMaxAge = 0
    MaxRetries = 2
    MaxResets = 2
    MaxFaults = 1
    MaxStops = 1
INVARIANTS
    TypeOK
    LeaderOwnsLock
    StoppedNodeHoldsNoLock
    SecretMatchesDirectory
PROPERTIES
    ResetOnlyWhenExpired
    SomeLeader
