SPECIFICATION FairSpec
CONSTANTS
    m1 = m1
    m2 = m2
    m3 = m3
    g1 = g1
    g2 = g2
    Messages = {m1, m2, m3}
    Groups = {g1, g2}
    GroupOf <- MCGroupOf
    KindsOf <- MCKindsOf
    Threads = {t1, t2}
    NoThread = NoThread
    MinThreads = 1
    MaxThreads = 2
    MessageCountPerThread = 1
    MaxReceiveCount = 2
    MaxPublished = 2
    MaxFaults = 1
    MaxStops = 1
INVARIANTS
    TypeOK
    ExactlyOnceWithoutFaults
    MinThreadsServe
    LiveThreadsAreKnown
PROPERTIES
    ImplementsOrderedDelivery
    EveryMessageSettles
    StopCompletes
