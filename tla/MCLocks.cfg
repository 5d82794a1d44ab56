SPECIFICATION LocksFairSpec
CONSTANTS
    t1 = t1
    t2 = t2
    t3 = t3
    r1 = r1
    r2 = r2
    u1 = u1
    NULL = NULL
    Nil = Nil
    Thread <- MCThread
    Reader <- MCReader
    Updater <- MCUpdater
    MaxUpdates = 2
    MaxJoins = 3
INVARIANTS
    MutualExclusion
    ReclaimSafe
PROPERTIES
    ImplementsFifoLock
    NoStarvation
    GracePeriodEnds
