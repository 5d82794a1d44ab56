SPECIFICATION FairSpec
CONSTANTS
    w1 = w1
    w2 = w2
    k1 = k1
    k2 = k2
    NULL = NULL
    Work <- MCWork
    Worker <- MCWorker
    Delay <- MCDelay
    MaxTs = 3
    max_requests = 1
INVARIANT PoolReferenceHolds
CHECK_DEADLOCK FALSE
