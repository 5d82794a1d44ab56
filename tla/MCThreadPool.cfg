SPECIFICATION FairSpec
CONSTANTS
    w1 = w1
    w2 = w2
    q1 = q1
    q2 = q2
    q3 = q3
    NULL = NULL
    Worker <- MCWorker
    Request <- MCRequest
    max_requests = 1
INVARIANTS
    NoEmptyPop
    QueueBound
    ExactlyOnce
PROPERTIES
    AcceptedRuns
CHECK_DEADLOCK FALSE
