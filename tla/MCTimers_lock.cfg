SPECIFICATION TimersSpec
CONSTANTS
    Root = Root
    NULL = NULL
    c1 = c1
    t1 = t1
    t2 = t2
    n1 = n1
    n2 = n2
    n3 = n3
    Node <- MCNode
    Cycle <- MCCycle
    solt_nb = 2
    Timer <- MCTimer
    Target <- MCTarget
    Delay <- MCDelay
    Second = 2
    Epoch = 4
    MaxTime = 6
    MaxTs = 3
SYMMETRY MCSymmetry
VIEW MCView
INVARIANTS
    TickReturnsWhenLocked
CHECK_DEADLOCK FALSE
