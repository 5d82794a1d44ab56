SPECIFICATION ContainersSpec
CONSTANTS
    NULL = NULL
    v1 = v1
    v2 = v2
    l1 = l1
    l2 = l2
    x = "x"
    y = "y"
    t1 = t1
    t2 = t2
    k1 = k1
    k2 = k2
    k3 = k3
    w1 = w1
    w2 = w2
    Elt <- MCElt
    InitCap <- MCInitCap
    MaxCap = 6
    Garbage = NULL
    Size <- MCSize
    Large <- MCLarge
    psize = 12
    header = 3
    node = 2
    max = 7
    alignment = 2
    MaxBlocks = 3
    MaxLive = 4
    Label <- MCLabel
    Star = "*"
    Name <- MCName
    Datum <- MCDatum
    NoDatum = NULL
    Nil = Nil
    Thread <- MCThread
    Key <- MCKey
    Value <- MCValue
    size = 2
    Hash <- MCHash
SYMMETRY MCSymmetry
INVARIANTS
    PoolSound
    ExactOrWildcard
    ArrayComplete
PROPERTIES
    ImplementsQueue
    OnlyPathLosesValues
    ImplementsMap
CHECK_DEADLOCK FALSE
