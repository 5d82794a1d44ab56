SPECIFICATION Spec
CONSTANTS
    t1 = t1
    t2 = t2
    Place <- MCPlace
    Buckets = 2
    MaxDesc = 2
    None = None
    Thread <- MCThread
    Lens <- MCLens
    default_line = 4
    Bounds = {2}
    del_cnt = 3
    Level <- MCLevel
    MaxLines = 5
    Octet <- MCOctet
    BlockSize = 2
    MaxLen = 3
    MaxMessages = 2
    Char <- MCChar
    KeyLen = 3
    Overhead = 1
    TextLen = 4
    MaxKeys = 2
    Id = {1, 2}
    Offered <- MCOffered
    Value <- MCValue
    Base = 3
    MaxSent = 2
    NoDesc = NoDesc
    Key <- MCKey
    MaxNodes = 5
    NULL = NULL
INVARIANTS
    ReadsBack
    TextReadsBack
    ParsedAsMeant
    LeaksTold
    SortedStably
    LogKept
    DropsRepeats
PROPERTIES
    StaysInStep
CHECK_DEADLOCK FALSE
