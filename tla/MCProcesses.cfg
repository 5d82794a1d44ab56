SPECIFICATION ProcessesFairSpec
CONSTANTS
    NULL = NULL
    p1 = p1
    p2 = p2
    s1 = s1
    s2 = s2
    a1 = a1
    a2 = a2
    c1 = c1
    c2 = c2
    Number <- MCNumber
    NoPid = NoPid
    Server <- MCServer
    Pid <- MCPid
    Command <- MCCommand
    QueueLen = 1
    MaxRuns <- MCRuns
    NoPeer = NoPeer
    Peer <- MCPeer
    Payload <- MCPayload
    Header = 2
    CacheSize = 5
    PipeSize = 9
    MaxSent = 4
INVARIANTS
    SignalsItsChild
    AnswerForOwnRequest
    NoClientForgotten
    DealtAsSent
PROPERTIES
    EveryEndAnswered
    EveryClientServed
    EveryMessageDealt
CHECK_DEADLOCK FALSE
