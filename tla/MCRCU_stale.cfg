SPECIFICATION RcuFairSpec
CONSTANTS
    r1 = r1
    r2 = r2
    u1 = u1
    Nil = Nil
    Reader <- MCReader
    Updater <- MCUpdater
    MaxUpdates = 2
    MaxJoins = 3
INVARIANT NoReadOfFreedVersion
