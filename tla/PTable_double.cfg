\* Two connections: is an entry ever freed twice?
CONSTANTS
    Entries = {e1, e2}
    Keys = {k1, k2}
    Bucket <- OneBucket
    Timeout = 1
    CacheLimit = 1
    RingCap = 2
    MaxTime = 3
    TimeMod = 8
    NoEntry = NoEntry
SPECIFICATION FairSpec
INVARIANT FreedOnce
CHECK_DEADLOCK FALSE
