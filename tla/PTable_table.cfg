\* Three connections, two of them in one bucket, two entries, one cached, a ring for one; under fairness.
CONSTANTS
    Entries = {e1, e2}
    Keys = {k1, k2, k3}
    Bucket <- TwoBuckets
    Timeout = 1
    CacheLimit = 1
    RingCap = 1
    MaxTime = 3
    TimeMod = 8
    NoEntry = NoEntry
SPECIFICATION FairSpec
INVARIANTS TypeOK NoDangling CachesCounted OneEntryPerKey NoEntryLost WatchSafe
PROPERTY SilentFreed
CHECK_DEADLOCK FALSE
