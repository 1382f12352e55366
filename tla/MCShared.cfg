\* A ring of two entries of two records; a table of three items; two receive tasks and a
\* pool of two statistics entries, with a ring that has room for one or for both.
CONSTANTS
    Count = 2
    PerEntry = 2
    CountMod = 8
    MaxRec = 3
    MaxFault = 1
    ItemNumber = 3
    MaxId = 4
    Watch <- MCWatch
    RxTasks = {r1, r2}
    PoolSize = 2
    RingCaps = {1, 2}
    TimeUp = 2
    TimeMod = 16
    MaxTime = 4
SPECIFICATION MCSpec
INVARIANTS MCTypeOK TypeOK CountInRange ItemsKept TableExact StatKept
PROPERTIES QueueSpec Delivered PeriodForward
CHECK_DEADLOCK FALSE
