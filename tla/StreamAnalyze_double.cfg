\* Packets may be lost before the tap: is a session that is complete freed twice?
CONSTANTS
    ReqLen = 2
    ResLen = 2
    ReqIsn = 100
    ResIsn = 200
    MaxSeg = 2
    DataFin = FALSE
    UdpKeys = {}
    UdpSizes = {}
    MaxPlen = 2
    MaxDsize = 512
    PreAlloc = 1
    DstoreLimits = 1
    BreakDataOk = TRUE
SPECIFICATION LossySpec
INVARIANT BreakEnds
CHECK_DEADLOCK FALSE
