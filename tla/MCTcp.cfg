\* A connection with three bytes from the client and two from the server, a FIN in a
\* packet of its own; at most two stores for it and a UDP session; and a stream of nine
\* bytes in segments of up to four, whose sequence numbers wrap in its middle.
CONSTANTS
    ReqLen = 3
    ResLen = 2
    ReqIsn = 100
    ResIsn = 200
    MaxSeg = 2
    DataFin = FALSE
    UdpKeys = {udp1}
    UdpSizes = {3}
    MaxPlen = 2
    MaxDsize = 512
    PreAlloc = 1
    DstoreLimits = 1
    BreakDataOk = TRUE
    W = 16
    StreamLen = 9
    MaxLen = 4
    Window = 9
    InitSeq = 12
SPECIFICATION MCSpec
INVARIANTS
    MCTypeOK Followed ClosedComplete NoFalseDiscard ClosedOnce
    StoresOwned StreamPrefix RecordComplete OneRecord
    InOrder FragsApart
PROPERTY StreamSpec
CHECK_DEADLOCK FALSE
