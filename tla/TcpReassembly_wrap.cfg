\* A stream longer than the range of an offset.
CONSTANTS
    W = 8
    StreamLen = 10
    MaxLen = 2
    Window = 2
    InitSeq = 0
SPECIFICATION AsmSpec
INVARIANT BytesKept
CHECK_DEADLOCK FALSE
