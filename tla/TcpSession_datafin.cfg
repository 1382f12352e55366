\* A FIN may come with data: is a session ever discarded although nothing was missed?
CONSTANTS
    ReqLen = 3
    ResLen = 2
    ReqIsn = 100
    ResIsn = 200
    MaxSeg = 2
    DataFin = TRUE
SPECIFICATION Spec
INVARIANT NoFalseDiscard
CHECK_DEADLOCK FALSE
