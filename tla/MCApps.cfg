\* Messages of five bytes; five packets past the tap, two sessions and two requests;
\* two control sessions of three commands and two data connections announced.
CONSTANTS
    Bytes = {0, 1, 2, 64, 192}
    MsgLen = 5
    NameMax = 4
    Xfer <- MCXfer
    Writes <- MCWrites
    ClientPort <- MCClientPort
    Blocks <- MCBlocks
    Conns <- MCConns
    Port <- MCPort
    SessLimit = 2
    ReqLimit = 2
    MaxPkt = 5
    MaxQuery = 1
    MaxCmd = 3
    MaxDcon = 2
    MaxCtl = 2
    MaxData = 2
SPECIFICATION MCSpec
INVARIANTS MCTypeOK NameRight AppOwned RecordedWhole ReportedOnce FtpSound
PROPERTIES NameEnds AllReleased
CHECK_DEADLOCK FALSE
