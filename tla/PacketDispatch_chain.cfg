SPECIFICATION Spec
CONSTANTS
  RxTask = {t1}
  Mbuf = {m1, m2}
  TcpQueue = {tq}
  UdpQueue = {uq}
  SaQueue = {sq}
  CopyQueue = {sq}
  RingSize = 1
  IsFromPcap = FALSE
  Chains = {"single", "chained"}
  NoBuf = NoBuf
  NoQueue = NoQueue
SYMMETRY Symmetry
INVARIANTS ChainAlive
CHECK_DEADLOCK FALSE
