SPECIFICATION Spec
CONSTANTS
  RxTask = {t1, t2}
  Mbuf = {m1, m2, m3}
  TcpQueue = {tq}
  UdpQueue = {uq}
  SaQueue = {sq}
  CopyQueue = {sq}
  RingSize = 1
  IsFromPcap = FALSE
  Chains = {"single"}
  NoBuf = NoBuf
  NoQueue = NoQueue
SYMMETRY Symmetry
INVARIANTS NoLeak
CHECK_DEADLOCK FALSE
