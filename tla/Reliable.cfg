SPECIFICATION FairSpec
CONSTANTS
  p1 = p1
  p2 = p2
  p3 = p3
  Packet = {p1, p2, p3}
  None = None
  Info <- SharedIds
  MaxPending = 2
  Retransmissions = 1
  Interval = 1
  Jitter = 0
  MaxLag = 1
  RxThread = {r1}
INVARIANTS
  TypeOK
  Accounted
  TimerCovers
  TimeoutMeansExhausted
PROPERTIES
  TrackedIsReported
  NoStaleRetransmission
  Contract
CHECK_DEADLOCK FALSE
