SPECIFICATION FairSpec
CONSTANTS
  p1 = p1
  p2 = p2
  p3 = p3
  Packet = {p1, p2}
  None = None
  Info <- TwoIds
  MaxPending = 1
  Retransmissions = 1
  Interval = 1
  Jitter = 0
  MaxLag = 0
  RxThread = {r1}
PROPERTIES
  AckableSendIsReported
CHECK_DEADLOCK FALSE
