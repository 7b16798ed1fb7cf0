SPECIFICATION Spec
CONSTANTS
  a = a
  b = b
  r = r
  m1 = m1
  m2 = m2
  Node = {a, b, r}
  Broadcast = Broadcast
  Neighbour <- Line
  Keyless = {b}
  Rebroadcaster = {a, b, r}
  Msg = {m1, m2}
  NoMsg = NoMsg
  From <- FromAR
  To <- ToNext
  HopLimit <- OneHop
  Retransmissions = 1
  DupCacheSize = 2
  MaxAir = 3
  MaxId = 5
  Restartable = {r}
  MaxRestarts = 1
INVARIANTS AckedImpliesDelivered DeliveredOnce RelayedOnce AcksComeToAnEnd
CHECK_DEADLOCK FALSE
