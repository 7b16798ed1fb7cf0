SPECIFICATION Spec
CONSTANTS
  a = a
  b = b
  r = r
  m1 = m1
  m2 = m2
  Node = {a, b}
  Broadcast = Broadcast
  Neighbour <- Pair
  Keyless = {}
  Rebroadcaster = {b}
  Msg = {m1, m2}
  NoMsg = NoMsg
  From <- FromA
  To <- ToB
  HopLimit <- OneHop
  Retransmissions = 1
  DupCacheSize = 2
  MaxAir = 4
  MaxId = 5
  Restartable = {a}
  MaxRestarts = 1
INVARIANT AckMeansDelivered
CHECK_DEADLOCK FALSE
