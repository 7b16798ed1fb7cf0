SPECIFICATION FairSpec
CONSTANTS
  Node = {1, 2, 3}
  Local = 1
  MaxNodes = 2
  MaxUptime = 1
  PublishQueueSize = 1
  BudgetOnConnect = 1
  BudgetPerLoop = 1
  MaxFailures = 1
  MapReport = MapReport
  Near <- MCNear
  Far <- MCFar
  Own <- MCOwn
  CacheSize = 2
  MaxPackets = 4
INVARIANTS
  TypeOK
  NoEcho
  CacheHeals
  NodeDbKeepsRecent
PROPERTIES
  QueueDrains
CHECK_DEADLOCK FALSE
