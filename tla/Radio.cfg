SPECIFICATION FairSpec
CONSTANTS
  a1 = a1
  App = {a1}
  Rx = "rx"
  Wait <- Waits
  Reaction <- Reactions
  QueueDepth = 1
  RxDepth = 1
  BusyRetries = 1
  MaxCalls = 2
  MaxFrames = 1
INVARIANTS TypeOK RadioQuietDuringTx DeafIsKnown OwnResult
PROPERTIES BlockingCallReturns HearsAgain
CHECK_DEADLOCK FALSE
