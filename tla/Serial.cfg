SPECIFICATION FairSpec
CONSTANTS
  lora = lora
  Producer = {lora}
  QueueSize = 2
  MaxChannels = 2
  NConfigs = 2
  NModules = 1
  NoConfig = {0}
  NoModule = {0}
  MaxRequests = 2
  TxSize = 1
  RxSize = 1
  Oversize <- TooLong
  MaxPackets = 3
  MaxCommands = 2
INVARIANTS TypeOK PacketsInOrder HandshakeInOrder NoLostWakeup
PROPERTY PhoneIsServed
CHECK_DEADLOCK FALSE
