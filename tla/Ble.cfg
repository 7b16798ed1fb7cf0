SPECIFICATION FairSpec
CONSTANTS
  lora = lora
  Producer = {lora}
  QueueSize = 1
  MaxChannels = 1
  NConfigs = 0
  NModules = 1
  NoConfig = {}
  NoModule = {0}
  MaxRequests = 2
  MaxPackets = 2
  MaxCommands = 2
  MaxLinks = 2
INVARIANTS ReadInOrder NoLostWakeup
PROPERTIES ConnectionsApart PhoneIsServed
CHECK_DEADLOCK FALSE
