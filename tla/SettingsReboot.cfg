SPECIFICATION Spec
CONSTANTS
  MaxChannels = 2
  Name <- Names
  Psk <- Psks
  ConfigChannel <- Built
  Edit <- Edits
  Device = {client, mute}
  Device0 = client
  client = client
  mute = mute
  NoRecord = NoRecord
  NoTable = NoTable
  MaxEdits = 3
  MaxResets = 2
INVARIANT ChannelsSurviveReboot
CHECK_DEADLOCK FALSE
