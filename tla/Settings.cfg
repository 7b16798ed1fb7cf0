SPECIFICATION FairSpec
CONSTANTS
  MaxChannels = 2
  Name <- Names
  Psk <- Psks
  ConfigChannel <- Built
  Edit <- Edits
  Device = {client, mute}
  Device0 = client
  client = client
  mute = mute
  NoRecord = NoRecord
  NoTable = NoTable
  MaxEdits = 3
  MaxResets = 2
INVARIANTS TypeOK OnePrimary OwnHashCurrent DirtyIsScheduled LiveFollowsStore RebootRestores
  LastPrimaryWins
PROPERTY EditsReachFlash
CHECK_DEADLOCK FALSE
