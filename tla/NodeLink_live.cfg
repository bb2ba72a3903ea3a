SPECIFICATION FairSpec
CONSTANTS
  QueueCapacity = 2
  WireCapacity = 3
  EagerUntil = 1
  GiveUpAt = 2
  AlarmSlots = 1
  SilenceLimit = 2
  SlaveWire = 2
  Asks = {"TURN"}
  MaxVersion = 2
  MaxFaults = 1
  InfoGroups = 1
  Prompt = TRUE
PROPERTIES ErrorRecovers Registers
