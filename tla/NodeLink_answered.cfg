SPECIFICATION Spec
CONSTANTS
  QueueCapacity = 2
  WireCapacity = 1
  EagerUntil = 1
  GiveUpAt = 2
  AlarmSlots = 1
  SilenceLimit = 1
  SlaveWire = 1
  Asks = {}
  MaxVersion = 0
  MaxFaults = 0
  InfoGroups = 0
  Prompt = FALSE
PROPERTY AnsweredWasHeard
