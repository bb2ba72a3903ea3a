SPECIFICATION Spec
CONSTANTS
  QueueCapacity = 2
  WireCapacity = 2
  EagerUntil = 1
  GiveUpAt = 2
  AlarmSlots = 2
  SilenceLimit = 1
  SlaveWire = 1
  Asks = {"TEMP"}
  MaxVersion = 0
  MaxFaults = 0
  InfoGroups = 0
  Prompt = FALSE
INVARIANT BeliefIsTrue
