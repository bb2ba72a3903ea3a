SPECIFICATION Spec
CONSTANTS
  QueueCapacity = 2
  WireCapacity = 2
  EagerUntil = 2
  GiveUpAt = 3
  AlarmSlots = 1
  SilenceLimit = 1
  SlaveWire = 1
  Asks = {"TURN"}
  MaxVersion = 3
  MaxFaults = 1
  InfoGroups = 1
  Prompt = FALSE
INVARIANTS TypeOK IdleIsPolled CommandsInOrder
PROPERTY ObeysInOrder
