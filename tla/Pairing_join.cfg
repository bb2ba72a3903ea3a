SPECIFICATION FairSpec
CONSTANTS
  QueueCapacity = 3
  WireCapacity = 2
  EagerUntil = 1
  GiveUpAt = 2
  AlarmSlots = 1
  SilenceLimit = 1
  SlaveWire = 2
  Slaves = {1, 2}
  MaxNodes = 4
  FirstIp = 10
  ByteWidth = 14
  MaxIps = 3
  MaxEvents = 1
INVARIANTS TypeOK SharedAfterRestartOrWrap KnowsItsNetwork NodesAreDistinct
PROPERTIES Joins
