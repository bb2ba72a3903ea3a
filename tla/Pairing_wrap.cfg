SPECIFICATION Spec
CONSTANTS
  QueueCapacity = 3
  WireCapacity = 2
  EagerUntil = 1
  GiveUpAt = 2
  AlarmSlots = 1
  SilenceLimit = 1
  SlaveWire = 2
  Slaves = {1, 2, 3}
  MaxNodes = 4
  FirstIp = 1
  ByteWidth = 2
  MaxIps = 3
  MaxEvents = 0
INVARIANT AlwaysReserved
