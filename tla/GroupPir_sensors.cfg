SPECIFICATION Spec
CONSTANTS
  GroupCount = 1
  Durations = {0}
  Inactivities = {0, 1}
  TimeWidth = 2
  DefaultTime = 1
  IgnoredTime = 1
  FirstMenuGroup = 0
  PoolSlots = 2
  Uses = {"CREATE", "DELETE", "MODIFY", "MASTER_PIR", "SLAVE_PIR", "SETTINGS", "CLOCK", "DHT", "RESTART"}
INVARIANTS AlarmsAreOurs OffIsQuiet
