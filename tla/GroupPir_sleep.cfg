SPECIFICATION Spec
CONSTANTS
  GroupCount = 2
  Durations = {1, 2, 3}
  Inactivities = {1}
  TimeWidth = 3
  DefaultTime = 1
  IgnoredTime = 2
  FirstMenuGroup = 1
  PoolSlots = 2
  Uses = {"CREATE", "MODIFY", "CLOCK", "RESTART"}
INVARIANTS TypeOK AlarmsAreOurs OffIsQuiet LightsFollowOrders DeafIsTemporary
