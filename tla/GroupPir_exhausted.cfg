SPECIFICATION Spec
CONSTANTS
  GroupCount = 1
  Durations = {1}
  Inactivities = {1}
  TimeWidth = 2
  DefaultTime = 1
  IgnoredTime = 1
  FirstMenuGroup = 1
  PoolSlots = 2
  Uses = {"DHT"}
INVARIANT SetMeansArmed
