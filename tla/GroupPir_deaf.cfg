SPECIFICATION Spec
CONSTANTS
  GroupCount = 1
  Durations = {1}
  Inactivities = {0, 1}
  TimeWidth = 2
  DefaultTime = 1
  IgnoredTime = 1
  FirstMenuGroup = 1
  PoolSlots = 2
  Uses = {"SETTINGS", "CLOCK"}
INVARIANT DeafIsTemporary
