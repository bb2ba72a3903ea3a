SPECIFICATION Spec
CONSTANTS
  MaxAlarms = 2
  GroupCount = 1
  WeekDays = 1
  YearDays = 1
  DayMinutes = 2
  ByteWidth = 3
  TextLimit = 3
  MaxId = 2
  MaxUndercount = 1
  Junk <- SomeJunk
  Plans <- FewPlans
  Uses = {"REMOVE_RUNNING", "DELETE_GROUP", "RESTART", "MISS", "SET_CLOCK"}
INVARIANTS TypeOK NoShadow ListedAlarmsExist
PROPERTIES RestartKeepsAlarms
