SPECIFICATION FairSpec
CONSTANTS
  MaxAlarms = 2
  GroupCount = 1
  WeekDays = 2
  YearDays = 2
  DayMinutes = 3
  ByteWidth = 3
  TextLimit = 3
  MaxId = 2
  MaxUndercount = 1
  Junk <- NoId
  Plans <- DayPlans
  Uses = {"REMOVE", "LOST"}
INVARIANTS RowsNameTheirAlarms OnSchedule LitForAReason
PROPERTIES RunningEnds
