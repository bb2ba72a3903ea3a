SPECIFICATION FairSpec
CONSTANTS
  MaxConnections = 2
  WebThreads = 1
  Calls = 2
  Uses = {"CUT", "LONG", "END", "REPORT"}
INVARIANTS TypeOK AnswersMatch
PROPERTIES CallsAreKept CallsReturn ClosedLeave
CHECK_DEADLOCK FALSE
