SPECIFICATION FairSpec
CONSTANTS
  MaxConnections = 2
  WebThreads = 1
  Calls = 2
  Uses = {"END"}
PROPERTY AllCallsReturn
CHECK_DEADLOCK FALSE
