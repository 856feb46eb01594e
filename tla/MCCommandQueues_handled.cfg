SPECIFICATION FairSpec
CONSTANTS
  Capacity <- MCCapacity
  SetLength = 3
  AfterSetup = {"pwm", "select"}
  Backlog = 4
  MaxMessages = 4
  MaxFailures = 1
INVARIANTS
  TypeOK
  SetCountsMessages
  
  
  LeftOutOnlyByRace
PROPERTIES
  EveryMessageHandled
CHECK_DEADLOCK FALSE
