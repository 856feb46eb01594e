SPECIFICATION FairSpec
CONSTANTS
  Strands <- MCStrands
  Location <- MCLocation
  Commands <- MCCommands
  Reached <- MCReached
  LimitChanges <- MCLimits
  FirstLimits <- MCFirstLimits
  TaskQueueLength = 1
  MoveQueueLength = 1
  PostWait = 20
  Gap = 10
  Word = 100000
  MaxCommands = 2
INVARIANTS
  TypeOK
  SeriesFollowsPlan
  
PROPERTIES
  SeriesEnd
CHECK_DEADLOCK FALSE
