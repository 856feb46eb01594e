SPECIFICATION FairSpec
CONSTANTS
  Types = {0, 1, 2, 3}
  Moves <- MCMoves
  Speeds = {0, 100}
  Limits = {0}
  FirstBoot <- MCFirstBoot
  QueueLength = 1
  HomeSteps = 5
  MaxStop = 2
  MaxCoast = 1
  MaxEvents = 4
INVARIANTS
  TypeOK
  
  BoundedError
  
  
PROPERTIES
  
  ComesToRest
CHECK_DEADLOCK FALSE
