SPECIFICATION Spec
CONSTANTS
  Types = {0, 1, 2, 3}
  Moves <- MCMoves
  Speeds = {100}
  Limits = {0, 1}
  FirstBoot <- MCFirstBoot
  QueueLength = 1
  HomeSteps = 5
  MaxStop = 2
  MaxCoast = 0
  MaxEvents = 3
PROPERTIES
  StopKeepsRecord
CHECK_DEADLOCK FALSE
