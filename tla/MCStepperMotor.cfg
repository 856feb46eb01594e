SPECIFICATION FairSpec
CONSTANTS
  Accelerations = {1000, 4000, 8000}
  Displacements <- MCDisplacements
  Speeds <- MCSpeeds
  HomeSteps = 5
  MaxStop = 63123
  MaxCoast = 63123
  MaxEvents = 4
INVARIANTS
  RestIsStill
  KeepsMaxSpeed
PROPERTIES
  DrivesAsMotor
  MoveEnds
CHECK_DEADLOCK FALSE
