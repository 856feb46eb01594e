SPECIFICATION Spec
CONSTANTS
  QueueLength = 2
  LateHandler = TRUE
  MaxClients = 2
  MaxUdp = 0
INVARIANTS
  OwnAnswer
CHECK_DEADLOCK FALSE
