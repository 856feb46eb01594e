SPECIFICATION FairSpec
CONSTANTS
  QueueLength = 2
  LateHandler = TRUE
  MaxClients = 4
  MaxUdp = 2
INVARIANTS
  TypeOK
  AnswersInOrder
PROPERTIES
  ConnectionEnds
CHECK_DEADLOCK FALSE
