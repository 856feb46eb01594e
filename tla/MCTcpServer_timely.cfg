SPECIFICATION FairSpec
CONSTANTS
  QueueLength = 2
  LateHandler = FALSE
  MaxClients = 6
  MaxUdp = 0
PROPERTIES
  ServesRequests
CHECK_DEADLOCK FALSE
