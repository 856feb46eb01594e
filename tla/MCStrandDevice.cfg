SPECIFICATION FairSpec
CONSTANTS
  MaxSockets = 5
  MaxFailures = 1
  MaxDrops = 2
  MaxCommands = 3
  MaxMoves = 1
INVARIANTS
  TypeOK
  BitTellsLink
  
  RefusedOnlyByLeak
  
PROPERTIES
  Reconnects
  UpdatesEnd
CHECK_DEADLOCK FALSE
