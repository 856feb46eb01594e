SPECIFICATION Spec
CONSTANTS
  Script <- MCScript
  Device <- MCDevice
  Items = 10
  Reordering = TRUE
  MaxCopies = 6
INVARIANTS
  IssuedAgainOnlyAfterAnother
  NothingLost
  OwnArguments
CHECK_DEADLOCK FALSE
