SPECIFICATION FairSpec
CONSTANTS
  StepperFields <- MCStepperFields
  LocationFields <- MCLocationFields
  Values = {1, 2}
  Overlap = FALSE
  MaxJobs = 4
INVARIANTS
  TypeOK
  SetIsDurable
PROPERTIES
  PowerLossKeepsOldOrNew
  ResetKeepsLimits
  SavesEnd
CHECK_DEADLOCK FALSE
