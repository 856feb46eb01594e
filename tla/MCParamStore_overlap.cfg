SPECIFICATION Spec
CONSTANTS
  StepperFields <- MCStepperFields
  LocationFields <- MCLocationFields
  Values = {1, 2}
  Overlap = TRUE
  MaxJobs = 3
INVARIANTS
  SetIsDurable
CHECK_DEADLOCK FALSE
