SPECIFICATION WizardSpec
CONSTANTS
  StillSeconds = {1}
  MaxJobs = 4
INVARIANT AbortIsHonoured
CHECK_DEADLOCK FALSE
