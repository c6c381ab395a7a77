SPECIFICATION Spec
CONSTANTS
  MaxEdits = 1
  MaxWizards = 1
  MaxWrites = 2
INVARIANT OnboardedIsConfigured
CHECK_DEADLOCK FALSE
