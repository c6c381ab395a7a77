SPECIFICATION Spec
CONSTANTS
  MaxEdits = 2
  MaxWizards = 1
  MaxWrites = 2
INVARIANTS RestartShowsTheSame RequiredFieldFilled
CHECK_DEADLOCK FALSE
