SPECIFICATION Spec
CONSTANTS
  CardMin = 13
  CardMax = 19
  KeyMin = 32
  Site = {bank, blog}
  Granted = {"agent.actuate", "agent.observe"}
  CustomTools <- MCCustomTools
  Called = {"click", "read_page", "missing"}
  TextToSend <- MCTextToSend
  MaxSteps = 3
INVARIANTS NothingUngated JournalIsWhatStands NothingDetectableLeaves
CHECK_DEADLOCK FALSE
