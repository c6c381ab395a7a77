SPECIFICATION EngineSpec
CONSTANTS
  Key <- MCKey
  ValueOf <- MCValueOf
  Unset = Unset
  NotSet = NotSet
  Written = {"v"}
  CommandLine <- MCCommandLine
  SplitOnce <- MCSplitOnce
  Bundle <- MCBundle
  NoKey <- MCNoKey
  Decision <- MCDecision
  Input <- MCInput
  Residency <- MCResidency
  Entry = {a, b}
  MaxInputs = 2
  MaxLen = 7
  ExtId = {e1}
  Writers <- MCWriters
INVARIANTS EngineTypeOK ResolveIsPrecedence ReportIsWhatWasAsked AcceptedIsDualSigned TamperEvident TruncationEvident Mv2BlockingNeedsApproval
PROPERTIES ImplementsTable EnterpriseBinds
CHECK_DEADLOCK FALSE
