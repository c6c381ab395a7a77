SPECIFICATION BridgeSpec
CONSTANTS
  ExtId = {e1, e2}
  Writers <- MCWriters
  NotSet = NotSet
INVARIANT Mv3BlockingNeedsApproval
