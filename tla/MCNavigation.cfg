SPECIFICATION NavSpec
CONSTANTS
  Url <- MCUrl
  BlinkBase = 0
  GeckoBase = 10
  Policy <- MCPolicy
  Server <- MCServer
  MaxPages = 2
  MaxFrames = 3
INVARIANTS SameSiteSharesProcess DifferentSitesNeverShare PlaintextOnlyWhereAllowed PlaintextNeverSharesWithTls StricterIsSafer PartitionsAreApart
