SPECIFICATION WindowSpec
CONSTANTS
  Step = 100
  MaxIdle = 2000
  Tab = {t1, t2, t3}
  Group = {g1, g2}
  NoTab = NoTab
  Label <- MCLabel
  Letter <- MCLetter
  MaxText = 3
  Origin = {a, b}
  Name = {camera}
  MaxTime = 2
  Id = {i1, i2}
  Version <- MCVersion
  Asks <- MCAsks
  Sensitive <- MCSensitive
  Page <- MCPage
  Cosine <- MCCosine
  DIM = 3
  BucketOf <- MCBucketOf
  MaxEntries = 4
INVARIANT OmniboxOnlyWithoutMatch
CHECK_DEADLOCK FALSE
