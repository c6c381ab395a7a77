SPECIFICATION Spec
CONSTANTS
  Process = {p1, p2}
  Thread = {t1, t2}
  Origin = {o1}
  Authority = {render, fetch}
  NoOrigin = NoOrigin
  Ttl = {1, 2}
  Width = 3
  MaxTime = 2
  MaxId = 2
  MaxHeld = 2
SYMMETRY Symmetry
INVARIANTS NoAmplification AcceptedIsGranted RegistryTracksGrants
PROPERTIES RefusalIsFinal ImplementsAuthority
CHECK_DEADLOCK FALSE
