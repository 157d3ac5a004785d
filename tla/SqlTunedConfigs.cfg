SPECIFICATION Spec
CONSTANTS
  m1 = m1
  m2 = m2
  c1 = c1
  c2 = c2
  Models <- MCModels
  Configs <- MCConfigs
  MaxRows = 3
  MaxClock = 2
INVARIANTS TypeOK
PROPERTIES ImplementsApi SaveBecomesCurrent OnlyLatestRowIsLocked
